# Verification of the signing bridge

TLA+ models of the bridge in `src/apps/bridge`, their TLC configurations, and
theorems checked by TLAPS. The bridge stands between an internal Portal and
Documenso, the signing engine: it stores what the Portal wants signed, creates
the native documents, sends them, follows their status and tells the Portal.
It has a PostgreSQL database, a pool of connections, a timer, and HTTP on both
sides; every process of it may die at any `await`.

## The system

| Component | State | Operations | Hard part | What makes it correct |
|---|---|---|---|---|
| Request lifecycle (`service.ts` processRequest, recover, syncPart, command, access, download, review, bundle, receiveWebhook, reconcile) | `request_parts` (operation_state, provider_id, delivery_state, projection), `request_uploads`, `webhook_inbox`; Documenso's documents | create, find again, synchronize, send, cancel, close, discard, review, read, webhook | every POST may be lost, late or applied with its answer lost; crashes; rows read before the lease | one document and one send per part, rows that agree with documents, no change kept from the Portal |
| Request creation (`create`, `reissueSeed`) | `requests`, an advisory transaction lock per key | create, repeat, replace | callers repeat, also concurrently; checks made long before the insert | one request per key and reference, every answer is of the caller's own input |
| Package catalogue (`publish`, `composePackage`, `retirePackage`, `prepare`) | `packages` (retired_at, components) | publish, compose, retire; prepare, create and send read it | a version is retired while others use it | packages are born from approved documents, stopped versions are refused |
| Portal outbox (`deliverPortalEvents`) | `portal_outbox` | insert, claim, post, save | overlapping passes, lost answers, rows nobody accepts | no row is posted by two passes at once, none is dropped |
| Reconcile queue (`reconcile`, the timer of `server.ts`) | `next_reconcile_at`, `reconcile_attempts`, the webhooks' `next_attempt_at` | pick webhooks and requests, back off, reset | failing ones fill the batch; a connection revoked in between | each has its turn, the healthy ones get up to date |
| Template upload (`uploadTemplate`, `verifyDocumentRoundTrip`) | `template_uploads` | upload, repeat, verify | the same lost answers as a create | one template per upload id |
| Connections (`registerConnection`, `rotateConnection`, `revokeConnection`) | `connections` | register, rotate, revoke | a call that runs while its connection is revoked | at most one active connection per scope |
| Pool and lease (`store.ts`, `lease`, `readLease`) | ten connections, session advisory locks | lease, query, release | a leased call needs a second connection | the calls do not wait on each other |
| List and categories (`list-query.ts`, `detail`) | none | compute | two implementations, in SQL and in TypeScript | they agree |
| Personal signing (`personal-signing/users.ts`, `access.ts`) | users, accounts, organisations, teams and sessions of a second Documenso, `PortalSigningIdentity` | sign-in, check of every request, rotation of a grant | concurrent and half-done first sign-ins; the Portal changes a grant under a call | one user and one private workspace per agent, sessions only under a presented grant |
| HTTP, authentication, import tools, image preparation, gateway, infrastructure | none of their own | | | |

How they meet: `create` commits a request and hands it to processRequest; a
command reads the catalogue before it sends; syncPart inserts outbox rows in the
transaction that stores a projection; the timer repeats processRequest, the
webhook inbox and the outbox; everything that changes a request runs under
its lease, a PostgreSQL session advisory lock. Personal signing is a system of its
own; it shares only the Portal.

## Modules

| Module | Models | Runs | Theorems |
|---|---|---|---|
| `RequestLifecycle` | one request, its lease, its documents | `offboarding`, `onboarding`, `liveness`; `relinked`, `recoverable` | `RequestLifecycleProofs` |
| `PortalOutbox` | the outbox and its delivery passes | `outbox` | `PortalOutboxProofs` |
| `PackageCatalog` | versions, packages, requests of them | `catalog` | `PackageCatalogProofs` |
| `PartContract` | what the bridge promises of one part | as a property of `offboarding` | in `RequestLifecycleProofs` |
| `IdempotentCreate` | what `POST /v1/requests` and a template upload promise | as a property of `creation` and `upload` | in `RequestCreationProofs`, `TemplateUploadProofs` |
| `RequestCreation` | `create()` in its steps | `creation` | `RequestCreationProofs` |
| `ReconcileQueue` | the passes of `reconcile()`, the backoff, a company's connections | `reconcile` | `ReconcileQueueProofs` |
| `PersonalProvisioning` | sign-in and session checks of the personal Documenso | `personal` | `PersonalProvisioningProofs` |
| `TemplateUpload` | `uploadTemplate()` and the preflight of its files | `upload` | `TemplateUploadProofs` |
| `RequestCategory` | the category in the list, in `detail()`, and who may sign in `access()` | `category` | `RequestCategoryProofs` |

Each `MC` module adds the symmetry of its model values, or the value of a constant
that a `.cfg` cannot write, and nothing else; `PortalOutbox` is checked directly. The
operators whose comment calls them a *mutant* are small bugs of the operator
that follows them; no specification uses them. Putting one in the place of the
real operator breaks the property named with it in `PROJECT.json`.

### RequestLifecycle

`db[p]` is the row of part `p`: `op`, `pid`, `del` and `proj` are
operation_state, provider_id, delivery_state and the status inside projection.
`docs` is Documenso: each document has the part its externalId names, a status,
and whether people edited it. A *worker* is one call (`job`) of the API, the
timer or a webhook; `pc` is the await it stands at, `rows` what it read when it
began, `seen` what its last GET answered, `found` an id it holds and has not
saved. Each action is the code from one await to the next:

- `Begin`, `BeginRead`, `BeginHook`, `Acquire`, `Busy`: reading rows before or
  after the lease is where the code does it. `access`, `download` and webhooks
  read first; the others lock first.
- `MarkCreating`, `PostAccepted`, `PostRefused`, `PostUncertain`, `SaveId`,
  `SaveFailure`, `Recover`, `SaveFound`: processRequest and recover.
- `Get`, `Commit`: syncPart. `Commit` writes what the GET saw, also if the
  document has changed since.
- `ActSend` ... `Discard`, `Purge`: the branches of command, close and discard.
- `Throw`: an await that failed without effect, or a check that refuses.
  `Crash`: the process dies; a POST on the wire goes into `lateCreate` or
  `lateDoc` and may still be applied, or never.
- `NativeMove`, `NativeDuplicate`: signers and administrators of Documenso.

`announced` is the outbox: the statuses it got a row for. `posted` and `reviewed` are history:
the distribute POSTs that may have been applied, and the document sets a review has shown.

`PartContract` is the abstract specification of one part, without calls, leases, stale
rows, retries or crashes: prepared, begun, one document, linked or refused; mailed at
most once, as the draft clients were shown; shown statuses that follow the document
and are announced; given up only while clients have seen no more than a draft. `Contract ==
INSTANCE PartContract WITH stage <- ..., document <- ...` reads its variables from rows,
documents, outbox and `posted`: `Stage` takes `creating` and `unknown` as one, because which of
them a row shows depends on where a call died. A step of the contract is the UPDATE that
makes a stage durable, the arrival of a POST, or a move of people; everything else a call does
is a stutter.

Left out: `remind`, the scenario `custom`, the content of a projection beyond
its status, and the revocation of a connection, which appears to a call as a
refusal. The lease is assumed to live as long as its worker: a database
session that dies under a living call is not modelled.

### PortalOutbox

Time counts in ticks of 30 seconds. `wait[e]` is the time until
next_attempt_at; `age[d]` bounds a pass by its timeouts (`PassTime`) and the
pause between passes by the timer's interval (`Gap`). A *deliverer* is a pass
that may overlap others: another process, or the same one after `Promise.all`
returned at its first failed UPDATE while the other posts went on. `ClaimTime`
is the five minutes of the claim, larger than a pass, as `TimeAssumption` says.

### PackageCatalog

Documents and packages are versions that are absent, active or retired. A call
goes through the places where it has read something and not yet used it. The
lock of composePackage (`FOR SHARE`) is `shared`: `Retire` waits for it.
`stopped[c]` is history: the versions already stopped when the call began. Only
the requests of company packages and of offboarding are modelled, because the
sends of the other scenarios do not look at retired_at.

### RequestCreation and IdempotentCreate

A call of `create()` looks its key up, checks the predecessor, prepares, takes
the advisory lock, looks the key up again, inserts and commits. `INSERT` waits
for uncommitted rows that clash, as a unique index does. `IdempotentCreate` is
the promise: a request appears in one step, at most once per key and reference,
and answers are of committed requests of the same input. `RequestCreation`
implements it: `Promise == INSTANCE IdempotentCreate WITH table <- table, answers <-
answers`, and the step of the promise is the commit.

### ReconcileQueue

`pass` is the run of `reconcile()`: `inbox` and `requests` are its two loops, `rows`
and `batch` what its SELECTs returned and has not had its turn, `request` and `left` the
processRequest under way. `TakeEvent` is one webhook with its lease, GET and UPDATE;
`Take`, `Lease`, `Process` and `Finish` are the UPDATE before a request's turn, the
lease, its parts one by one, and the last UPDATE that ends the backoff. What
processRequest does inside is RequestLifecycle; here it is the set of rows it may
leave (`Results`): up to date, with an error, or refused for good. Parts in `Good`
are those whose native calls succeed. `Call` and `Return` are users who hold a lease,
`registerConnection`, `rotateConnection` and `revokeConnection` the administrators, whose active connection the
unique index `connection_company` keeps single; `rotateConnection` of a connection
that another has replaced is refused by it.

`next` is next_reconcile_at relative to now. Of what is due only the order counts, so
`Tick` compresses past times to their rank and keeps the state finite. `overtook[r]` is history:
who had a turn since `r` waits. Abstracted: the order inside a batch is left open (each
request of it is served in the pass), a webhook is one step, the webhooks are there
from the start (how they arrive is RequestLifecycle), and there is one pass at a time,
because of `reconciling` in `server.ts` and the single replica of
`docs/SIGNING_OPERATIONS.md:55`. The delivery at the end of a pass is PortalOutbox.

Two consequences of the code that reading it hides: REQUEST_BUSY is backed off like a
failure, and a pass of more than two minutes misses the reset of its first requests
(`service.ts:1863`), which then wait out their backoff although they succeeded.

### PersonalProvisioning

`portal[a]` is the grant the Portal gives agent `a`, a Google subject with an address
and a version; `PortalChange` changes or withdraws it at any moment. `users`, `account`,
`owner`, `team` and `session` are Documenso's tables, `mapping` is
`PortalSigningIdentity`. A call is a sign-in (`provisionPersonalGoogleUser`: a
transaction under the agent's advisory lock, then organisation, members, team and
settings, each a query of its own, then the check, `createSession` with its own check)
or a request of a session (`assertPersonalUserAccess`: the user, the mapping, the account, the
Portal, the workspace, each read by a query of its own). A check that denies deletes the user's sessions
in one more query, `DeleteSessions`; `Fail` ends a call anywhere without more. The
unique indexes are `Unique`; `Legacy` are users from before the integration. `Meddle` is
an administrator who disables a user or puts someone into another's workspace.
`presented` is history: the grants that a verified sign-in brought.

A sign-in that commits between `ReadUser`, `ReadMapping` and `ReadAccount` makes the check
compare the address of one identity with the mapping of another: it denies a call whose grant
is the Portal's and, by then, the mapping's, and its late `DeleteSessions` logs the user out. Overlapping sign-ins
of one agent under two grants can do this in the code, and nothing in the repository excludes it. What half-done
provisioning must not do is the safety property `NeverTurnedAway`, which says of every step what a liveness property
would only say of the end: no sign-in is refused that was `undisturbed`. That is a history
variable: in every state since the call began its grant was the Portal's and, once written, the
mapping's, nobody else held its identity, and no administrator's mistake stood (`Favoured`). Calls that
died, and calls that still run, are no excuse for a refusal unless they commit another grant.
The three counts of the workspace (`users.ts:57`, `:64`, `:67`) are one step: there is one mistake at a time, no
property but `NeverTurnedAway` is about it, and that one excludes it for the whole call.

### TemplateUpload

`row` is the row of one upload id, `native` Documenso's envelopes: the template,
and the preflight drafts, one external id per file. A call reads the row under
the lease and then goes on with what it read (`known`, `held`): it finds the
template again (`Recover`) or marks the row and creates it (`Mark`, `Post...`),
stores the id, verifies, and for each file makes a draft, compares its bytes
(`Kept`) and deletes it. `Stop` is a failed await, a refused check or the death of
the process: what was on the wire goes into `lateCreate` or `lateDelete`.
`Altered` says which files the native conversion changes; `Plain` inputs have no
layout and are not tried file by file. Two drafts with the external id of one
file, which a late create can leave behind, stop every later call: the code asks
for an operator there (`native-pdf-check.ts:18`).

The upload, too, keeps the promise of `IdempotentCreate`: an id is an envelope, `table` is the input
a template was created with, the key of every input is the one upload id, and the answers
are those of calls that got to `ready`. The create of the promise is the arrival
of the POST in Documenso, not the UPDATE of the row, which may never happen.

### RequestCategory

The category of a request is computed in SQL (`listCategory`, with the `CASE`
and the handling of NULL as PostgreSQL has them) and in TypeScript (`category`, through
`canSign` and `recipientIsCurrent`); `access()` decides again who may sign
(`Granted`; the refusals before that, of a revoked connection, a busy lease or a document that
syncPart cannot match, are left out, so a request under 'mine' gets its link up to those). `native` is Documenso's document of each part, `parts` the rows.
People move the documents, `Sync` stores `Project(native[p])`, `Fail` and `Discard`
leave rows with errors, old projections or none, and `Tick` lets links expire after
the projection that said they had not. The formulas are compared on one state: the list
and the detail of one HTTP answer are read by two queries, and a change between
them shows in the one and not in the other. A recipient's id is unique in its
document (`DocumentsAssumption`), as Documenso's primary key makes it. The parts of a
`custom` request hang on personal connections and those of all others on company
connections, as `assertNewSigningScenario` and the tables leave them.

## Runs

| Run | Bounds | Shows |
|---|---|---|
| `offboarding` | 2 concurrent calls of all nine kinds, 1 part, 2 documents, people sign, cancel, send and delete | the consistency of row, document, delivery and projection under crashes and lost answers, and the contract of a part |
| `onboarding` | 1 call at a time, 2 parts, 2 documents, people edit drafts and copy documents with their external id | calls that stop between parts and are repeated; a command that reports success finished every part; links stay right, and each create goes out once, with two documents of one id |
| `liveness` | 2 calls, 1 part, 1 document, no symmetry | a created document is linked and its final status is stored |
| `outbox` | 2 deliverers, 3 rows, batch 2, the two oldest never accepted | one pass per row, no row closed without the Portal, the living row is delivered |
| `catalog` | 2 documents, 1 package, 2 requests, 2 calls | composition against retirement, stopped versions refused |
| `creation` | 3 calls, 2 keys, 2 references, 1 predecessor | no clash on the key, the promise, replacements only of finished requests |
| `upload` | 2 calls, 3 inputs (kept, second file changed, without layout), 2 files, 3 envelopes | one template per upload id, every answer is of it and of the input it was made with, ready only after every file passed, a created template is found again |
| `personal` | 2 agents, 3 identities, 1 user from before, 2 calls, 3 changes by the Portal, 1 failure or mistake | one user and one private workspace per agent, no session without, no undisturbed sign-in refused by what dead or overlapping calls leave |
| `reconcile` | 2 requests, 2 webhooks, batches of 1, 2 connections, 1 disturbance, delays up to 2 | no waiting request is overtaken twice, the healthy one gets up to date, its webhook is taken |
| `category` | 2 parts, 9 documents, 8 principals, clock 0 and 1 | list and detail agree, a request under 'mine' has a recipient whom access() lets sign |

Why the bounds suffice: a violation of one part's properties needs one call that
is overtaken and one that overtakes it, and a second document for a duplicate;
two parts are the least with something between them. Three calls of `create` let
one hold the lock, one wait and one come late. As many dead rows as the
batch holds are the extreme of a full `LIMIT`. With a batch of one, a single failing request or
webhook fills it, which is what thirty do to a batch of thirty. Three identities, two of one
subject and one with the address of a user from before, are the ways in which a sign-in
clashes; three changes let a grant come, change and go. An upload needs its template and a
draft per file, and a second file for the calls that stop between two. The nine
documents are the ways a recipient can be held up: by order, by a missing order, by
one whose link expired, by a copy, or not at all; the theorems hold for all others.

Fairness. `RequestLifecycle`: every await is bounded (20 s for Documenso, 5 s and
30 s for the database), so a call moves or ends (weak); the timer starts
processRequest again and again while nobody holds the lease, and its requests
succeed again and again (strong, in `Retried` and `Recovering`). `RetrySpec`
adds a person who repeats discard; it is used to show that even this does not
help in `recoverable`. `PortalOutbox`: time passes, the timer
starts passes, a living Portal accepts again and again. `ReconcileQueue`: the timer starts
passes and a pass goes on, time passes, and a user's call gives its lease back (weak;
`Step`, `Tick`, `Return`); disturbances are bounded by `MaxMoves`, failures of parts that
are not `Good` are not. `TemplateUpload`: every
await is bounded, and the administrator repeats the upload with the same input,
also at times when no other call runs (strong); the requests of these repeats
succeed again and again. Nothing is assumed of late POSTs.

Where the code and its documents disagree:

- `relinked`: reconcile refuses a webhook whose document is not the linked one,
  but looks at a row read before the lease: with two documents of one external
  id the part moves to the other. The theorems say how far this goes: without copies no link ever
  moves (`LinkNeverMoves`), and with them no other step than this one moves it
  (`RelinkedByStaleHook`).
- `recoverable`: docs/ARCHITECTURE.md:29 calls uncertain operations recoverable.
  A create that never arrived stays `unknown` for ever: recovery finds no
  document, and discard and close refuse a part that is not linked. The second
  conjunct of the property fails on its own, too: a part whose draft was deleted
  with the answer lost stays `linked` to a document nobody can read.
  Neither is a matter of patience: in both states the part stays for ever (`StuckForGood`).

Two windows are modelled and have no run of their own. docs/INDEPENDENT_PACKAGES.md:40
blocks unsent drafts of a stopped version, and a send that read retired_at
(service.ts:1374) before the stop still goes out; `StoppedIsRefused` therefore
speaks of the calls that begin after the stop. packages.ts:229 refuses a draft that
people edited, on an earlier GET: one edited between this GET and the POST is sent
(`docs[d].edit`; `distribute` names no version, so no order of the steps would help).

## Proofs

For every value of the constants that satisfies the named assumptions:

- `RequestLifecycleProofs`: every safety and action property of the runs `offboarding` and
  `onboarding`, for any number of calls, parts and documents. `TypeCorrect` is TypeOK.
  `AtMostOneCreated` (AtMostOneDocument) is not inductive: it needs to know that a part of which a POST is on
  the wire, or may still arrive, is in `creating` or `unknown` and has no
  document and no second POST. The invariant says this with a *token* per part
  that `MarkCreating` spends. The others stand on `BaseInv`: one call is inside the
  lease, where it stands says what kind of call it is, and the rows of the parts it has yet to
  come to are still what it read (the row of its own part need not be: `read` and `hook` read it
  before the lease). Over this ground each has its own invariant:
  - `UploadsKept` (UploadsUntilCreated), `UploadInv`: a call past `uploads` no longer finds its part prepared.
  - `ChangesAnnounced` (NoSilentChange), `AnnouncedInv`: a row that a call holds was stored, so
    its projection was announced, too; a stale row is enough to compare with.
  - `SentOnce` (AtMostOneSend), `SendInv`: a send decides by a row that is still the stored one
    until `sending` is written, and the intent outlives whatever the POST does.
  - `LinksConsistent` (LinkConsistent), `LinkInv`: an id is replaced only by one of the part's own
    documents and never taken away, so a stale row with an id shows that the stored one has one.
  - `NothingStranded` and `DiscardedStays` (NoStrandedDocument, DiscardedIsFinal), `StrandInv`: `prepared` and
    `failed` only while nothing of the part exists or is under way, `discarded` only when nothing of it can
    be read any more; who holds an answer about a part knows that it is not discarded.
  - `SentReviewed` (SentWasReviewed), `ReviewInv`: a review hash names documents of its parts.
  - `CommandsComplete` (CommandIsComplete), `CommandInv`: every part behind a call is settled and stays so.
  - `ProjectionAdvances` (ProjectionMonotone), `ProjectionInv`: what is stored, and what a call is
    about to store, are statuses the document has had, and no commit comes between a GET and its own.
  - `CreateSentOnce` (CreatesOnce), from `BaseInv` alone: whoever is about to create holds a row that is still
    `prepared` in the table, and nothing makes a part `prepared` again. It holds with copies.
  - `PartsKeepContract` (KeepsContract): RequestLifecycle implements `PartContract`. `ContractInv` adds to the
    invariants above what the place of a call says of its part's row (linked, with a projection, a
    projected draft), and that a late POST names a document of a part that is linked or discarded, a late
    distribute one that counts as mailed (`LateSound`: the call that sent it is gone). With all of
    them (`AllInv`) each action is one step of the contract for the part it is about, or none.
  - `LinkNeverMoves` (LinkStable) follows from `LinkInv` and `OnceInv`; `RelinkedByStaleHook` from `RelinkInv`:
    a create saves its id while the row has none, recovery's UPDATE asks the row again, and only a
    webhook asks the row it read earlier.
  - `StuckForGood`: a part that is `unknown` with no document and nothing on the wire stays so, and so does
    one `linked` to a deleted document that no call is about to discard.

  `AtMostOneCreated`, `NothingStranded`, `DiscardedStays`, `SentReviewed`, `ProjectionAdvances`,
  `PartsKeepContract`, `LinkNeverMoves` and `StuckForGood` assume that people do not copy a document with its external id (`"duplicate" \notin Moves`):
  with two documents a part may move to the other, as `relinked` shows.
- `PortalOutboxProofs`: `ClaimExcludes` (InFlightOnce). A pass that holds a row is
  younger than the claim: `ClaimHolds` relates `wait` to `age`, and
  `PassTime < ClaimTime` does the rest. `OutboxTyped` (TypeOK: the exponent stays cut, no
  wait is negative) and `ClosesAccepted` (DeliveredWasReceived: a pass closes only what it saw
  accepted). `DoublingAssumption` is arithmetic the provers do not know: powers of two are numbers.
- `ReconcileQueueProofs`: `QueueTyped` and `FairTurns` (NobodyIsPassedOver), for any requests, limits and
  delays, and for failures without bound. `QueueInv` says that a request which waits is due longer
  than each part of whoever overtook it: a turn pushes the next one into the future (`Delay` is never
  0), and time keeps the order of what is due. `ORDER BY` does the rest, by counting who is ahead.
- `PersonalProvisioningProofs`: `ProvisioningTyped`, `OneUser`, `WholeMapping`, `PrivateSessions`, `FreshGrants` and
  `Retryable` (NeverTurnedAway), for any agents, identities, calls and failures. `Inv` adds to the
  properties what each place of a call knows (`CallOK`), that the lock of an agent is one
  call's, and that nothing calls have seen is taken back (`Grows`). `Retryable` needs `CalmInv` on top: what the
check of an undisturbed call has read (address, mapping, account) is still the row of its own grant,
because whatever commits another one ends its being undisturbed in the same step (`NextCalm`).
- `PackageCatalogProofs`: `CatalogTyped`, `ComposesActive`, `RefusesStopped`. What is
  stopped stays stopped, and a call that got past its checks read a version
  that was not stopped when it began.
- `RequestCreationProofs`: `KeysNeverClash`, `ReplacementsWait` and
  `CreateKeepsPromise`, the refinement of `IdempotentCreate`. The invariant says who holds the
  lock and that a call beyond the second lookup found no row of its key.
- `TemplateUploadProofs`: `OneTemplatePerUpload`, `FailedUploadHasNone`,
  `ReadyPassedConversion` (for any number of files), `SameAnswer` (all answered calls sent one input
  and got one template) and `UploadKeepsPromise`, the refinement of `IdempotentCreate`. The invariant
  says for every place of a call what it read that is still so: while a call is
  about to create, no template exists and none is on its way; the files before the
  one it has come to were kept; and a row that is `prepared` or `failed` has nothing
  in Documenso. `HeldInv` adds for the refinement that whoever names a template names one that came
  into being.
- `RequestCategoryProofs`: `ListMirrorsDetail` and `MineGivesLink`, for any recipients
  and principals, branch by branch: with unique ids `find()` and the SQL look at the
  same recipient, and `Math.min` and `MIN` are the same bound. The invariant adds that
  only linked or discarded parts have a projection.

Only model-checked: the liveness properties (EventuallyLinked, EventuallyProjected,
EventuallyDelivered, EventuallyKnown, HealthyIsSynchronized, HealthyEventIsTaken) and
everything else that needs fairness or ENABLED, which the proof system does not reason about. The
properties of the runs that expect a violation are false in the model. `LinkStable` is true where
nobody copies documents, which `LinkNeverMoves` proves; of `UncertainResolves`, `StuckForGood` proves the
opposite.

## Not modelled

- Composition, fields and template validation (`packages.ts`, `template-layout.ts`, `customer-fields.ts`):
  copies and checks of data in one call, without state that another could change in between.
  Their outcome is in the models wherever it decides something: a draft that no longer
  matches (`docs[d].edit`), a file the conversion alters (`Altered`), a refused check (`Throw`).
- `remind`, whose throttle is a time in one row, and the scenario `custom`, which new
  requests cannot have.
- The ten connections of the pool: a query that waits longer than five seconds fails, and
  failed awaits are everywhere in the models. How often they fail is a matter of load.
- A database session that dies under a call that lives on: the code takes its lease to last
  as long as the call, and so do the models.
- The proof document that `registerConnection` and `rotateConnection` read, and personal
  connections, which can no longer be registered.
- HTTP routes, authentication and configuration (stateless), the import tools (one
  operator, one call after the other), the preparation of the Documenso images, the company overlay,
  the gateway and the infrastructure (no state at run time).

## What would come next

1. A lease that its session may lose, with the calls that then overlap: which of the theorems
   survive, and what the UPDATEs would have to compare.
2. `remind`, with its time and its refusals.
3. An abstract contract of a whole request over `PartContract`: what a command that reports success
   has done to all parts at once, across the calls that stopped before it.
