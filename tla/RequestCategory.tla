-------------------------- MODULE RequestCategory --------------------------
(***************************************************************************)
(* In what category a request is shown.  The list computes it in SQL, to   *)
(* filter and count before it reads a page; detail() computes it again for *)
(* every item of the page; access() decides once more who may sign now.    *)
(* One request is modelled, while its documents and its rows change.       *)
(***************************************************************************)
EXTENDS Naturals

CONSTANTS
  Parts,
  Ids,         \* of recipients within a document
  Emails,
  Agents,
  Owner,       \* owner_agent_id
  Documents,   \* what a native document may be
  Principals,  \* who looks at the request
  MaxNow,      \* bound of the clock
  Null

Roles == {"SIGNER", "CC"}  \* SIGNER stands for every role but CC
Actors == {"owner", "company", "customer"}
Statuses == {"DRAFT", "PENDING", "COMPLETED", "REJECTED", "CANCELLED"}
Scenarios == {"hr", "package", "custom"}
OperationStates == {"prepared", "unknown", "linked", "failed", "discarded"}

\* actor is the binding's, 'customer' without one; open is NOT_SIGNED.
Recipient == [id : Ids, email : Emails, role : Roles, actor : Actors, open : BOOLEAN,
              order : Nat \union {Null}, expiresAt : Nat \union {Null}]
Document == [status : Statuses, sequential : BOOLEAN, recipients : SUBSET Recipient]
Projection == [status : Statuses, sequential : BOOLEAN, recipients : SUBSET Recipient,
               expired : BOOLEAN]
Part == [op : OperationStates, error : BOOLEAN, projection : Projection \union {Null}]
Principal == [agent : Agents, admin : BOOLEAN, emails : SUBSET Emails,
              company : BOOLEAN]  \* company: may act for the request's company

UniqueIds(d) == \A r, s \in d.recipients : r.id = s.id => r = s

ASSUME NullAssumption ==
  Null \notin Projection /\ Null \notin Nat /\ Null \notin Statuses
ASSUME ClockAssumption == MaxNow \in Nat
ASSUME OwnerAssumption == Owner \in Agents /\ Principals \subseteq Principal
ASSUME DocumentsAssumption ==
  Documents \subseteq Document /\ \A d \in Documents : UniqueIds(d)

VARIABLES
  scenario,
  native,  \* Documenso's document of each part
  parts,   \* the rows of signing.request_parts
  now

vars == <<scenario, native, parts, now>>

TypeOK ==
  /\ scenario \in Scenarios
  /\ native \in [Parts -> Documents]
  /\ parts \in [Parts -> Part]
  /\ now \in 0..MaxNow
-----------------------------------------------------------------------------
Blocks(r) == r.role # "CC" /\ r.open
Expired(r) == r.expiresAt # Null /\ r.expiresAt <= now
Order(r) == IF r.order = Null THEN 1 ELSE r.order

\* projectEnvelope()
Project(d) ==
  [status |-> d.status, sequential |-> d.sequential, recipients |-> d.recipients,
   expired |-> d.status = "PENDING" /\ \E r \in d.recipients : Blocks(r) /\ Expired(r)]

\* recipientIsCurrent(): with Math.min over everybody who blocks, expired or not.
recipientIsCurrent(q, id) ==
  LET pending == {r \in q.recipients : Blocks(r)}
  IN  /\ q.status = "PENDING"
      /\ \E r \in pending :
           /\ r.id = id /\ ~Expired(r)
           /\ q.sequential => \A s \in pending : Order(r) <= Order(s)

\* The owner signs as owner, an administrator for the company.
ActsAs(a, r) == IF r.actor = "owner" THEN Owner = a.agent
                ELSE r.actor = "company" /\ a.admin

\* Mutant of canSign: whom the recipient stands for is not looked at.
canSignAnybody(a, q, r) == recipientIsCurrent(q, r.id) /\ r.email \in a.emails

canSign(a, q, r) ==
  /\ recipientIsCurrent(q, r.id)
  /\ r.email \in a.emails
  /\ scenario = "custom" \/ ActsAs(a, r)

\* The category of detail().
hasError ==
  \E p \in Parts :
    \/ parts[p].error
    \/ parts[p].op \in {"unknown", "failed", "discarded"}
    \/ /\ parts[p].projection # Null
       /\ \/ parts[p].projection.expired
          \/ parts[p].projection.status \in {"CANCELLED", "REJECTED"}

HasStatus(p, s) == parts[p].projection # Null /\ parts[p].projection.status = s

category(a) ==
  IF hasError THEN "attention"
  ELSE IF \A p \in Parts : HasStatus(p, "COMPLETED") THEN "completed"
  ELSE IF \E p \in Parts : HasStatus(p, "DRAFT") \/ parts[p].projection = Null THEN "draft"
  ELSE IF \E p \in Parts :
            /\ parts[p].projection # Null
            /\ \E r \in parts[p].projection.recipients : canSign(a, parts[p].projection, r)
       THEN "mine" ELSE "waiting"
-----------------------------------------------------------------------------
(***************************************************************************)
(* The CASE of requestListQuery.  A comparison with NULL is never true,    *)
(* but NULL IS DISTINCT FROM every status.                                 *)
(***************************************************************************)
status(p) == IF parts[p].projection = Null THEN Null ELSE parts[p].projection.status
recipients(p) == IF parts[p].projection = Null THEN {} ELSE parts[p].projection.recipients
expired(p) == IF parts[p].projection = Null THEN FALSE ELSE parts[p].projection.expired
sequential(p) == IF parts[p].projection = Null THEN FALSE ELSE parts[p].projection.sequential

attention(p) ==
  \/ parts[p].error \/ parts[p].op \in {"unknown", "failed", "discarded"}
  \/ expired(p) \/ status(p) \in {"CANCELLED", "REJECTED"}

\* Mutant of lowest: a recipient whose link has expired holds nobody up.
lowestUnexpired(p, r) ==
  \A o \in recipients(p) : Blocks(o) /\ ~Expired(o) => Order(r) <= Order(o)

\* Order(r) is the MIN over the recipients that block.
lowest(p, r) == \A o \in recipients(p) : Blocks(o) => Order(r) <= Order(o)

mine(a, p, r) ==
  /\ status(p) = "PENDING" /\ Blocks(r)
  /\ r.expiresAt = Null \/ r.expiresAt > now
  /\ r.email \in a.emails
  /\ \/ scenario = "custom"
     \/ r.actor = "owner" /\ Owner = a.agent
     \/ r.actor = "company" /\ a.admin
  /\ ~sequential(p) \/ lowest(p, r)

listCategory(a) ==
  IF \E p \in Parts : attention(p) THEN "attention"
  ELSE IF ~\E p \in Parts : status(p) # "COMPLETED" THEN "completed"
  ELSE IF \E p \in Parts : parts[p].projection = Null \/ status(p) = "DRAFT" THEN "draft"
  ELSE IF \E p \in Parts : \E r \in recipients(p) : mine(a, p, r) THEN "mine"
  ELSE "waiting"

\* request(): who may see the request.
request(a) == a.admin \/ Owner = a.agent

\* What access() checks for a signer, after syncPart read the document.  Before
\* this, and left out, it refuses a call of a revoked connection, one whose lease is
\* held by another, and a document that syncPart cannot read or match.
Granted(a, p, r) ==
  LET d == native[p]
  IN  /\ request(a)
      /\ scenario = "package" => a.admin \/ a.company
      /\ parts[p].op = "linked" /\ d.status = "PENDING"
      /\ r \in d.recipients /\ r.email \in a.emails
      /\ recipientIsCurrent(Project(d), r.id)
      /\ Blocks(r) /\ ~Expired(r)
      /\ scenario # "custom" => ActsAs(a, r)
-----------------------------------------------------------------------------
Init ==
  /\ scenario \in Scenarios
  /\ native \in [Parts -> {d \in Documents : d.status = "DRAFT"}]
  /\ parts = [p \in Parts |-> [op |-> "prepared", error |-> FALSE, projection |-> Null]]
  /\ now = 0

\* People edit, send, sign, reject or cancel the document, if there is one.
NativeMove(p) ==
  /\ parts[p].op \notin {"failed", "discarded"}
  /\ native[p].status \in {"DRAFT", "PENDING"}
  /\ \E d \in Documents : /\ native[p].status = "PENDING" => d.status # "DRAFT"
                          /\ native' = [native EXCEPT ![p] = d]
  /\ UNCHANGED <<scenario, parts, now>>

\* syncPart; an uncertain send of what is still a draft stays an error.
Sync(p) ==
  /\ parts[p].op \notin {"failed", "discarded"}
  /\ \E e \in {FALSE, native[p].status = "DRAFT"} :
       parts' = [parts EXCEPT ![p] =
                   [op |-> "linked", error |-> e, projection |-> Project(native[p])]]
  /\ UNCHANGED <<scenario, native, now>>

\* A create or a later call fails.  'prepared' stands for 'creating', too.
Fail(p) ==
  /\ parts[p].op \notin {"failed", "discarded"}
  /\ \E o \in {parts[p].op} \union
              (IF parts[p].op = "prepared" THEN {"unknown", "failed"} ELSE {}) :
       parts' = [parts EXCEPT ![p] = [@ EXCEPT !.op = o, !.error = TRUE]]
  /\ UNCHANGED <<scenario, native, now>>

\* discard and close; deleteDraft refuses what is no draft.
Discard(p) ==
  /\ parts[p].op \in {"prepared", "linked", "failed"}
  /\ parts[p].op = "linked" => native[p].status = "DRAFT"
  /\ parts' = [parts EXCEPT ![p] = [@ EXCEPT !.op = "discarded", !.error = FALSE]]
  /\ UNCHANGED <<scenario, native, now>>

Tick ==
  /\ now < MaxNow
  /\ now' = now + 1
  /\ UNCHANGED <<scenario, native, parts>>

Next ==
  \/ \E p \in Parts : NativeMove(p) \/ Sync(p) \/ Fail(p) \/ Discard(p)
  \/ Tick

Spec == Init /\ [][Next]_vars
-----------------------------------------------------------------------------
\* The list filters and counts by the category its items are then shown with:
\* "The category predicates mirror detail()/recipientIsCurrent" (list-query.ts:1).
CategoriesAgree == \A a \in Principals : listCategory(a) = category(a)

Fresh(p) ==
  parts[p].projection # Null =>
    /\ parts[p].projection.status = native[p].status
    /\ parts[p].projection.sequential = native[p].sequential
    /\ parts[p].projection.recipients = native[p].recipients

\* Who finds a request under 'mine' is a recipient whom access() lets sign, unless the
\* document has changed since or the company's access was withdrawn.  That access()
\* gets as far as this check (connection, lease, syncPart) is not claimed.
MineOpens ==
  \A a \in Principals :
    request(a) /\ category(a) = "mine" /\ (scenario = "package" => a.admin \/ a.company)
      /\ (\A p \in Parts : Fresh(p))
    => \E p \in Parts : \E r \in native[p].recipients : Granted(a, p, r)
=============================================================================
