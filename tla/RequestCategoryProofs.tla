----------------------- MODULE RequestCategoryProofs -----------------------
(***************************************************************************)
(* For any parts, documents, recipients and principals: the SQL of the     *)
(* list and detail() put a request into the same category, and who finds   *)
(* it under 'mine' gets a link.                                            *)
(***************************************************************************)
EXTENDS RequestCategory, TLAPS

\* find() by id means one recipient, and only linked parts have a projection.
RowsSound ==
  \A p \in Parts :
    parts[p].projection # Null =>
      UniqueIds(parts[p].projection) /\ parts[p].op \in {"linked", "discarded"}

CategoryInv == TypeOK /\ RowsSound

USE NullAssumption, OwnerAssumption, DocumentsAssumption, ClockAssumption

LEMMA ProjectTyped ==
  ASSUME NEW d \in Documents
  PROVE  Project(d) \in Projection /\ UniqueIds(Project(d)) /\ Project(d) # Null
<1>1. d \in Document /\ UniqueIds(d)
  OBVIOUS
<1>2. Project(d) \in Projection
  BY <1>1 DEF Project, Projection, Document
<1>3. Project(d).recipients = d.recipients
  BY DEF Project
<1> QED BY <1>1, <1>2, <1>3 DEF UniqueIds

LEMMA InitCategoryInv == Init => CategoryInv
<1> SUFFICES ASSUME Init PROVE CategoryInv
  OBVIOUS
<1>1. [op |-> "prepared", error |-> FALSE, projection |-> Null] \in Part
  BY DEF Part, OperationStates
<1>2. TypeOK
  BY <1>1 DEF Init, TypeOK
<1>3. RowsSound
  BY DEF Init, RowsSound
<1> QED BY <1>2, <1>3 DEF CategoryInv

\* A step that changes the row of one part, and leaves documents and clock.
LEMMA RowKeeps ==
  ASSUME CategoryInv, NEW p \in Parts, NEW row \in Part,
         parts' = [parts EXCEPT ![p] = row], UNCHANGED <<scenario, native, now>>,
         row.projection # Null =>
           UniqueIds(row.projection) /\ row.op \in {"linked", "discarded"}
  PROVE  CategoryInv'
<1>1. TypeOK'
  BY DEF CategoryInv, TypeOK
<1>2. RowsSound'
  BY DEF CategoryInv, TypeOK, RowsSound, UniqueIds
<1> QED BY <1>1, <1>2 DEF CategoryInv

LEMMA NextCategoryInv ==
  ASSUME CategoryInv, [Next]_vars
  PROVE  CategoryInv'
<1>1. TypeOK /\ RowsSound
  BY DEF CategoryInv
<1>2. ASSUME NEW p \in Parts, NativeMove(p) PROVE CategoryInv'
  BY <1>1, <1>2 DEF NativeMove, CategoryInv, TypeOK, RowsSound, UniqueIds
<1>3. ASSUME NEW p \in Parts, Sync(p) PROVE CategoryInv'
  <2>1. PICK e \in BOOLEAN :
          parts' = [parts EXCEPT ![p] =
                      [op |-> "linked", error |-> e, projection |-> Project(native[p])]]
    BY <1>3 DEF Sync
  <2>2. /\ Project(native[p]) \in Projection /\ UniqueIds(Project(native[p]))
    BY <1>1, ProjectTyped DEF TypeOK
  <2>3. [op |-> "linked", error |-> e, projection |-> Project(native[p])] \in Part
    BY <2>2 DEF Part, OperationStates
  <2> QED BY <1>3, <2>1, <2>2, <2>3, RowKeeps DEF Sync
<1>4. ASSUME NEW p \in Parts, Fail(p) PROVE CategoryInv'
  <2>1. PICK o \in {parts[p].op} \union
                   (IF parts[p].op = "prepared" THEN {"unknown", "failed"} ELSE {}) :
          parts' = [parts EXCEPT ![p] = [@ EXCEPT !.op = o, !.error = TRUE]]
    BY <1>4 DEF Fail
  <2> DEFINE row == [parts[p] EXCEPT !.op = o, !.error = TRUE]
  <2>2. parts[p] \in Part
    BY <1>1 DEF TypeOK
  <2>3. o \in OperationStates
    BY <2>1, <2>2 DEF Part, OperationStates
  <2>4. /\ row \in Part /\ row.op = o /\ row.projection = parts[p].projection
        /\ parts' = [parts EXCEPT ![p] = row]
    BY <2>1, <2>2, <2>3 DEF Part
  <2>5. row.projection # Null =>
          UniqueIds(row.projection) /\ row.op \in {"linked", "discarded"}
    BY <1>1, <2>1, <2>4 DEF RowsSound
  <2> HIDE DEF row
  <2> QED BY <1>4, <2>4, <2>5, RowKeeps DEF Fail
<1>5. ASSUME NEW p \in Parts, Discard(p) PROVE CategoryInv'
  <2> DEFINE row == [parts[p] EXCEPT !.op = "discarded", !.error = FALSE]
  <2>1. parts[p] \in Part
    BY <1>1 DEF TypeOK
  <2>2. /\ row \in Part /\ row.op = "discarded" /\ row.projection = parts[p].projection
        /\ parts' = [parts EXCEPT ![p] = row]
    BY <1>5, <2>1 DEF Discard, Part, OperationStates
  <2>3. row.projection # Null =>
          UniqueIds(row.projection) /\ row.op \in {"linked", "discarded"}
    BY <1>1, <2>2 DEF RowsSound
  <2> HIDE DEF row
  <2> QED BY <1>5, <2>2, <2>3, RowKeeps DEF Discard
<1>6. CASE Tick
  BY <1>1, <1>6 DEF Tick, CategoryInv, TypeOK, RowsSound, UniqueIds
<1>7. CASE UNCHANGED vars
  BY <1>1, <1>7 DEF vars, CategoryInv, TypeOK, RowsSound, UniqueIds
<1> QED BY <1>2, <1>3, <1>4, <1>5, <1>6, <1>7 DEF Next

LEMMA CategoryInvariant == Spec => []CategoryInv
  BY InitCategoryInv, NextCategoryInv, PTL DEF Spec
-----------------------------------------------------------------------------
(***************************************************************************)
(* The branches of the two computations, one by one.                       *)
(***************************************************************************)
LEMMA SameAttention ==
  ASSUME CategoryInv
  PROVE  (\E p \in Parts : attention(p)) <=> hasError
<1>1. Null \notin {"CANCELLED", "REJECTED"}
  BY DEF Statuses
<1>2. ASSUME NEW p \in Parts
      PROVE  (expired(p) \/ status(p) \in {"CANCELLED", "REJECTED"}) <=>
               /\ parts[p].projection # Null
               /\ \/ parts[p].projection.expired
                  \/ parts[p].projection.status \in {"CANCELLED", "REJECTED"}
  <2>1. CASE parts[p].projection = Null
    BY <1>1, <2>1 DEF expired, status
  <2>2. CASE parts[p].projection # Null
    <3>1. expired(p) = parts[p].projection.expired /\ status(p) = parts[p].projection.status
      BY <2>2, Zenon DEF expired, status
    <3> QED BY <2>2, <3>1, Zenon
  <2> QED BY <2>1, <2>2
<1> QED BY <1>2, Zenon DEF attention, hasError

LEMMA SameCompleted ==
  (~\E p \in Parts : status(p) # "COMPLETED")
    <=> (\A p \in Parts : HasStatus(p, "COMPLETED"))
  BY DEF status, HasStatus, Statuses

LEMMA SameDraft ==
  (\E p \in Parts : parts[p].projection = Null \/ status(p) = "DRAFT")
    <=> (\E p \in Parts : HasStatus(p, "DRAFT") \/ parts[p].projection = Null)
  BY DEF status, HasStatus, Statuses

\* Nobody but r has r's id, so recipientIsCurrent() is about r.
LEMMA SameSigner ==
  ASSUME CategoryInv, NEW a \in Principals, NEW p \in Parts,
         parts[p].projection # Null, NEW r \in parts[p].projection.recipients
  PROVE  mine(a, p, r) <=> canSign(a, parts[p].projection, r)
<1> DEFINE q == parts[p].projection
<1>1. q \in Projection /\ UniqueIds(q) /\ now \in Nat
  BY DEF CategoryInv, TypeOK, Part, RowsSound
<1>2. r \in Recipient /\ (r.expiresAt = Null \/ r.expiresAt \in Nat)
  BY <1>1 DEF Projection, Recipient
<1>3. status(p) = q.status /\ recipients(p) = q.recipients /\ sequential(p) = q.sequential
  BY DEF status, recipients, sequential
<1>4. ~Expired(r) <=> (r.expiresAt = Null \/ r.expiresAt > now)
  BY <1>1, <1>2 DEF Expired
<1>5. recipientIsCurrent(q, r.id) <=>
        /\ q.status = "PENDING" /\ Blocks(r) /\ ~Expired(r)
        /\ q.sequential => \A s \in q.recipients : Blocks(s) => Order(r) <= Order(s)
  BY <1>1 DEF recipientIsCurrent, UniqueIds
<1>6. lowest(p, r) <=> \A s \in q.recipients : Blocks(s) => Order(r) <= Order(s)
  BY <1>3 DEF lowest
<1>7. ((r.actor = "owner" /\ Owner = a.agent) \/ (r.actor = "company" /\ a.admin))
        <=> ActsAs(a, r)
  BY DEF ActsAs
<1> HIDE DEF q
<1>8. mine(a, p, r) <=>
        /\ q.status = "PENDING" /\ Blocks(r) /\ ~Expired(r) /\ r.email \in a.emails
        /\ scenario = "custom" \/ ActsAs(a, r)
        /\ q.sequential => lowest(p, r)
  BY <1>3, <1>4, <1>7, Zenon DEF mine
<1>9. canSign(a, q, r) <=>
        /\ q.status = "PENDING" /\ Blocks(r) /\ ~Expired(r) /\ r.email \in a.emails
        /\ scenario = "custom" \/ ActsAs(a, r)
        /\ q.sequential => lowest(p, r)
  BY <1>5, <1>6, Zenon DEF canSign
<1> QED BY <1>8, <1>9, Zenon DEF q

LEMMA SameMine ==
  ASSUME CategoryInv, NEW a \in Principals
  PROVE  (\E p \in Parts : \E r \in recipients(p) : mine(a, p, r))
           <=> \E p \in Parts :
                 /\ parts[p].projection # Null
                 /\ \E r \in parts[p].projection.recipients :
                      canSign(a, parts[p].projection, r)
  BY SameSigner DEF recipients

LEMMA AgreeNow == CategoryInv => CategoriesAgree
<1> SUFFICES ASSUME CategoryInv, NEW a \in Principals
             PROVE  listCategory(a) = category(a)
  BY DEF CategoriesAgree
<1> QED BY SameAttention, SameCompleted, SameDraft, SameMine DEF listCategory, category

LEMMA OpensNow == CategoryInv => MineOpens
<1> SUFFICES ASSUME CategoryInv, NEW a \in Principals, request(a), category(a) = "mine",
                    scenario = "package" => a.admin \/ a.company,
                    \A p \in Parts : Fresh(p)
             PROVE  \E p \in Parts : \E r \in native[p].recipients : Granted(a, p, r)
  BY DEF MineOpens
<1>1. /\ ~hasError
      /\ \E p \in Parts :
           /\ parts[p].projection # Null
           /\ \E r \in parts[p].projection.recipients :
                canSign(a, parts[p].projection, r)
  BY DEF category
<1>2. PICK p \in Parts : /\ parts[p].projection # Null
                         /\ \E r \in parts[p].projection.recipients :
                              canSign(a, parts[p].projection, r)
  BY <1>1
<1>3. PICK r \in parts[p].projection.recipients : canSign(a, parts[p].projection, r)
  BY <1>2
<1> DEFINE q == parts[p].projection
           d == native[p]
<1>4. q.status = d.status /\ q.sequential = d.sequential /\ q.recipients = d.recipients
  BY <1>2 DEF Fresh
<1>5. parts[p].op = "linked"
  BY <1>1, <1>2 DEF hasError, CategoryInv, RowsSound
<1>6. /\ Project(d).status = q.status /\ Project(d).sequential = q.sequential
      /\ Project(d).recipients = q.recipients
  BY <1>4 DEF Project
<1>7. recipientIsCurrent(q, r.id) /\ recipientIsCurrent(Project(d), r.id)
  BY <1>3, <1>6 DEF canSign, recipientIsCurrent
<1>8. UniqueIds(q)
  BY <1>2 DEF CategoryInv, RowsSound
<1>9. q.status = "PENDING" /\ Blocks(r) /\ ~Expired(r)
  BY <1>7, <1>8 DEF recipientIsCurrent, UniqueIds
<1>10. r.email \in a.emails /\ (scenario # "custom" => ActsAs(a, r))
  BY <1>3 DEF canSign
<1> QED BY <1>4, <1>5, <1>7, <1>9, <1>10 DEF Granted
-----------------------------------------------------------------------------
\* Rows, documents and the clock keep their types.
THEOREM CategoryTyped == Spec => []TypeOK
<1>1. CategoryInv => TypeOK
  BY DEF CategoryInv
<1> QED BY <1>1, CategoryInvariant, PTL

\* The SQL of the list and detail() compute the same category of every request
\* for every principal, whatever projections, errors and NULLs its rows hold.
THEOREM ListMirrorsDetail == Spec => []CategoriesAgree
  BY AgreeNow, CategoryInvariant, PTL

\* A request shown as 'mine' has a recipient to whom access() gives a link.
THEOREM MineGivesLink == Spec => []MineOpens
  BY OpensNow, CategoryInvariant, PTL
=============================================================================
