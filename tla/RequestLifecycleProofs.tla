----------------------- MODULE RequestLifecycleProofs -----------------------
(***************************************************************************)
(* Theorems of RequestLifecycle, for every number of workers, parts and    *)
(* documents.                                                              *)
(***************************************************************************)
EXTENDS RequestLifecycle, TLAPS

\* Where a call has read the document of its part.
OnDocument == {"commit", "act", "sending", "distribute", "sendFailed",
               "sendUnknown", "sent", "delGet", "delPost", "discard",
               "cancelGet", "cancelPost", "get2", "commit2"}
OnFound == {"saveId", "saveFound", "hookLink"}

\* A call may stand at l with part p, row r, document f and sync status s.
Sound(l, p, r, f, s) ==
  /\ l # "scan" => p \in Parts
  /\ l \in OnDocument => r[p].pid \in Docs
  /\ l \in OnFound => f \in Docs
  /\ l \in {"commit", "commit2"} => s.status \in NativeStatuses

CallsSound ==
  \A w \in Workers : Sound(pc[w], cur[w], rows[w], found[w], seen[w])

DocsSound ==
  /\ \A d \in Docs : docs[d].status # "ABSENT" => docs[d].part \in Parts
  /\ \A d \in inbox : docs[d].status # "ABSENT"

\* The inductive strengthening of TypeOK.
TypeInv == TypeOK /\ CallsSound /\ DocsSound

USE PartCountAssumption, NoDocAssumption, NoWorkerAssumption
-----------------------------------------------------------------------------
(***************************************************************************)
(* What the helpers return.                                                *)
(***************************************************************************)
LEMMA OpType ==
  ASSUME NEW t \in [Parts -> PartRow], NEW p \in Parts, NEW x \in OperationStates
  PROVE  [t EXCEPT ![p].op = x] \in [Parts -> PartRow]
<1>1. [t[p] EXCEPT !.op = x] \in PartRow
  BY DEF PartRow
<1> QED BY <1>1

LEMMA DelType ==
  ASSUME NEW t \in [Parts -> PartRow], NEW p \in Parts, NEW x \in DeliveryStates
  PROVE  [t EXCEPT ![p].del = x] \in [Parts -> PartRow]
<1>1. [t[p] EXCEPT !.del = x] \in PartRow
  BY DEF PartRow
<1> QED BY <1>1

LEMMA PidType ==
  ASSUME NEW t \in [Parts -> PartRow], NEW p \in Parts, NEW d \in Docs
  PROVE  [t EXCEPT ![p].pid = d] \in [Parts -> PartRow]
<1>1. [t[p] EXCEPT !.pid = d] \in PartRow
  BY DEF PartRow
<1> QED BY <1>1

LEMMA LinkType ==
  ASSUME NEW t \in [Parts -> PartRow], NEW p \in Parts, NEW d \in Docs
  PROVE  /\ Link(t, p, d) \in [Parts -> PartRow]
         /\ Link(t, p, d)[p].pid = d
         /\ Link(t, p, d)[p].op = "linked"
         /\ \A q \in Parts \ {p} : Link(t, p, d)[q] = t[q]
<1>1. [t EXCEPT ![p].pid = d] \in [Parts -> PartRow]
  BY PidType
<1>2. "linked" \in OperationStates BY DEF OperationStates
<1>3. Link(t, p, d) \in [Parts -> PartRow]
  BY <1>1, <1>2, OpType DEF Link
<1>4. /\ Link(t, p, d)[p].pid = d
      /\ Link(t, p, d)[p].op = "linked"
      /\ \A q \in Parts \ {p} : Link(t, p, d)[q] = t[q]
  BY DEF Link, PartRow
<1> QED BY <1>3, <1>4

LEMMA StatusType ==
  ASSUME NEW D \in [Docs -> Document], NEW d \in Docs, NEW s \in DocStates
  PROVE  /\ [D EXCEPT ![d].status = s] \in [Docs -> Document]
         /\ \A e \in Docs : [D EXCEPT ![d].status = s][e].part = D[e].part
         /\ \A e \in Docs \ {d} : [D EXCEPT ![d].status = s][e] = D[e]
         /\ [D EXCEPT ![d].status = s][d].status = s
<1>1. [D[d] EXCEPT !.status = s] \in Document
  BY DEF Document
<1>2. /\ [D[d] EXCEPT !.status = s].part = D[d].part
      /\ [D[d] EXCEPT !.status = s].status = s
  BY DEF Document
<1> QED BY <1>1, <1>2

\* Moves of a call within the program.
LEMMA GotoType ==
  ASSUME TypeInv, NEW w \in Workers, NEW l \in Outside \union Held, Goto(w, l),
         Sound(l, cur[w], rows[w], found[w], seen[w])
  PROVE  CallsOK' /\ CallsSound'
<1>1. CallsOK'
  BY DEF TypeInv, TypeOK, CallsOK, Goto
<1>2. CallsSound'
  BY DEF TypeInv, TypeOK, CallsOK, CallsSound, Goto, Sound
<1> QED BY <1>1, <1>2

LEMMA ClearType ==
  ASSUME TypeInv, NEW w \in Workers, Clear(w), lease' \in {lease, NoWorker}
  PROVE  CallsOK' /\ CallsSound'
<1>0. /\ NotSeen \in Seen
      /\ NoRows \in [Parts -> PartRow]
      /\ "idle" \in Outside \union Held
      /\ 1 \in Parts
      /\ 1 \in 1..(PartCount + 1)
  BY DEF NotSeen, Seen, DocStates, Edits, NoRows, NewRow, PartRow, Outside, Parts,
         OperationStates, DeliveryStates
<1>1. CallsOK'
  BY <1>0 DEF TypeInv, TypeOK, CallsOK, Clear
<1>2. CallsSound'
  BY <1>0 DEF TypeInv, TypeOK, CallsOK, CallsSound, Clear, Sound, OnDocument, OnFound
<1> QED BY <1>1, <1>2

LEMMA LeaveType ==
  ASSUME TypeInv, NEW w \in Workers, Leave(w)
  PROVE  CallsOK' /\ CallsSound'
  BY ClearType DEF Leave

LEMMA NextPartType ==
  ASSUME TypeInv, NEW w \in Workers, cur[w] \in Parts, NextPart(w)
  PROVE  CallsOK' /\ CallsSound'
<1>0. NotSeen \in Seen /\ "scan" \in Held /\ cur[w] + 1 \in 1..(PartCount + 1)
  BY DEF NotSeen, Seen, DocStates, Edits, Held, Parts
<1>1. CallsOK'
  BY <1>0 DEF TypeInv, TypeOK, CallsOK, NextPart
<1>2. CallsSound'
  BY <1>0 DEF TypeInv, TypeOK, CallsOK, CallsSound, NextPart, Sound, OnDocument, OnFound
<1> QED BY <1>1, <1>2
-----------------------------------------------------------------------------
(***************************************************************************)
(* Type correctness, by groups of actions.                                 *)
(***************************************************************************)
\* Actions that only move their call.
LEMMA QuietType ==
  ASSUME TypeInv, UNCHANGED <<tables, native, ghosts>>, CallsOK' /\ CallsSound'
  PROVE  TypeInv'
  BY DEF TypeInv, TypeOK, TablesOK, NativeOK, GhostsOK, DocsSound, tables, native, ghosts

LEMMA SnapshotType ==
  ASSUME TypeInv, NEW w \in Workers, NEW k \in JobKinds, NEW p \in Parts,
         NEW d \in Docs \union {NoDoc}, Snapshot(w, k, p, d), UNCHANGED <<seen, lease>>
  PROVE  CallsOK' /\ CallsSound'
<1>1. CallsOK'
  BY DEF TypeInv, TypeOK, TablesOK, CallsOK, Snapshot, Outside, Parts
<1>2. CallsSound'
  BY DEF TypeInv, TypeOK, CallsOK, CallsSound, Snapshot, Sound, OnDocument, OnFound
<1> QED BY <1>1, <1>2

LEMMA StartingType ==
  ASSUME TypeInv, NEW w \in Workers, Starting(w)
  PROVE  TypeInv'
<1>1. ASSUME NEW k \in Jobs, Begin(w, k) PROVE TypeInv'
  <2>1. CallsOK'
    BY <1>1, JobsAssumption DEF TypeInv, TypeOK, CallsOK, Begin, Outside
  <2>2. CallsSound'
    BY <1>1 DEF TypeInv, TypeOK, CallsOK, CallsSound, Begin, Sound, OnDocument, OnFound
  <2> QED BY <1>1, <2>1, <2>2, QuietType DEF Begin, tables, native, ghosts
<1>2. ASSUME NEW p \in Parts, BeginRead(w, p) PROVE TypeInv'
  <2>1. CallsOK' /\ CallsSound'
    BY <1>2, SnapshotType DEF BeginRead, JobKinds
  <2> QED BY <1>2, <2>1, QuietType DEF BeginRead
<1>3. ASSUME NEW d \in Docs, BeginHook(w, d) PROVE TypeInv'
  <2>1. docs[d].part \in Parts
    BY <1>3 DEF BeginHook, TypeInv, DocsSound
  <2>2. CallsOK' /\ CallsSound'
    BY <1>3, <2>1, SnapshotType DEF BeginHook, JobKinds
  <2> QED BY <1>3, <2>2, QuietType DEF BeginHook
<1> QED BY <1>1, <1>2, <1>3 DEF Starting

LEMMA AcquireType ==
  ASSUME TypeInv, NEW w \in Workers, Acquire(w)
  PROVE  TypeInv'
<1>1. cur[w] \in Parts
  BY DEF Acquire, TypeInv, CallsSound, Sound
<1>3. CallsOK'
  BY DEF TypeInv, TypeOK, TablesOK, CallsOK, Acquire, Held
<1>4. CallsSound'
  BY <1>1 DEF TypeInv, TypeOK, CallsOK, CallsSound, Acquire, Sound, OnDocument, OnFound
<1> QED BY <1>3, <1>4, QuietType DEF Acquire

\* A call that throws, skips its part or goes on without touching anything.
LEMMA MovingType ==
  ASSUME TypeInv, NEW w \in Workers,
         \/ Busy(w) \/ Throw(w) \/ SkipPart(w) \/ StartSync(w)
         \/ StartRecover(w) \/ PostRefused(w) \/ HookGet(w) \/ ActNext(w)
         \/ ActRead(w) \/ ActSend(w) \/ ActDelete(w) \/ ActCancel(w)
         \/ DistributeRefused(w) \/ DeleteGet(w) \/ CancelGet(w)
  PROVE  TypeInv'
<1>0. /\ pc[w] # "scan" => cur[w] \in Parts
      /\ cur[w] <= PartCount => cur[w] \in Parts
      /\ pc[w] \in OnDocument => Row(w).pid \in Docs
      /\ pc[w] \in OnFound => found[w] \in Docs
  BY DEF TypeInv, TypeOK, CallsOK, CallsSound, Sound, Row, Parts
<1> DEFINE Fits(l) == Sound(l, cur[w], rows[w], found[w], seen[w])
<1>1. CASE Busy(w)
  BY <1>1, ClearType, QuietType DEF Busy
<1>2. CASE Throw(w) \/ SkipPart(w) \/ ActNext(w)
  <2>1. NextPart(w) \/ Leave(w)
    BY <1>2 DEF Throw, SkipPart, ActNext, Raise
  <2>2. cur[w] \in Parts
    BY <1>0, <1>2 DEF Throw, SkipPart, ActNext, Scanning, Acting
  <2>3. CallsOK' /\ CallsSound'
    BY <2>1, <2>2, NextPartType, LeaveType
  <2> QED BY <1>2, <2>3, QuietType DEF Throw, SkipPart, ActNext
<1>3. CASE ActRead(w)
  BY <1>3, LeaveType, QuietType DEF ActRead
<1>4. CASE StartSync(w) \/ StartRecover(w)
  <2>1. PICK l \in {"get", "recover"} : Goto(w, l)
    BY <1>4 DEF StartSync, StartRecover
  <2>2. Fits(l) /\ l \in Held
    BY <1>0, <1>4 DEF StartSync, StartRecover, Scanning, Sound, OnDocument, OnFound, Held
  <2>3. CallsOK' /\ CallsSound'
    BY <2>1, <2>2, GotoType
  <2> QED BY <1>4, <2>3, QuietType DEF StartSync, StartRecover
<1>5. CASE PostRefused(w) \/ HookGet(w)
  <2>1. PICK l \in {"saveFailed", "hookLink"} :
          Goto(w, l) /\ (l = "hookLink" => found[w] \in Docs)
    BY <1>5 DEF PostRefused, HookGet, Live
  <2>2. Fits(l) /\ l \in Held
    BY <1>0, <1>5, <2>1 DEF PostRefused, HookGet, Sound, OnDocument, OnFound, Held
  <2>3. CallsOK' /\ CallsSound'
    BY <2>1, <2>2, GotoType
  <2> QED BY <1>5, <2>3, QuietType DEF PostRefused, HookGet
<1>6. CASE \/ ActSend(w) \/ ActDelete(w) \/ ActCancel(w)
           \/ DistributeRefused(w) \/ DeleteGet(w) \/ CancelGet(w)
  <2>1. PICK l \in {"sending", "delGet", "cancelGet", "get2", "sendFailed",
                    "delPost", "cancelPost"} : Goto(w, l)
    BY <1>6 DEF ActSend, ActDelete, ActCancel, DistributeRefused, DeleteGet, CancelGet
  <2>2. pc[w] # "scan" /\ pc[w] \in OnDocument
    BY <1>6 DEF ActSend, ActDelete, ActCancel, DistributeRefused, DeleteGet, CancelGet,
       Acting, OnDocument
  <2>3. Fits(l) /\ l \in Held
    BY <1>0, <2>2 DEF Sound, OnDocument, OnFound, Held, Row
  <2>4. CallsOK' /\ CallsSound'
    BY <2>1, <2>3, GotoType
  <2> QED BY <1>6, <2>4, QuietType DEF ActSend, ActDelete, ActCancel, DistributeRefused,
          DeleteGet, CancelGet
<1> QED BY <1>1, <1>2, <1>3, <1>4, <1>5, <1>6

LEMMA RecoverType ==
  ASSUME TypeInv, NEW w \in Workers, NEW d \in Docs, Recover(w, d)
  PROVE  TypeInv'
<1>1. CallsOK'
  BY DEF TypeInv, TypeOK, CallsOK, Recover, Hold, Held
<1>2. CallsSound'
  BY DEF TypeInv, TypeOK, CallsOK, CallsSound, Recover, Hold, Sound, OnDocument, OnFound
<1> QED BY <1>1, <1>2, QuietType DEF Recover

LEMMA GetType ==
  ASSUME TypeInv, NEW w \in Workers,
         Get(w, "get", "commit") \/ Get(w, "get2", "commit2")
  PROVE  TypeInv'
<1> DEFINE new == [status |-> docs[Row(w).pid].status, edit |-> docs[Row(w).pid].edit]
<1>0. PICK l \in {"commit", "commit2"} :
        /\ pc[w] # "scan" /\ pc' = [pc EXCEPT ![w] = l]
        /\ seen' = [seen EXCEPT ![w] = new]
        /\ Live(Row(w).pid)
        /\ UNCHANGED <<tables, native, lease, job, cur, rows, found, ghosts>>
  BY DEF Get
<1>1. /\ new \in Seen /\ new.status \in NativeStatuses
      /\ cur[w] \in Parts /\ rows[w][cur[w]].pid \in Docs
  BY <1>0 DEF Live, TypeInv, TypeOK, NativeOK, Document, Seen, CallsSound, Sound, Row
<1>2. CallsOK'
  BY <1>0, <1>1 DEF TypeInv, TypeOK, CallsOK, Held
<1>3. CallsSound'
  BY <1>0, <1>1 DEF TypeInv, TypeOK, CallsOK, CallsSound, Sound, OnFound
<1> QED BY <1>0, <1>2, <1>3, QuietType

\* Actions that write rows of the database.
LEMMA TablesType ==
  ASSUME TypeInv, UNCHANGED <<native, ghosts>>, CallsOK' /\ CallsSound',
         db' \in [Parts -> PartRow], uploads' \subseteq uploads,
         announced' \subseteq Parts \X NativeStatuses, inbox' \subseteq inbox
  PROVE  TypeInv'
  BY DEF TypeInv, TypeOK, TablesOK, NativeOK, GhostsOK, DocsSound, native, ghosts

LEMMA AdoptType ==
  ASSUME TypeInv, NEW w \in Workers, cur[w] \in Parts, found[w] \in Docs, Adopt(w)
  PROVE  CallsOK' /\ CallsSound'
<1>1. Link(rows[w], cur[w], found[w]) \in [Parts -> PartRow]
  BY LinkType DEF TypeInv, TypeOK, CallsOK
<1>2. CallsOK'
  BY <1>1 DEF TypeInv, TypeOK, CallsOK, Adopt, Held
<1>3. CallsSound'
  BY DEF TypeInv, TypeOK, CallsOK, CallsSound, Adopt, Sound, OnDocument, OnFound
<1> QED BY <1>2, <1>3

LEMMA CreatingType ==
  ASSUME TypeInv, NEW w \in Workers,
         \/ MarkCreating(w) \/ DiscardLocal(w) \/ SaveId(w) \/ SaveFailure(w)
         \/ SaveFound(w) \/ HookLink(w) \/ Purge(w)
  PROVE  TypeInv'
<1>0. /\ db \in [Parts -> PartRow] /\ uploads \subseteq Parts
      /\ announced \subseteq Parts \X NativeStatuses
      /\ pc[w] # "scan" => cur[w] \in Parts
      /\ cur[w] <= PartCount => cur[w] \in Parts
      /\ pc[w] \in OnFound => found[w] \in Docs
      /\ rows[w] \in [Parts -> PartRow]
  BY DEF TypeInv, TypeOK, TablesOK, CallsOK, CallsSound, Sound, Parts
<1>1. CASE MarkCreating(w) \/ DiscardLocal(w)
  <2>1. PICK x \in {"creating", "discarded"}, l \in {"post", "purge"} :
          /\ cur[w] \in Parts /\ Goto(w, l)
          /\ db' \in {db, [db EXCEPT ![cur[w]].op = x]}
    BY <1>0, <1>1 DEF MarkCreating, DiscardLocal, Scanning
  <2>2. db' \in [Parts -> PartRow]
    <3>1. x \in OperationStates
      BY DEF OperationStates
    <3>2. [db EXCEPT ![cur[w]].op = x] \in [Parts -> PartRow]
      BY <1>0, <2>1, <3>1, OpType
    <3> QED BY <1>0, <2>1, <3>2
  <2>3. CallsOK' /\ CallsSound'
    BY <2>1, GotoType DEF Held, Sound, OnDocument, OnFound
  <2> QED BY <1>0, <1>1, <2>2, <2>3, TablesType DEF MarkCreating, DiscardLocal
<1>2. CASE SaveId(w)
  <2>1. cur[w] \in Parts /\ found[w] \in Docs
    BY <1>0, <1>2 DEF SaveId, OnFound
  <2>2. db' \in [Parts -> PartRow]
    BY <1>0, <1>2, <2>1, LinkType DEF SaveId
  <2>3. CASE Adopt(w)
    BY <1>0, <1>2, <2>1, <2>2, <2>3, AdoptType, TablesType DEF SaveId
  <2>4. CASE Goto(w, "saveUnknown")
    <3>1. CallsOK' /\ CallsSound'
      BY <2>1, <2>4, GotoType DEF Held, Sound, OnDocument, OnFound
    <3> QED BY <1>0, <1>2, <2>2, <3>1, TablesType DEF SaveId
  <2> QED BY <1>2, <2>3, <2>4 DEF SaveId
<1>3. CASE SaveFailure(w)
  <2>1. cur[w] \in Parts
    BY <1>0, <1>3 DEF SaveFailure
  <2>2. db' \in [Parts -> PartRow]
    BY <1>0, <1>3, <2>1, OpType DEF SaveFailure, OperationStates
  <2> QED BY <1>0, <1>3, <2>1, <2>2, NextPartType, TablesType DEF SaveFailure
<1>4. CASE SaveFound(w)
  <2>1. cur[w] \in Parts /\ found[w] \in Docs
    BY <1>0, <1>4 DEF SaveFound, OnFound
  <2>2. db' \in [Parts -> PartRow]
    BY <1>0, <1>4, <2>1, LinkType DEF SaveFound
  <2> QED BY <1>0, <1>4, <2>1, <2>2, AdoptType, TablesType DEF SaveFound
<1>5. CASE HookLink(w)
  <2>1. cur[w] \in Parts /\ found[w] \in Docs
    BY <1>0, <1>5 DEF HookLink, OnFound
  <2>2. db' \in [Parts -> PartRow]
    BY <1>0, <1>5, <2>1, LinkType DEF HookLink
  <2>3. [rows[w] EXCEPT ![cur[w]].pid = found[w]] \in [Parts -> PartRow]
    BY <1>0, <2>1, PidType
  <2>4. rows' = [rows EXCEPT ![w] = [rows[w] EXCEPT ![cur[w]].pid = found[w]]]
    BY <1>5 DEF HookLink
  <2>5. CallsOK'
    BY <1>5, <2>3, <2>4 DEF HookLink, TypeInv, TypeOK, CallsOK, Held
  <2>6. CallsSound'
    BY <1>5, <2>1, <2>4 DEF HookLink, TypeInv, TypeOK, CallsOK, CallsSound, Sound, OnDocument,
       OnFound
  <2> QED BY <1>0, <1>5, <2>2, <2>5, <2>6, TablesType DEF HookLink
<1>6. CASE Purge(w)
  BY <1>0, <1>6, NextPartType, TablesType DEF Purge
<1> QED BY <1>1, <1>2, <1>3, <1>4, <1>5, <1>6

LEMMA CommitType ==
  ASSUME TypeInv, NEW w \in Workers, Commit(w, "commit") \/ Commit(w, "commit2")
  PROVE  TypeInv'
<1> DEFINE p == cur[w]
           s == seen[w].status
           sent == IF s # "DRAFT" THEN "sent" ELSE db[p].del
<1>0. PICK from \in {"commit", "commit2"} : Commit(w, from)
  OBVIOUS
<1>1. /\ p \in Parts /\ s \in NativeStatuses /\ rows[w][p].pid \in Docs
      /\ db \in [Parts -> PartRow] /\ db[p].del \in DeliveryStates
      /\ pc[w] = from
  BY <1>0 DEF Commit, TypeInv, TypeOK, TablesOK, CallsSound, Sound, PartRow, OnDocument
<1>2. db' = [db EXCEPT ![p] = [@ EXCEPT !.op = "linked", !.proj = s, !.del = sent]]
  BY <1>0 DEF Commit
<1>3. [db[p] EXCEPT !.op = "linked", !.proj = s, !.del = sent] \in PartRow
  BY <1>1 DEF PartRow, OperationStates, DeliveryStates
<1>4. db' \in [Parts -> PartRow]
  BY <1>1, <1>2, <1>3
<1>5. announced' \subseteq Parts \X NativeStatuses
  BY <1>0, <1>1 DEF Commit, TypeInv, TypeOK, TablesOK
<1>6. CallsOK' /\ CallsSound'
  <2>1. CASE from = "commit"
    <3>1. Goto(w, "act")
      BY <1>0, <2>1 DEF Commit
    <3> QED BY <1>1, <3>1, GotoType DEF Held, Sound, OnDocument, OnFound
  <2>2. CASE from = "commit2"
    BY <1>0, <1>1, <2>2, NextPartType DEF Commit
  <2> QED BY <2>1, <2>2
<1> QED BY <1>0, <1>4, <1>5, <1>6, TablesType DEF Commit

LEMMA MarkingType ==
  ASSUME TypeInv, NEW w \in Workers,
         \/ ActHook(w) \/ MarkSending(w) \/ SaveSendFailure(w) \/ MarkSent(w)
         \/ Discard(w)
  PROVE  TypeInv'
<1>0. /\ db \in [Parts -> PartRow] /\ uploads \subseteq Parts
      /\ announced \subseteq Parts \X NativeStatuses
      /\ pc[w] # "scan" => cur[w] \in Parts
      /\ pc[w] \in OnDocument => rows[w][cur[w]].pid \in Docs
  BY DEF TypeInv, TypeOK, TablesOK, CallsOK, CallsSound, Sound
<1>1. CASE ActHook(w)
  BY <1>0, <1>1, LeaveType, TablesType DEF ActHook
<1>2. CASE MarkSending(w) \/ MarkSent(w)
  <2>1. PICK x \in {"sending", "sent"}, l \in {"distribute", "get2"} :
          Goto(w, l) /\ db' = [db EXCEPT ![cur[w]].del = x]
    BY <1>2 DEF MarkSending, MarkSent
  <2>2. cur[w] \in Parts /\ pc[w] \in OnDocument
    BY <1>0, <1>2 DEF MarkSending, MarkSent, OnDocument
  <2>3. db' \in [Parts -> PartRow]
    BY <1>0, <2>1, <2>2, DelType DEF DeliveryStates
  <2>4. CallsOK' /\ CallsSound'
    BY <1>0, <2>1, <2>2, GotoType DEF Held, Sound, OnDocument, OnFound
  <2> QED BY <1>0, <1>2, <2>3, <2>4, TablesType DEF MarkSending, MarkSent
<1>3. CASE SaveSendFailure(w)
  <2>1. cur[w] \in Parts
    BY <1>0, <1>3 DEF SaveSendFailure
  <2>2. db' \in [Parts -> PartRow]
    BY <1>0, <1>3, <2>1, DelType DEF SaveSendFailure, DeliveryStates
  <2> QED BY <1>0, <1>3, <2>2, LeaveType, TablesType DEF SaveSendFailure
<1>4. CASE Discard(w)
  <2>1. cur[w] \in Parts
    BY <1>0, <1>4 DEF Discard
  <2>2. db' \in [Parts -> PartRow]
    BY <1>0, <1>4, <2>1, OpType DEF Discard, OperationStates
  <2>3. CallsOK' /\ CallsSound'
    <3>1. CASE Goto(w, "purge")
      BY <2>1, <3>1, GotoType DEF Held, Sound, OnDocument, OnFound
    <3>2. CASE NextPart(w)
      BY <2>1, <3>2, NextPartType
    <3> QED BY <1>4, <3>1, <3>2 DEF Discard
  <2> QED BY <1>0, <1>4, <2>2, <2>3, TablesType DEF Discard
<1> QED BY <1>1, <1>2, <1>3, <1>4

\* Actions that reach Documenso.
LEMMA NewDocumentType ==
  ASSUME TypeInv, NEW d \in Docs, NEW p \in Parts, NewDocument(d, p)
  PROVE  docs' \in [Docs -> Document] /\ (UNCHANGED inbox => DocsSound')
<1>1. [part |-> p, status |-> "DRAFT", edit |-> "none"] \in Document
  BY DEF Document, DocStates, NativeStatuses, Edits
<1>2. docs' \in [Docs -> Document]
  BY <1>1 DEF NewDocument, TypeInv, TypeOK, NativeOK
<1>3. ASSUME UNCHANGED inbox PROVE DocsSound'
  BY <1>3 DEF NewDocument, TypeInv, TypeOK, NativeOK, TablesOK, DocsSound
<1> QED BY <1>2, <1>3

LEMMA SetStatusType ==
  ASSUME TypeInv, NEW d \in Docs, NEW s \in DocStates,
         (s = "ABSENT") <=> (docs[d].status = "ABSENT"), SetStatus(d, s)
  PROVE  docs' \in [Docs -> Document] /\ (UNCHANGED inbox => DocsSound')
<1>1. docs \in [Docs -> Document] /\ inbox \subseteq Docs
  BY DEF TypeInv, TypeOK, NativeOK, TablesOK
<1>2. docs' = [docs EXCEPT ![d].status = s]
  BY DEF SetStatus
<1>3. docs' \in [Docs -> Document]
  BY <1>1, <1>2, StatusType
<1>4. \A e \in Docs : docs'[e].part = docs[e].part /\ (docs'[e].status = docs[e].status \/ e = d)
  BY <1>1, <1>2, StatusType
<1>5. docs'[d].status = s
  BY <1>1, <1>2, StatusType
<1>6. ASSUME UNCHANGED inbox PROVE DocsSound'
  BY <1>1, <1>4, <1>5, <1>6 DEF TypeInv, DocsSound
<1> QED BY <1>3, <1>6

LEMMA NativeType ==
  ASSUME TypeInv, UNCHANGED tables, CallsOK' /\ CallsSound', GhostsOK',
         docs' \in [Docs -> Document], DocsSound', lateCreate' \subseteq Parts,
         lateDoc' \subseteq {"distribute", "delPost", "cancelPost"} \X Docs
  PROVE  TypeInv'
  BY DEF TypeInv, TypeOK, TablesOK, NativeOK, tables

LEMMA PostingType ==
  ASSUME TypeInv, NEW w \in Workers,
         \/ \E d \in Docs : PostAccepted(w, d)
         \/ PostUncertain(w)
  PROVE  TypeInv'
<1>0. /\ lateCreate \subseteq Parts /\ docs \in [Docs -> Document]
      /\ lateDoc \subseteq {"distribute", "delPost", "cancelPost"} \X Docs
      /\ GhostsOK /\ DocsSound
      /\ pc[w] # "scan" => cur[w] \in Parts
  BY DEF TypeInv, TypeOK, NativeOK, CallsSound, Sound
<1>1. ASSUME NEW d \in Docs, PostAccepted(w, d) PROVE TypeInv'
  <2>1. cur[w] \in Parts
    BY <1>0, <1>1 DEF PostAccepted
  <2>2. docs' \in [Docs -> Document] /\ DocsSound'
    BY <1>1, <2>1, NewDocumentType DEF PostAccepted, tables
  <2>3. CallsOK'
    BY <1>1 DEF PostAccepted, Hold, TypeInv, TypeOK, CallsOK, Held
  <2>4. CallsSound'
    BY <1>1, <2>1 DEF PostAccepted, Hold, TypeInv, TypeOK, CallsOK, CallsSound, Sound,
       OnDocument, OnFound
  <2>5. GhostsOK'
    BY <1>0, <1>1 DEF PostAccepted, ghosts, GhostsOK
  <2> QED BY <1>0, <1>1, <2>2, <2>3, <2>4, <2>5, NativeType DEF PostAccepted
<1>2. CASE PostUncertain(w)
  <2>1. cur[w] \in Parts
    BY <1>0, <1>2 DEF PostUncertain
  <2>2. CallsOK' /\ CallsSound'
    BY <1>2, <2>1, GotoType DEF PostUncertain, Held, Sound, OnDocument, OnFound
  <2>3. GhostsOK' /\ DocsSound'
    BY <1>0, <1>2 DEF PostUncertain, ghosts, GhostsOK, DocsSound, tables
  <2> QED BY <1>0, <1>2, <2>1, <2>2, <2>3, NativeType DEF PostUncertain
<1> QED BY <1>1, <1>2

LEMMA SendingType ==
  ASSUME TypeInv, NEW w \in Workers,
         \/ DistributeAccepted(w) \/ DistributeUncertain(w) \/ DeleteAccepted(w)
         \/ CancelAccepted(w) \/ DeleteOrCancelFails(w)
  PROVE  TypeInv'
<1>0. /\ lateCreate \subseteq Parts /\ docs \in [Docs -> Document]
      /\ lateDoc \subseteq {"distribute", "delPost", "cancelPost"} \X Docs
      /\ GhostsOK /\ DocsSound
      /\ pc[w] \in {"distribute", "delPost", "cancelPost"}
      /\ cur[w] \in Parts /\ Row(w).pid \in Docs
      /\ rows[w][cur[w]].pid \in Docs
  BY DEF TypeInv, TypeOK, NativeOK, CallsSound, Sound, Row, OnDocument, DistributeAccepted,
     DistributeUncertain, DeleteAccepted, CancelAccepted, DeleteOrCancelFails
<1>1. posted' \in {posted, [posted EXCEPT ![cur[w]] = @ + 1]} /\ UNCHANGED reviewed
  BY DEF DistributeAccepted, DistributeUncertain, DeleteAccepted, CancelAccepted,
     DeleteOrCancelFails, ghosts
<1>2. GhostsOK'
  BY <1>0, <1>1 DEF GhostsOK
<1>3. CASE DistributeAccepted(w) \/ DeleteAccepted(w) \/ CancelAccepted(w)
  <2>1. PICK s \in {"PENDING", "DELETED", "CANCELLED"},
             l \in {"sent", "discard", "get2"} :
          SetStatus(Row(w).pid, s) /\ Goto(w, l) /\ docs[Row(w).pid].status # "ABSENT"
    BY <1>3 DEF DistributeAccepted, DeleteAccepted, CancelAccepted, Live, NativeStatuses
  <2>2. UNCHANGED <<tables, lateCreate, lateDoc>>
    BY <1>3 DEF DistributeAccepted, DeleteAccepted, CancelAccepted
  <2>3. s \in DocStates
    BY DEF DocStates, NativeStatuses
  <2>4. docs' \in [Docs -> Document] /\ DocsSound'
    BY <1>0, <2>1, <2>2, <2>3, SetStatusType DEF tables
  <2>5. CallsOK' /\ CallsSound'
    BY <1>0, <2>1, GotoType DEF Held, Sound, OnDocument, OnFound
  <2> QED BY <1>0, <1>2, <2>2, <2>4, <2>5, NativeType
<1>4. CASE DistributeUncertain(w) \/ DeleteOrCancelFails(w)
  <2>1. /\ lateDoc' \in {lateDoc, lateDoc \union {<<pc[w], Row(w).pid>>}}
        /\ UNCHANGED <<tables, docs, lateCreate>>
        /\ Leave(w) \/ Goto(w, "sendUnknown")
    BY <1>4 DEF DistributeUncertain, DeleteOrCancelFails
  <2>2. lateDoc' \subseteq {"distribute", "delPost", "cancelPost"} \X Docs
    BY <1>0, <2>1
  <2>3. CallsOK' /\ CallsSound'
    BY <1>0, <2>1, GotoType, LeaveType DEF Held, Sound, OnDocument, OnFound
  <2>4. DocsSound'
    BY <1>0, <2>1 DEF DocsSound, tables
  <2> QED BY <1>0, <1>2, <2>1, <2>2, <2>3, <2>4, NativeType
<1> QED BY <1>3, <1>4

LEMMA CrashType ==
  ASSUME TypeInv, NEW w \in Workers, Crash(w)
  PROVE  TypeInv'
<1>0. /\ lateCreate \subseteq Parts /\ docs \in [Docs -> Document]
      /\ lateDoc \subseteq {"distribute", "delPost", "cancelPost"} \X Docs
      /\ GhostsOK /\ DocsSound
      /\ pc[w] # "scan" => cur[w] \in Parts
      /\ pc[w] \in OnDocument => Row(w).pid \in Docs
  BY DEF TypeInv, TypeOK, NativeOK, CallsSound, Sound, Row
<1>1. CallsOK' /\ CallsSound'
  BY LeaveType DEF Crash
<1>2. lateCreate' \subseteq Parts
  BY <1>0 DEF Crash
<1>3. lateDoc' \subseteq {"distribute", "delPost", "cancelPost"} \X Docs
  BY <1>0 DEF Crash, OnTheWire, OnDocument
<1>4. GhostsOK'
  BY <1>0 DEF Crash, GhostsOK
<1>5. DocsSound'
  BY <1>0 DEF Crash, DocsSound, tables
<1> QED BY <1>0, <1>1, <1>2, <1>3, <1>4, <1>5, NativeType DEF Crash

LEMMA ReturnType ==
  ASSUME TypeInv, NEW w \in Workers, Return(w)
  PROVE  TypeInv'
<1>1. CallsOK' /\ CallsSound'
  BY LeaveType DEF Return
<1>2. Hash(w) \in [Parts -> Docs \union {NoDoc}]
  BY DEF Hash, TypeInv, TypeOK, CallsOK, PartRow
<1>3. GhostsOK'
  BY <1>2 DEF Return, TypeInv, TypeOK, GhostsOK
<1> QED BY <1>1, <1>3 DEF Return, TypeInv, TypeOK, TablesOK, NativeOK, DocsSound, tables, native

LEMMA EnvironmentType ==
  ASSUME TypeInv, Environment
  PROVE  TypeInv'
<1>0. /\ lateCreate \subseteq Parts /\ docs \in [Docs -> Document]
      /\ lateDoc \subseteq {"distribute", "delPost", "cancelPost"} \X Docs
      /\ GhostsOK /\ DocsSound /\ CallsOK /\ CallsSound
  BY DEF TypeInv, TypeOK, NativeOK
<1>1. UNCHANGED <<lease, calls, ghosts>>
  BY DEF Environment, LateCreateLost, LateCreateArrives, LateArrives, ReceiveWebhook,
     IgnoreHook, NativeMove, NativeDuplicate
<1>2. CallsOK' /\ CallsSound' /\ GhostsOK'
  BY <1>0, <1>1 DEF CallsOK, CallsSound, GhostsOK, calls, ghosts
<1>3. ASSUME NEW p \in lateCreate, LateCreateLost(p) PROVE TypeInv'
  <2>1. DocsSound'
    BY <1>0, <1>3 DEF LateCreateLost, DocsSound, tables
  <2> QED BY <1>0, <1>2, <1>3, <2>1, NativeType DEF LateCreateLost
<1>4. ASSUME NEW p \in lateCreate, NEW d \in Docs, LateCreateArrives(p, d) PROVE TypeInv'
  <2>1. docs' \in [Docs -> Document] /\ DocsSound'
    BY <1>0, <1>4, NewDocumentType DEF LateCreateArrives, tables
  <2> QED BY <1>0, <1>2, <1>4, <2>1, NativeType DEF LateCreateArrives
<1>5. ASSUME NEW m \in lateDoc, LateArrives(m) PROVE TypeInv'
  <2>1. m[2] \in Docs
    BY <1>0
  <2>2. /\ Effect(m[1], m[2]) \in DocStates
        /\ (Effect(m[1], m[2]) = "ABSENT") <=> (docs[m[2]].status = "ABSENT")
    BY <1>0, <2>1 DEF Effect, Document, DocStates, NativeStatuses, Live
  <2>3. docs' \in [Docs -> Document] /\ DocsSound'
    BY <1>0, <1>5, <2>1, <2>2, SetStatusType DEF LateArrives, DocsSound, tables
  <2> QED BY <1>0, <1>2, <1>5, <2>3, NativeType DEF LateArrives
<1>6. ASSUME NEW d \in Docs, ReceiveWebhook(d) \/ IgnoreHook(d) PROVE TypeInv'
  <2>1. /\ inbox' \subseteq Docs
        /\ \A e \in inbox' : docs[e].status # "ABSENT"
    BY <1>6 DEF ReceiveWebhook, IgnoreHook, Stored, TypeInv, TypeOK, TablesOK, DocsSound
  <2> QED BY <1>2, <1>6, <2>1 DEF ReceiveWebhook, IgnoreHook, TypeInv, TypeOK, TablesOK,
          NativeOK, DocsSound, native
<1>7. ASSUME NEW d \in Docs, NativeMove(d) PROVE TypeInv'
  <2>1. CASE \E k \in Moves, from \in NativeStatuses, to \in {"COMPLETED", "REJECTED",
               "CANCELLED", "PENDING", "DELETED"} : Moved(d, k, from, to)
    <3>1. PICK to \in DocStates \ {"ABSENT"} :
            SetStatus(d, to) /\ docs[d].status # "ABSENT"
      BY <2>1 DEF Moved, DocStates, NativeStatuses
    <3>2. docs' \in [Docs -> Document] /\ DocsSound'
      BY <1>7, <3>1, SetStatusType DEF NativeMove, tables
    <3> QED BY <1>0, <1>2, <1>7, <3>2, NativeType DEF NativeMove
  <2>2. CASE \E k \in Moves, e \in Edits : Edited(d, k, e)
    <3>1. PICK e \in Edits : docs' = [docs EXCEPT ![d].edit = e]
      BY <2>2 DEF Edited
    <3>2. [docs[d] EXCEPT !.edit = e] \in Document
      BY <1>0 DEF Document
    <3>3. docs' \in [Docs -> Document]
      BY <1>0, <3>1, <3>2
    <3>4. \A x \in Docs : docs'[x].part = docs[x].part /\ docs'[x].status = docs[x].status
      BY <1>0, <3>1 DEF Document
    <3>5. inbox \subseteq Docs /\ inbox' = inbox
      BY <1>7 DEF NativeMove, tables, TypeInv, TypeOK, TablesOK
    <3>6. DocsSound'
      BY <1>0, <3>4, <3>5 DEF DocsSound
    <3> QED BY <1>0, <1>2, <1>7, <3>3, <3>6, NativeType DEF NativeMove
  <2> QED BY <1>7, <2>1, <2>2 DEF NativeMove, Moved, Edited, NativeStatuses, Edits
<1>8. ASSUME NEW d \in Docs, NEW e \in Docs, NativeDuplicate(d, e) PROVE TypeInv'
  <2>1. docs[d].part \in Parts
    BY <1>0, <1>8 DEF NativeDuplicate, Live, DocsSound, NativeStatuses
  <2>2. docs' \in [Docs -> Document] /\ DocsSound'
    BY <1>8, <2>1, NewDocumentType DEF NativeDuplicate, tables
  <2> QED BY <1>0, <1>2, <1>8, <2>2, NativeType DEF NativeDuplicate
<1> QED BY <1>3, <1>4, <1>5, <1>6, <1>7, <1>8 DEF Environment

LEMMA StepType ==
  ASSUME TypeInv, NEW w \in Workers, Step(w)
  PROVE  TypeInv'
<1>1. CASE Acquire(w) \/ Busy(w) \/ Throw(w)
  BY <1>1, AcquireType, MovingType
<1>2. CASE Walking(w)
  BY <1>2, ReturnType, MovingType, CreatingType DEF Walking
<1>3. CASE Creating(w)
  BY <1>3, CreatingType, MovingType, RecoverType, PostingType DEF Creating
<1>4. CASE Syncing(w)
  BY <1>4, GetType, CommitType DEF Syncing
<1>5. CASE Commanding(w)
  BY <1>5, MovingType, MarkingType, SendingType DEF Commanding
<1> QED BY <1>1, <1>2, <1>3, <1>4, <1>5 DEF Step

LEMMA NextType == TypeInv /\ [Next]_vars => TypeInv'
<1> SUFFICES ASSUME TypeInv, [Next]_vars PROVE TypeInv'
  OBVIOUS
<1>1. CASE Next
  BY <1>1, StartingType, StepType, CrashType, EnvironmentType DEF Next
<1>2. CASE UNCHANGED vars
  BY <1>2 DEF vars, TypeInv, TypeOK, TablesOK, NativeOK, CallsOK, GhostsOK, CallsSound, DocsSound
<1> QED BY <1>1, <1>2

LEMMA InitType == Init => TypeInv
<1> SUFFICES ASSUME Init PROVE TypeInv
  OBVIOUS
<1>1. NewRow \in PartRow /\ NoRows \in [Parts -> PartRow] /\ NotSeen \in Seen /\ Absent \in Document
  BY DEF NewRow, NoRows, NotSeen, Absent, PartRow, Document, Seen, OperationStates,
     DeliveryStates, DocStates, Edits, NativeStatuses
<1>2. TypeOK
  BY <1>1 DEF Init, TypeOK, TablesOK, NativeOK, CallsOK, GhostsOK, Outside, Parts
<1>3. CallsSound /\ DocsSound
  BY DEF Init, CallsSound, DocsSound, Sound, OnDocument, OnFound, Absent, Parts
<1> QED BY <1>2, <1>3 DEF TypeInv

\* Type correctness: the rows, the documents and every call's own variables keep
\* the values the code gives them, for any number of calls, parts and documents.
THEOREM TypeCorrect == Spec => []TypeOK
<1>1. Spec => []TypeInv
  BY InitType, NextType, PTL DEF Spec
<1> QED BY <1>1, PTL DEF TypeInv
-----------------------------------------------------------------------------
(***************************************************************************)
(* A part never gets two documents.  The invariant says why a POST finds   *)
(* no document and no other POST of its part: the call that sends it holds *)
(* the lease, and the row it read as 'prepared' is still the row stored.   *)
(***************************************************************************)
Exclusive == \A w \in Workers : pc[w] \in Held => lease = w

Fresh(p) == p \notin lateCreate /\ \A d \in Docs : docs[d].part # p

\* The parts a processRequest has not come to yet.
Ahead(w, p) == p > cur[w] \/ (p = cur[w] /\ pc[w] = "scan")

RowsCurrent ==
  \A w \in Workers, p \in Parts :
    pc[w] \in Held /\ job[w] = "process" /\ Ahead(w, p) /\ rows[w][p].op = "prepared"
      => db[p].op = "prepared"

PreparedFresh == \A p \in Parts : db[p].op = "prepared" => Fresh(p)
LateFresh == \A p \in lateCreate : \A d \in Docs : docs[d].part # p
PostFresh ==
  \A w \in Workers : pc[w] = "post" => Fresh(cur[w]) /\ db[cur[w]].op # "prepared"

OnceInv ==
  /\ TypeInv
  /\ Exclusive /\ RowsCurrent /\ PreparedFresh /\ LateFresh /\ PostFresh
  /\ AtMostOneDocument

\* What every step of a call that holds the lease does to the calls.
Own(w) ==
  /\ pc[w] \in Held
  /\ \A v \in Workers \ {w} : /\ pc'[v] = pc[v] /\ job'[v] = job[v]
                              /\ cur'[v] = cur[v] /\ rows'[v] = rows[v]
  /\ pc'[w] \in Held =>
       /\ lease' = lease /\ job'[w] = job[w]
       /\ \A p \in Parts \ {cur[w]} : rows'[w][p] = rows[w][p]
       /\ \/ cur'[w] = cur[w] /\ pc'[w] # "scan"
          \/ cur'[w] = cur[w] + 1 /\ pc'[w] = "scan"

\* ... to the rows of the database ...
RowsKept(w) ==
  /\ \A p \in Parts \ {cur[w]} : db'[p] = db[p]
  /\ \A p \in Parts : db'[p].op = "prepared" => db[p].op = "prepared"

\* ... and to the documents, unless it creates one.
DocsKept ==
  \A d \in Docs : /\ docs'[d].part = docs[d].part
                  /\ docs'[d].status = "ABSENT" <=> docs[d].status = "ABSENT"

LEMMA Alone ==
  ASSUME Exclusive, NEW w \in Workers, pc[w] \in Held
  PROVE  lease = w /\ \A v \in Workers \ {w} : pc[v] \notin Held
  BY DEF Exclusive

LEMMA OwnMoves ==
  ASSUME TypeInv, NEW w \in Workers, pc[w] \in Held
  PROVE  /\ \A l \in Held \ {"scan"} : Goto(w, l) => Own(w) /\ pc'[w] = l
         /\ Leave(w) => Own(w) /\ pc'[w] = "idle"
         /\ NextPart(w) => Own(w) /\ pc'[w] = "scan"
         /\ Adopt(w) => Own(w) /\ pc'[w] = "get"
         /\ \A l \in Held \ {"scan"}, d \in Docs :
              Hold(w, l, d) /\ UNCHANGED lease => Own(w) /\ pc'[w] = l
<1>0. /\ pc \in [Workers -> Outside \union Held]
      /\ job \in [Workers -> JobKinds \union {"none"}]
      /\ cur \in [Workers -> 1..(PartCount + 1)]
      /\ rows \in [Workers -> [Parts -> PartRow]]
  BY DEF TypeInv, TypeOK, CallsOK
<1>1. ASSUME NEW l \in Held \ {"scan"}, Goto(w, l) PROVE Own(w) /\ pc'[w] = l
  BY <1>0, <1>1 DEF Goto, Own
<1>2. ASSUME Leave(w) PROVE Own(w) /\ pc'[w] = "idle"
  BY <1>0, <1>2 DEF Leave, Clear, Own, Held
<1>3. ASSUME NextPart(w) PROVE Own(w) /\ pc'[w] = "scan"
  BY <1>0, <1>3 DEF NextPart, Own
<1>4. ASSUME Adopt(w) PROVE Own(w) /\ pc'[w] = "get"
  BY <1>0, <1>4 DEF Adopt, Own, Link
<1>5. ASSUME NEW l \in Held \ {"scan"}, NEW d \in Docs, Hold(w, l, d), UNCHANGED lease
      PROVE  Own(w) /\ pc'[w] = l
  BY <1>0, <1>5 DEF Hold, Own
<1> QED BY <1>1, <1>2, <1>3, <1>4, <1>5

\* The clauses about the calls and the rows survive every step under the lease.
LEMMA OwnRows ==
  ASSUME OnceInv, NEW w \in Workers, Own(w), RowsKept(w)
  PROVE  Exclusive' /\ RowsCurrent'
<1>0. cur[w] \in 1..(PartCount + 1)
  BY DEF OnceInv, TypeInv, TypeOK, CallsOK
<1>1. lease = w /\ \A v \in Workers \ {w} : pc[v] \notin Held
  BY Alone DEF OnceInv, Own
<1>2. Exclusive'
  BY <1>1 DEF Own, Exclusive
<1>3. RowsCurrent'
  <2> SUFFICES ASSUME NEW v \in Workers, NEW p \in Parts, pc'[v] \in Held,
                      job'[v] = "process", Ahead(v, p)', rows'[v][p].op = "prepared"
               PROVE  db'[p].op = "prepared"
    BY DEF RowsCurrent
  <2>1. v = w
    BY <1>1 DEF Own
  <2>2. p > cur[w]
    BY <1>0, <2>1 DEF Own, Ahead, Parts
  <2>3. rows[w][p].op = "prepared" /\ job[w] = "process" /\ db'[p] = db[p]
    BY <1>0, <2>1, <2>2 DEF Own, RowsKept, Parts
  <2> QED BY <2>2, <2>3 DEF OnceInv, RowsCurrent, Ahead, Own
<1> QED BY <1>2, <1>3

\* A step under the lease that creates nothing and sends no create.
LEMMA OwnKeeps ==
  ASSUME OnceInv, TypeInv', NEW w \in Workers, Own(w), RowsKept(w), DocsKept,
         lateCreate' \subseteq lateCreate, pc'[w] # "post"
  PROVE  OnceInv'
<1>1. \A v \in Workers \ {w} : pc[v] \notin Held
  BY Alone DEF OnceInv, Own
<1>2. \A v \in Workers : pc'[v] # "post"
  BY <1>1 DEF Own, Held
<1>3. PreparedFresh' /\ LateFresh'
  BY DEF OnceInv, PreparedFresh, LateFresh, Fresh, RowsKept, DocsKept
<1>4. AtMostOneDocument'
  BY DEF OnceInv, AtMostOneDocument, Stored, DocsKept
<1> QED BY <1>2, <1>3, <1>4, OwnRows DEF OnceInv, PostFresh

\* The steps of a call that holds the lease.
Leased(w) ==
  \/ Throw(w) \/ Walking(w) \/ Creating(w) \/ Syncing(w) \/ Commanding(w)
  \/ Crash(w)

LEMMA LeasedOwns ==
  ASSUME TypeInv, NEW w \in Workers, Leased(w)
  PROVE  Own(w)
<1>0. pc[w] \in Held
  BY DEF Leased, Throw, Crash, Walking, Return, SkipPart, Scanning, StartSync,
     StartRecover, DiscardLocal, Purge, Creating, MarkCreating, PostRefused,
     PostUncertain, SaveId, SaveFailure, SaveFound, HookGet, HookLink, PostAccepted,
     Recover, Syncing, Get, Commit, Commanding, ActNext, ActRead, ActHook, ActSend,
     ActDelete, ActCancel, Acting, MarkSending, DistributeAccepted, DistributeRefused,
     DistributeUncertain, SaveSendFailure, MarkSent, DeleteGet, CancelGet,
     DeleteAccepted, CancelAccepted, DeleteOrCancelFails, Discard, Held
<1>1. /\ \A l \in Held \ {"scan"} : Goto(w, l) => Own(w)
      /\ Leave(w) => Own(w)
      /\ NextPart(w) => Own(w)
      /\ Adopt(w) => Own(w)
      /\ \A l \in Held \ {"scan"}, d \in Docs : Hold(w, l, d) /\ UNCHANGED lease => Own(w)
  BY <1>0, OwnMoves
<1>2. CASE Throw(w) \/ Crash(w)
  BY <1>1, <1>2 DEF Throw, Crash, Raise
<1>3. CASE Walking(w)
  BY <1>1, <1>3 DEF Walking, Return, SkipPart, StartSync, StartRecover, DiscardLocal,
     Purge, Held
<1>4. CASE HookLink(w)
  BY <1>0, <1>4 DEF HookLink, Own, TypeInv, TypeOK, CallsOK
<1>5. CASE Creating(w) /\ ~HookLink(w)
  BY <1>1, <1>5 DEF Creating, MarkCreating, PostRefused, PostUncertain, SaveId,
     SaveFailure, SaveFound, HookGet, PostAccepted, Recover, Held
<1>6. ASSUME NEW from, NEW to \in {"commit", "commit2"}, Get(w, from, to) PROVE Own(w)
  BY <1>0, <1>6 DEF Get, Own, TypeInv, TypeOK, CallsOK
<1>7. CASE Syncing(w)
  BY <1>1, <1>6, <1>7 DEF Syncing, Commit, Held
<1>8. CASE Commanding(w)
  BY <1>1, <1>8 DEF Commanding, ActNext, ActRead, ActHook, ActSend, ActDelete, ActCancel,
     MarkSending, DistributeAccepted, DistributeRefused, DistributeUncertain,
     SaveSendFailure, MarkSent, DeleteGet, CancelGet, DeleteAccepted, CancelAccepted,
     DeleteOrCancelFails, Discard, Held
<1> QED BY <1>2, <1>3, <1>4, <1>5, <1>7, <1>8 DEF Leased

LEMMA LeasedRows ==
  ASSUME TypeInv, NEW w \in Workers, Leased(w)
  PROVE  RowsKept(w)
<1>0. db \in [Parts -> PartRow]
  BY DEF TypeInv, TypeOK, TablesOK
<1>1. ASSUME NEW x, db' = [db EXCEPT ![cur[w]].op = x], x # "prepared" PROVE RowsKept(w)
  BY <1>0, <1>1 DEF RowsKept, PartRow
<1>2. ASSUME NEW x, db' = [db EXCEPT ![cur[w]].del = x] PROVE RowsKept(w)
  BY <1>0, <1>2 DEF RowsKept, PartRow
<1>3. ASSUME NEW d, db' = Link(db, cur[w], d) PROVE RowsKept(w)
  BY <1>0, <1>3 DEF RowsKept, PartRow, Link
<1>4. db' = db => RowsKept(w)
  BY DEF RowsKept
<1>5. CASE Throw(w) \/ Crash(w)
  BY <1>4, <1>5 DEF Throw, Crash, tables
<1>6. CASE Walking(w)
  BY <1>1, <1>4, <1>6 DEF Walking, Return, SkipPart, StartSync, StartRecover,
     DiscardLocal, Purge, tables
<1>7. CASE Creating(w)
  BY <1>1, <1>3, <1>4, <1>7 DEF Creating, MarkCreating, PostRefused, PostUncertain,
     SaveId, SaveFailure, SaveFound, HookGet, HookLink, PostAccepted, Recover, tables
<1>8. ASSUME NEW from, Commit(w, from) PROVE RowsKept(w)
  BY <1>0, <1>8 DEF Commit, RowsKept, PartRow
<1>9. CASE Syncing(w)
  BY <1>4, <1>8, <1>9 DEF Syncing, Get, tables
<1>10. CASE Commanding(w)
  BY <1>1, <1>2, <1>4, <1>10 DEF Commanding, ActNext, ActRead, ActHook, ActSend,
     ActDelete, ActCancel, MarkSending, DistributeAccepted, DistributeRefused,
     DistributeUncertain, SaveSendFailure, MarkSent, DeleteGet, CancelGet,
     DeleteAccepted, CancelAccepted, DeleteOrCancelFails, Discard, tables
<1> QED BY <1>5, <1>6, <1>7, <1>9, <1>10 DEF Leased

\* Only these steps send, answer or lose a create.
PostStep(w) ==
  \/ MarkCreating(w) \/ PostUncertain(w) \/ (Crash(w) /\ pc[w] = "post")
  \/ \E d \in Docs : PostAccepted(w, d)

LEMMA StatusKept ==
  ASSUME TypeInv, NEW d, docs[d].status # "ABSENT", NEW s, s # "ABSENT", SetStatus(d, s)
  PROVE  DocsKept
  BY DEF SetStatus, DocsKept, TypeInv, TypeOK, NativeOK, Document

LEMMA LeasedDocs ==
  ASSUME TypeInv, NEW w \in Workers, Leased(w), ~PostStep(w)
  PROVE  DocsKept /\ lateCreate' = lateCreate /\ pc'[w] # "post"
<1>0. /\ pc \in [Workers -> Outside \union Held]
      /\ docs \in [Docs -> Document]
  BY DEF TypeInv, TypeOK, CallsOK, NativeOK
<1>1. docs' = docs => DocsKept
  BY DEF DocsKept
<1>2. /\ \A l \in (Outside \union Held) \ {"post"} : Goto(w, l) => pc'[w] # "post"
      /\ Leave(w) => pc'[w] # "post"
      /\ NextPart(w) => pc'[w] # "post"
      /\ Adopt(w) => pc'[w] # "post"
      /\ \A l \in (Outside \union Held) \ {"post"}, d \in Docs : Hold(w, l, d) => pc'[w] # "post"
  BY <1>0 DEF Goto, Leave, Clear, NextPart, Adopt, Hold
<1>3. CASE Throw(w) \/ Crash(w)
  BY <1>1, <1>2, <1>3 DEF Throw, Crash, Raise, PostStep, native
<1>4. CASE Walking(w)
  BY <1>1, <1>2, <1>4 DEF Walking, Return, SkipPart, StartSync, StartRecover,
     DiscardLocal, Purge, native, Held
<1>5. CASE HookLink(w)
  BY <1>0, <1>1, <1>5 DEF HookLink, native
<1>6. CASE Creating(w) /\ ~HookLink(w)
  BY <1>1, <1>2, <1>6 DEF PostStep, Creating, PostRefused, SaveId, SaveFailure,
     SaveFound, HookGet, Recover, native, Held
<1>7. CASE Syncing(w)
  BY <1>0, <1>1, <1>2, <1>7 DEF Syncing, Get, Commit, native, Held
<1>8. CASE DistributeAccepted(w) \/ DeleteAccepted(w) \/ CancelAccepted(w)
  BY <1>2, <1>8, StatusKept DEF DistributeAccepted, DeleteAccepted, CancelAccepted,
     Live, NativeStatuses, Held
<1>9. CASE Commanding(w) /\ ~(DistributeAccepted(w) \/ DeleteAccepted(w) \/ CancelAccepted(w))
  BY <1>1, <1>2, <1>9 DEF Commanding, ActNext, ActRead, ActHook, ActSend, ActDelete,
     ActCancel, MarkSending, DistributeRefused, DistributeUncertain, SaveSendFailure,
     MarkSent, DeleteGet, CancelGet, DeleteOrCancelFails, Discard, native, Held
<1> QED BY <1>3, <1>4, <1>5, <1>6, <1>7, <1>8, <1>9 DEF Leased

\* The intent is durable before the POST: the part is no longer 'prepared', and
\* nothing of it exists or is under way.
LEMMA MarkCreatingOnce ==
  ASSUME OnceInv, TypeInv', NEW w \in Workers, MarkCreating(w)
  PROVE  OnceInv'
<1>0. /\ pc[w] = "scan" /\ cur[w] \in Parts /\ job[w] = "process"
      /\ rows[w][cur[w]].op = "prepared"
      /\ UNCHANGED <<docs, lateCreate>> /\ Goto(w, "post")
      /\ db \in [Parts -> PartRow] /\ pc \in [Workers -> Outside \union Held]
  BY DEF MarkCreating, Scanning, Row, native, Parts, OnceInv, TypeInv, TypeOK, TablesOK, CallsOK
<1>1. Own(w) /\ RowsKept(w)
  BY LeasedOwns, LeasedRows DEF Leased, Creating, OnceInv
<1>2. db[cur[w]].op = "prepared"
  BY <1>0 DEF OnceInv, RowsCurrent, Ahead, Held
<1>3. Fresh(cur[w])
  BY <1>0, <1>2 DEF OnceInv, PreparedFresh
<1>4. db'[cur[w]].op # "prepared"
  BY <1>0, <1>2 DEF MarkCreating, PartRow
<1>5. \A v \in Workers \ {w} : pc'[v] # "post"
  BY <1>1, Alone DEF OnceInv, Own, Held
<1>6. PostFresh'
  BY <1>0, <1>3, <1>4, <1>5 DEF PostFresh, Fresh, Goto
<1>7. PreparedFresh' /\ LateFresh' /\ AtMostOneDocument'
  BY <1>0, <1>1 DEF OnceInv, PreparedFresh, LateFresh, Fresh, RowsKept, AtMostOneDocument, Stored
<1> QED BY <1>1, <1>6, <1>7, OwnRows DEF OnceInv

\* While the POST is out, its part is nowhere else.
LEMMA PostAlone ==
  ASSUME OnceInv, NEW w \in Workers, Leased(w), pc[w] = "post", pc'[w] # "post"
  PROVE  /\ Exclusive' /\ RowsCurrent' /\ Own(w) /\ RowsKept(w)
         /\ Fresh(cur[w]) /\ db'[cur[w]].op # "prepared"
         /\ \A v \in Workers : pc'[v] # "post"
<1>1. Own(w) /\ RowsKept(w)
  BY LeasedOwns, LeasedRows DEF OnceInv
<1>2. cur[w] \in Parts /\ Fresh(cur[w]) /\ db'[cur[w]].op # "prepared"
  BY <1>1 DEF OnceInv, TypeInv, CallsSound, Sound, PostFresh, RowsKept
<1>3. \A v \in Workers : pc'[v] # "post"
  BY <1>1, Alone DEF OnceInv, Own, Held
<1> QED BY <1>1, <1>2, <1>3, OwnRows

LEMMA PostAcceptedOnce ==
  ASSUME OnceInv, TypeInv', NEW w \in Workers, NEW d \in Docs, PostAccepted(w, d)
  PROVE  OnceInv'
<1>0. /\ pc[w] = "post" /\ pc'[w] # "post" /\ Leased(w) /\ NewDocument(d, cur[w])
      /\ UNCHANGED lateCreate
      /\ docs \in [Docs -> Document]
  BY DEF PostAccepted, Hold, Leased, Creating, OnceInv, TypeInv, TypeOK, NativeOK, CallsOK
<1>1. /\ Exclusive' /\ RowsCurrent' /\ RowsKept(w)
      /\ Fresh(cur[w]) /\ db'[cur[w]].op # "prepared"
      /\ \A v \in Workers : pc'[v] # "post"
  BY <1>0, PostAlone
<1>2. /\ docs'[d].part = cur[w]
      /\ \A e \in Docs \ {d} : docs'[e] = docs[e]
  BY <1>0 DEF NewDocument
<1>3. AtMostOneDocument'
  BY <1>1, <1>2 DEF OnceInv, AtMostOneDocument, Stored, Fresh
<1>4. PreparedFresh' /\ LateFresh'
  BY <1>0, <1>1, <1>2 DEF OnceInv, PreparedFresh, LateFresh, Fresh, RowsKept
<1> QED BY <1>1, <1>3, <1>4 DEF OnceInv, PostFresh

\* A POST whose answer is lost may arrive later, and is the only one.
LEMMA PostLostOnce ==
  ASSUME OnceInv, TypeInv', NEW w \in Workers,
         PostUncertain(w) \/ (Crash(w) /\ pc[w] = "post")
  PROVE  OnceInv'
<1>0. /\ pc[w] = "post" /\ Leased(w)
      /\ UNCHANGED docs /\ lateCreate' = lateCreate \union {cur[w]}
  BY DEF PostUncertain, Crash, Leased, Creating
<1>1. pc'[w] # "post"
  BY DEF PostUncertain, Crash, Goto, Leave, Clear, OnceInv, TypeInv, TypeOK, CallsOK
<1>2. /\ Exclusive' /\ RowsCurrent' /\ RowsKept(w)
      /\ Fresh(cur[w]) /\ db'[cur[w]].op # "prepared"
      /\ \A v \in Workers : pc'[v] # "post"
  BY <1>0, <1>1, PostAlone
<1>3. PreparedFresh' /\ LateFresh'
  BY <1>0, <1>2 DEF OnceInv, PreparedFresh, LateFresh, Fresh, RowsKept
<1> QED BY <1>0, <1>2, <1>3 DEF OnceInv, PostFresh, AtMostOneDocument, Stored

LEMMA LeasedOnce ==
  ASSUME OnceInv, TypeInv', NEW w \in Workers, Leased(w)
  PROVE  OnceInv'
<1>1. CASE PostStep(w)
  BY <1>1, MarkCreatingOnce, PostAcceptedOnce, PostLostOnce DEF PostStep
<1>2. CASE ~PostStep(w)
  <2>1. Own(w) /\ RowsKept(w) /\ DocsKept /\ lateCreate' = lateCreate /\ pc'[w] # "post"
    BY <1>2, LeasedOwns, LeasedRows, LeasedDocs DEF OnceInv
  <2> QED BY <2>1, OwnKeeps
<1> QED BY <1>1, <1>2

\* Calls that do not hold the lease change nothing the others rely on.
LEMMA UnleasedOnce ==
  ASSUME OnceInv, TypeInv', NEW w \in Workers, Starting(w) \/ Busy(w) \/ Acquire(w)
  PROVE  OnceInv'
<1>0. /\ pc \in [Workers -> Outside \union Held]
      /\ job \in [Workers -> JobKinds \union {"none"}]
      /\ cur \in [Workers -> 1..(PartCount + 1)]
      /\ rows \in [Workers -> [Parts -> PartRow]]
  BY DEF OnceInv, TypeInv, TypeOK, CallsOK
<1>1. UNCHANGED <<db, docs, lateCreate>>
  BY DEF Starting, Begin, BeginRead, BeginHook, Busy, Acquire, tables, native
<1>2. \A v \in Workers \ {w} : /\ pc'[v] = pc[v] /\ job'[v] = job[v]
                               /\ cur'[v] = cur[v] /\ rows'[v] = rows[v]
  BY <1>0 DEF Starting, Begin, BeginRead, BeginHook, Snapshot, Busy, Clear, Acquire
<1>3. PreparedFresh' /\ LateFresh' /\ AtMostOneDocument'
  BY <1>1 DEF OnceInv, PreparedFresh, LateFresh, Fresh, AtMostOneDocument, Stored
<1>4. CASE Starting(w) \/ Busy(w)
  <2>1. pc'[w] \notin Held /\ lease' = lease
    BY <1>0, <1>4 DEF Starting, Begin, BeginRead, BeginHook, Snapshot, Busy, Clear, Held
  <2>2. Exclusive'
    BY <1>2, <2>1 DEF OnceInv, Exclusive
  <2>3. RowsCurrent'
    BY <1>1, <1>2, <2>1 DEF OnceInv, RowsCurrent, Ahead
  <2>4. PostFresh'
    BY <1>1, <1>2, <2>1 DEF OnceInv, PostFresh, Fresh, Held
  <2> QED BY <1>3, <2>2, <2>3, <2>4 DEF OnceInv
<1>5. CASE Acquire(w)
  <2>1. /\ lease = NoWorker /\ lease' = w /\ pc'[w] \in {"get", "hookGet", "scan"}
        /\ job'[w] = job[w] /\ (job[w] = "process" => rows'[w] = db)
    BY <1>0, <1>5 DEF Acquire
  <2>2. \A v \in Workers : pc[v] \notin Held
    BY <2>1 DEF OnceInv, Exclusive
  <2>3. Exclusive' /\ PostFresh'
    BY <1>2, <2>1, <2>2 DEF Exclusive, PostFresh, Held
  <2>4. RowsCurrent'
    BY <1>1, <1>2, <2>1, <2>2 DEF RowsCurrent
  <2> QED BY <1>3, <2>3, <2>4 DEF OnceInv
<1> QED BY <1>4, <1>5

\* Late arrivals and people; a person who duplicates a draft is excluded.
LEMMA EnvironmentOnce ==
  ASSUME "duplicate" \notin Moves, OnceInv, TypeInv', Environment
  PROVE  OnceInv'
<1>0. /\ UNCHANGED <<lease, calls, db>>
      /\ docs \in [Docs -> Document] /\ lateCreate \subseteq Parts
      /\ lateDoc \subseteq {"distribute", "delPost", "cancelPost"} \X Docs
  BY DEF Environment, LateCreateLost, LateCreateArrives, LateArrives, ReceiveWebhook,
     IgnoreHook, NativeMove, NativeDuplicate, tables, OnceInv, TypeInv, TypeOK, NativeOK
<1>1. Exclusive' /\ RowsCurrent'
  BY <1>0 DEF OnceInv, Exclusive, RowsCurrent, Ahead, calls
<1>2. ASSUME DocsKept, lateCreate' \subseteq lateCreate PROVE OnceInv'
  <2>1. PreparedFresh' /\ LateFresh' /\ PostFresh'
    BY <1>0, <1>2 DEF OnceInv, PreparedFresh, LateFresh, PostFresh, Fresh, DocsKept, calls
  <2>2. AtMostOneDocument'
    BY <1>2 DEF OnceInv, AtMostOneDocument, Stored, DocsKept
  <2> QED BY <1>1, <2>1, <2>2 DEF OnceInv
<1>3. ASSUME NEW p \in lateCreate, LateCreateLost(p) PROVE OnceInv'
  BY <1>2, <1>3 DEF LateCreateLost, DocsKept
<1>4. ASSUME NEW p \in lateCreate, NEW d \in Docs, LateCreateArrives(p, d) PROVE OnceInv'
  <2>0. p \in Parts /\ lateCreate' = lateCreate \ {p}
    BY <1>0, <1>4 DEF LateCreateArrives
  <2>1. \A e \in Docs : docs[e].part # p
    BY DEF OnceInv, LateFresh
  <2>2. docs'[d].part = p /\ \A e \in Docs \ {d} : docs'[e] = docs[e]
    BY <1>0, <1>4 DEF LateCreateArrives, NewDocument
  <2>3. PreparedFresh' /\ LateFresh' /\ PostFresh'
    BY <1>0, <2>0, <2>2 DEF OnceInv, PreparedFresh, LateFresh, PostFresh, Fresh, calls
  <2>4. AtMostOneDocument'
    BY <2>1, <2>2 DEF OnceInv, AtMostOneDocument, Stored
  <2> QED BY <1>1, <2>3, <2>4 DEF OnceInv
<1>5. ASSUME NEW m \in lateDoc, LateArrives(m) PROVE OnceInv'
  <2>1. m[2] \in Docs /\ docs[m[2]].status \in DocStates
    BY <1>0 DEF Document
  <2>2. Effect(m[1], m[2]) = "ABSENT" <=> docs[m[2]].status = "ABSENT"
    BY <2>1 DEF Effect, Live, DocStates, NativeStatuses
  <2>3. DocsKept
    BY <1>0, <1>5, <2>1, <2>2 DEF LateArrives, SetStatus, DocsKept, Document
  <2> QED BY <1>2, <1>5, <2>3 DEF LateArrives
<1>6. ASSUME NEW d \in Docs, ReceiveWebhook(d) \/ IgnoreHook(d) PROVE OnceInv'
  BY <1>2, <1>6 DEF ReceiveWebhook, IgnoreHook, DocsKept, native
<1>7. ASSUME NEW d \in Docs, NativeMove(d) PROVE OnceInv'
  <2>1. DocsKept
    BY <1>0, <1>7 DEF NativeMove, Moved, Edited, SetStatus, DocsKept, Document
  <2> QED BY <1>2, <1>7, <2>1 DEF NativeMove
<1> QED BY <1>3, <1>4, <1>5, <1>6, <1>7 DEF Environment, NativeDuplicate

LEMMA NextOnce ==
  ASSUME "duplicate" \notin Moves
  PROVE  OnceInv /\ [Next]_vars => OnceInv'
<1> SUFFICES ASSUME OnceInv, [Next]_vars PROVE OnceInv'
  OBVIOUS
<1>1. TypeInv'
  BY NextType DEF OnceInv
<1>2. ASSUME NEW w \in Workers, Starting(w) \/ Step(w) \/ Crash(w) PROVE OnceInv'
  BY <1>1, <1>2, LeasedOnce, UnleasedOnce DEF Step, Leased
<1>3. CASE Environment
  BY <1>1, <1>3, EnvironmentOnce
<1>4. CASE UNCHANGED vars
  BY <1>1, <1>4 DEF vars, OnceInv, Exclusive, RowsCurrent, Ahead, PreparedFresh, LateFresh,
     PostFresh, Fresh, AtMostOneDocument, Stored
<1> QED BY <1>2, <1>3, <1>4 DEF Next

LEMMA InitOnce == Init => OnceInv
<1> SUFFICES ASSUME Init PROVE OnceInv
  OBVIOUS
<1>1. Exclusive /\ RowsCurrent /\ LateFresh /\ PostFresh
  BY DEF Init, Exclusive, RowsCurrent, LateFresh, PostFresh, Held
<1>2. PreparedFresh /\ AtMostOneDocument
  BY DEF Init, PreparedFresh, Fresh, Absent, AtMostOneDocument, Stored, Parts
<1> QED BY <1>1, <1>2, InitType DEF OnceInv

\* The contract of the durable intent: whatever calls run, time out, crash or
\* are retried, a part has at most one native document, unless a person copies
\* a document inside Documenso.
THEOREM AtMostOneCreated ==
  ASSUME "duplicate" \notin Moves
  PROVE  Spec => []AtMostOneDocument
<1>1. OnceInv => AtMostOneDocument
  BY DEF OnceInv
<1> QED BY <1>1, InitOnce, NextOnce, PTL DEF Spec
-----------------------------------------------------------------------------
(***************************************************************************)
(* The ground for the theorems that follow: one call at a time is inside   *)
(* the lease, what it has yet to come to is still what it read, and where  *)
(* it stands says what kind of call it is.                                 *)
(***************************************************************************)
RowsAhead ==
  \A w \in Workers, p \in Parts :
    pc[w] \in Held /\ job[w] \notin {"read", "hook"} /\ Ahead(w, p)
      => rows[w][p] = db[p]

\* The calls that may stand at l.
JobsAt(l) ==
  CASE l \in {"recover", "saveFound", "post", "saveId", "saveFailed", "saveUnknown"}
         -> {"process"}
    [] l \in {"hookGet", "hookLink"} -> {"hook"}
    [] l \in {"sending", "distribute", "sendFailed", "sendUnknown", "sent"} -> {"send"}
    [] l \in {"cancelGet", "cancelPost"} -> {"cancel", "close"}
    [] l \in {"get2", "commit2"} -> {"send", "cancel", "close"}
    [] l \in {"delGet", "delPost", "discard", "purge"} -> {"close", "discard"}
    [] l = "scan" -> JobKinds \ {"read", "hook"}
    [] l = "queued" -> JobKinds
    [] OTHER -> JobKinds \union {"none"}

JobsOK == \A w \in Workers : job[w] \in JobsAt(pc[w])

BaseInv == TypeInv /\ Exclusive /\ RowsAhead /\ JobsOK

\* Calls outside the lease: others and the tables stay as they are.
Outer(w) == Starting(w) \/ Busy(w)

Others(w) ==
  \A v \in Workers \ {w} : /\ pc'[v] = pc[v] /\ job'[v] = job[v] /\ cur'[v] = cur[v]
                           /\ rows'[v] = rows[v] /\ seen'[v] = seen[v]
                           /\ found'[v] = found[v]

LEMMA OuterKeeps ==
  ASSUME TypeInv, NEW w \in Workers, Outer(w)
  PROVE  /\ UNCHANGED <<tables, native, ghosts, lease>>
         /\ pc'[w] \in Outside /\ Others(w)
         /\ job'[w] \in JobsAt(pc'[w])
         /\ rows'[w] \in {rows[w], db, NoRows}
<1>0. /\ pc \in [Workers -> Outside \union Held]
      /\ job \in [Workers -> JobKinds \union {"none"}]
      /\ cur \in [Workers -> 1..(PartCount + 1)]
      /\ rows \in [Workers -> [Parts -> PartRow]]
      /\ seen \in [Workers -> Seen]
      /\ found \in [Workers -> Docs \union {NoDoc}]
  BY DEF TypeInv, TypeOK, CallsOK
<1>1. ASSUME NEW k \in Jobs, Begin(w, k)
      PROVE  /\ UNCHANGED <<tables, native, ghosts, lease>>
             /\ pc'[w] \in Outside /\ Others(w)
             /\ job'[w] \in JobsAt(pc'[w])
             /\ rows'[w] \in {rows[w], db, NoRows}
  BY <1>0, <1>1, JobsAssumption DEF Begin, Outside, Others, JobsAt
<1>2. ASSUME NEW k \in JobKinds, NEW p, NEW d, Snapshot(w, k, p, d), UNCHANGED seen
      PROVE  /\ pc'[w] \in Outside /\ Others(w)
             /\ job'[w] \in JobsAt(pc'[w])
             /\ rows'[w] \in {rows[w], db, NoRows}
  BY <1>0, <1>2 DEF Snapshot, Outside, Others, JobsAt
<1>3. ASSUME Busy(w)
      PROVE  /\ UNCHANGED <<tables, native, ghosts, lease>>
             /\ pc'[w] \in Outside /\ Others(w)
             /\ job'[w] \in JobsAt(pc'[w])
             /\ rows'[w] \in {rows[w], db, NoRows}
  BY <1>0, <1>3 DEF Busy, Clear, Outside, Others, JobsAt
<1> QED BY <1>1, <1>2, <1>3 DEF Outer, Starting, BeginRead, BeginHook, JobKinds

LEMMA AcquireKeeps ==
  ASSUME TypeInv, Exclusive, NEW w \in Workers, Acquire(w)
  PROVE  /\ UNCHANGED <<tables, native, ghosts, job, cur, seen, found>>
         /\ lease' = w /\ pc[w] = "queued" /\ pc'[w] \in {"get", "hookGet", "scan"}
         /\ Others(w) /\ \A v \in Workers : pc[v] \notin Held
         /\ pc'[w] = "hookGet" <=> job[w] = "hook"
         /\ pc'[w] = "scan" <=> job[w] \notin {"read", "hook"}
         /\ rows'[w] = IF job[w] \in {"read", "hook"} THEN rows[w] ELSE db
<1>0. /\ pc \in [Workers -> Outside \union Held]
      /\ rows \in [Workers -> [Parts -> PartRow]]
  BY DEF TypeInv, TypeOK, CallsOK
<1>1. lease = NoWorker /\ \A v \in Workers : pc[v] \notin Held
  BY DEF Acquire, Exclusive
<1>2. Others(w)
  BY <1>0 DEF Acquire, Others
<1>3. /\ UNCHANGED <<tables, native, ghosts, job, cur, seen, found>>
      /\ lease' = w /\ pc[w] = "queued" /\ pc'[w] \in {"get", "hookGet", "scan"}
      /\ pc'[w] = "hookGet" <=> job[w] = "hook"
      /\ pc'[w] = "scan" <=> job[w] \notin {"read", "hook"}
  BY <1>0 DEF Acquire
<1>4. rows'[w] = IF job[w] \in {"read", "hook"} THEN rows[w] ELSE db
  BY <1>0 DEF Acquire
<1> QED BY <1>1, <1>2, <1>3, <1>4

\* Documenso's own steps: documents change their status or edit, and new ones
\* appear; no call and no table notices, but for the inbox.
LEMMA EnvironmentKeeps ==
  ASSUME TypeInv, Environment
  PROVE  /\ UNCHANGED <<db, uploads, announced, lease, calls, ghosts>>
         /\ \A d \in Docs : docs[d].status # "ABSENT" =>
              docs'[d].part = docs[d].part /\ docs'[d].status # "ABSENT"
<1>0. /\ docs \in [Docs -> Document] /\ DocsSound
      /\ lateDoc \subseteq {"distribute", "delPost", "cancelPost"} \X Docs
  BY DEF TypeInv, TypeOK, NativeOK
<1>1. UNCHANGED <<db, uploads, announced, lease, calls, ghosts>>
  BY DEF Environment, LateCreateLost, LateCreateArrives, LateArrives, ReceiveWebhook,
     IgnoreHook, NativeMove, NativeDuplicate, tables
<1> DEFINE Goal == \A d \in Docs : docs[d].status # "ABSENT" =>
                     docs'[d].part = docs[d].part /\ docs'[d].status # "ABSENT"
<1>2. UNCHANGED docs => Goal
  OBVIOUS
<1>3. ASSUME NEW d \in Docs, NEW p, NewDocument(d, p) PROVE Goal
  BY <1>0, <1>3 DEF NewDocument
<1>4. ASSUME NEW d \in Docs, NEW s, s = "ABSENT" => docs[d].status = "ABSENT",
             SetStatus(d, s)
      PROVE  Goal
  BY <1>0, <1>4 DEF SetStatus, Document
<1>5. ASSUME NEW m \in lateDoc, LateArrives(m) PROVE Goal
  <2>1. m[2] \in Docs
    BY <1>0
  <2>2. Effect(m[1], m[2]) = "ABSENT" => docs[m[2]].status = "ABSENT"
    BY DEF Effect
  <2> QED BY <1>2, <1>4, <1>5, <2>1, <2>2 DEF LateArrives
<1>6. ASSUME NEW d \in Docs, NativeMove(d) PROVE Goal
  <2>1. CASE \E k, from, to : to # "ABSENT" /\ Moved(d, k, from, to)
    BY <1>4, <2>1 DEF Moved
  <2>2. CASE \E k, e : Edited(d, k, e)
    BY <1>0, <2>2 DEF Edited, Document
  <2> QED BY <1>6, <2>1, <2>2 DEF NativeMove
<1> QED BY <1>1, <1>2, <1>3, <1>5, <1>6 DEF Environment, LateCreateLost,
        LateCreateArrives, ReceiveWebhook, IgnoreHook, NativeDuplicate, native

\* Where a call that holds the lease goes is a place for its kind.
LEMMA LeasedJobs ==
  ASSUME BaseInv, NEW w \in Workers, Leased(w)
  PROVE  job'[w] \in JobsAt(pc'[w])
<1>0. /\ pc \in [Workers -> Outside \union Held]
      /\ job \in [Workers -> JobKinds \union {"none"}]
      /\ job[w] \in JobsAt(pc[w])
  BY DEF BaseInv, TypeInv, TypeOK, CallsOK, JobsOK
<1>1. /\ \A l \in Held : Goto(w, l) => pc'[w] = l /\ job'[w] = job[w]
      /\ Leave(w) => pc'[w] = "idle" /\ job'[w] = "none"
      /\ NextPart(w) => pc'[w] = "scan" /\ job'[w] = job[w]
      /\ Adopt(w) => pc'[w] = "get" /\ job'[w] = job[w]
      /\ \A l \in Held, d \in Docs : Hold(w, l, d) => pc'[w] = l /\ job'[w] = job[w]
  BY <1>0 DEF Goto, Leave, Clear, NextPart, Adopt, Hold
<1>2. "none" \in JobsAt("idle") /\ job[w] \in JobsAt("get") /\ job[w] \in JobsAt("commit")
      /\ job[w] \in JobsAt("act")
  BY <1>0 DEF JobsAt
<1>3. job[w] \in JobKinds \ {"read", "hook"} <=> job[w] \in JobsAt("scan")
  BY DEF JobsAt
<1>4. CASE Throw(w) \/ Crash(w)
  BY <1>1, <1>2, <1>3, <1>4 DEF Throw, Crash, Raise, JobKinds
<1>5. CASE Walking(w)
  BY <1>0, <1>1, <1>2, <1>5 DEF Walking, Return, SkipPart, StartSync, StartRecover,
     DiscardLocal, Purge, Scanning, JobsAt, JobKinds, Held
<1>6. CASE HookLink(w)
  BY <1>0, <1>2, <1>6 DEF HookLink
<1>7. CASE Creating(w) /\ ~HookLink(w)
  BY <1>0, <1>1, <1>2, <1>7 DEF Creating, MarkCreating, PostRefused, PostUncertain,
     SaveId, SaveFailure, SaveFound, HookGet, PostAccepted, Recover, Scanning, JobsAt,
     JobKinds, Held
<1>8. CASE Syncing(w)
  BY <1>0, <1>1, <1>2, <1>8 DEF Syncing, Get, Commit, JobsAt, JobKinds, Held
<1>9. CASE Commanding(w)
  BY <1>0, <1>1, <1>2, <1>9 DEF Commanding, ActNext, ActRead, ActHook, ActSend,
     ActDelete, ActCancel, Acting, MarkSending, DistributeAccepted, DistributeRefused,
     DistributeUncertain, SaveSendFailure, MarkSent, DeleteGet, CancelGet,
     DeleteAccepted, CancelAccepted, DeleteOrCancelFails, Discard, JobsAt, JobKinds, Held
<1> QED BY <1>4, <1>5, <1>6, <1>7, <1>8, <1>9 DEF Leased

LEMMA NextBase == BaseInv /\ [Next]_vars => BaseInv'
<1> SUFFICES ASSUME BaseInv, [Next]_vars PROVE BaseInv'
  OBVIOUS
<1>0. TypeInv /\ TypeInv' /\ Exclusive
  BY NextType DEF BaseInv
<1>1. ASSUME NEW w \in Workers, Leased(w) PROVE Exclusive' /\ RowsAhead' /\ JobsOK'
  <2>0. Own(w) /\ RowsKept(w) /\ cur[w] \in 1..(PartCount + 1)
    BY <1>0, <1>1, LeasedOwns, LeasedRows DEF TypeInv, TypeOK, CallsOK
  <2>1. lease = w /\ \A v \in Workers \ {w} : pc[v] \notin Held
    BY <1>0, <2>0, Alone DEF Own
  <2>2. Exclusive'
    BY <2>0, <2>1 DEF Own, Exclusive
  <2>3. JobsOK'
    BY <1>1, <2>0, LeasedJobs DEF BaseInv, JobsOK, Own
  <2>4. RowsAhead'
    <3> SUFFICES ASSUME NEW v \in Workers, NEW p \in Parts, pc'[v] \in Held,
                        job'[v] \notin {"read", "hook"}, Ahead(v, p)'
                 PROVE  rows'[v][p] = db'[p]
      BY DEF RowsAhead
    <3>1. v = w
      BY <2>0, <2>1 DEF Own
    <3>2. p > cur[w]
      BY <2>0, <3>1 DEF Own, Ahead, Parts
    <3>3. rows'[w][p] = rows[w][p] /\ job'[w] = job[w] /\ db'[p] = db[p] /\ pc[w] \in Held
      BY <2>0, <3>1, <3>2 DEF Own, RowsKept, Parts
    <3> QED BY <3>1, <3>2, <3>3 DEF BaseInv, RowsAhead, Ahead
  <2> QED BY <2>2, <2>3, <2>4
<1>2. ASSUME NEW w \in Workers, Outer(w) PROVE Exclusive' /\ RowsAhead' /\ JobsOK'
  <2>1. /\ UNCHANGED <<db, lease>> /\ pc'[w] \in Outside /\ Others(w)
        /\ job'[w] \in JobsAt(pc'[w])
    BY <1>0, <1>2, OuterKeeps DEF tables
  <2>2. pc'[w] \notin Held
    BY <2>1 DEF Outside, Held
  <2> QED BY <1>0, <2>1, <2>2 DEF BaseInv, Exclusive, RowsAhead, JobsOK, Others, Ahead
<1>3. ASSUME NEW w \in Workers, Acquire(w) PROVE Exclusive' /\ RowsAhead' /\ JobsOK'
  <2>1. /\ UNCHANGED <<db, job>> /\ lease' = w /\ pc'[w] \in {"get", "hookGet", "scan"}
        /\ Others(w) /\ \A v \in Workers : pc[v] \notin Held
        /\ pc'[w] = "hookGet" <=> job[w] = "hook"
        /\ pc'[w] = "scan" <=> job[w] \notin {"read", "hook"}
        /\ rows'[w] = IF job[w] \in {"read", "hook"} THEN rows[w] ELSE db
        /\ pc[w] = "queued"
    BY <1>0, <1>3, AcquireKeeps DEF tables
  <2>2. job[w] \in JobKinds
    BY <2>1 DEF BaseInv, JobsOK, JobsAt
  <2>3. JobsOK'
    BY <2>1, <2>2 DEF BaseInv, JobsOK, JobsAt, Others
  <2>4. Exclusive'
    BY <2>1 DEF Exclusive, Others
  <2>5. RowsAhead'
    <3> SUFFICES ASSUME NEW v \in Workers, NEW p \in Parts, pc'[v] \in Held,
                        job'[v] \notin {"read", "hook"}
                 PROVE  rows'[v][p] = db'[p]
      BY DEF RowsAhead
    <3>1. v = w
      BY <2>1 DEF Others
    <3> QED BY <2>1, <3>1
  <2> QED BY <2>3, <2>4, <2>5
<1>4. CASE Environment \/ UNCHANGED vars
  <2>1. UNCHANGED <<db, lease, calls>>
    BY <1>0, <1>4, EnvironmentKeeps DEF vars, calls
  <2> QED BY <1>0, <2>1 DEF BaseInv, Exclusive, RowsAhead, JobsOK, Ahead, calls
<1> QED BY <1>0, <1>1, <1>2, <1>3, <1>4 DEF Next, Step, Leased, Outer, BaseInv

LEMMA InitBase == Init => BaseInv
<1>1. Init => Exclusive /\ RowsAhead /\ JobsOK
  BY DEF Init, Exclusive, RowsAhead, JobsOK, JobsAt, Held
<1> QED BY <1>1, InitType DEF BaseInv

LEMMA Base == Spec => []BaseInv
<1> QED BY InitBase, NextBase, PTL DEF Spec
\* Every step is one of a call inside the lease, of one outside, a call that
\* gets the lease, or Documenso's.
LEMMA Split ==
  ASSUME [Next]_vars
  PROVE  \/ \E w \in Workers : Leased(w) \/ Outer(w) \/ Acquire(w)
         \/ Environment \/ UNCHANGED vars
  BY DEF Next, Step, Leased, Outer

\* What all steps but those inside the lease leave alone, and the only ways a
\* call can come to stand inside.
LEMMA Unleased ==
  ASSUME BaseInv, [Next]_vars, \A w \in Workers : ~Leased(w)
  PROVE  /\ UNCHANGED <<db, uploads, announced, ghosts>>
         /\ \A d \in Docs : docs[d].status # "ABSENT" =>
              docs'[d].part = docs[d].part /\ docs'[d].status # "ABSENT"
         /\ \A w \in Workers :
              /\ rows'[w] \in {rows[w], db, NoRows}
              /\ pc'[w] \in Held =>
                   /\ UNCHANGED <<job[w], cur[w], seen[w], found[w]>>
                   /\ \/ UNCHANGED <<pc[w], rows[w]>>
                      \/ /\ pc[w] = "queued" /\ pc'[w] \in {"get", "hookGet", "scan"}
                         /\ pc'[w] = "scan" <=> job[w] \notin {"read", "hook"}
                         /\ pc'[w] = "hookGet" <=> job[w] = "hook"
<1>0. TypeInv /\ Exclusive
  BY DEF BaseInv
<1>1. ASSUME NEW w \in Workers, Outer(w)
      PROVE  /\ UNCHANGED <<tables, native, ghosts>> /\ Others(w)
             /\ pc'[w] \notin Held /\ rows'[w] \in {rows[w], db, NoRows}
  BY <1>0, <1>1, OuterKeeps DEF Outside, Held
<1>2. ASSUME NEW w \in Workers, Acquire(w)
      PROVE  /\ UNCHANGED <<tables, native, ghosts, job, cur, seen, found>> /\ Others(w)
             /\ pc[w] = "queued" /\ pc'[w] \in {"get", "hookGet", "scan"}
             /\ pc'[w] = "scan" <=> job[w] \notin {"read", "hook"}
             /\ pc'[w] = "hookGet" <=> job[w] = "hook"
             /\ rows'[w] \in {rows[w], db, NoRows}
  BY <1>0, <1>2, AcquireKeeps
<1>3. ASSUME Environment
      PROVE  /\ UNCHANGED <<db, uploads, announced, calls, ghosts>>
             /\ \A d \in Docs : docs[d].status # "ABSENT" =>
                  docs'[d].part = docs[d].part /\ docs'[d].status # "ABSENT"
  BY <1>0, <1>3, EnvironmentKeeps
<1>4. CASE \E w \in Workers : Outer(w)
  BY <1>1, <1>4 DEF Others, tables, native
<1>5. CASE \E w \in Workers : Acquire(w)
  BY <1>2, <1>5 DEF Others, tables, native
<1>6. CASE Environment
  BY <1>3, <1>6 DEF calls
<1>7. CASE UNCHANGED vars
  BY <1>7 DEF vars, ghosts
<1> QED BY <1>4, <1>5, <1>6, <1>7, Split

Commits(w) == Commit(w, "commit") \/ Commit(w, "commit2")

\* How a call that holds the lease comes to stand at l.
Via(w, l) ==
  /\ l \in {"hookGet", "queued"} => FALSE
  /\ l = "idle" => rows'[w] = NoRows /\ cur'[w] = 1
  /\ l = "scan" => /\ cur'[w] = cur[w] + 1
                   /\ \/ job[w] = "process" \/ SkipPart(w) \/ ActNext(w) \/ Discard(w)
                      \/ Purge(w) \/ Commit(w, "commit2")
  /\ l = "recover" => StartRecover(w)
  /\ l = "saveFound" => \E d \in Docs : Recover(w, d)
  /\ l = "post" => MarkCreating(w)
  /\ l = "saveId" => \E d \in Docs : PostAccepted(w, d)
  /\ l = "saveFailed" => PostRefused(w)
  /\ l = "saveUnknown" => PostUncertain(w) \/ SaveId(w)
  /\ l = "hookLink" => HookGet(w)
  /\ l = "get" => StartSync(w) \/ SaveId(w) \/ SaveFound(w) \/ HookLink(w)
  /\ l = "commit" => Get(w, "get", "commit")
  /\ l = "act" => Commit(w, "commit")
  /\ l = "sending" => ActSend(w)
  /\ l = "distribute" => MarkSending(w)
  /\ l = "sendFailed" => DistributeRefused(w)
  /\ l = "sendUnknown" => DistributeUncertain(w)
  /\ l = "sent" => DistributeAccepted(w)
  /\ l = "delGet" => ActDelete(w)
  /\ l = "delPost" => DeleteGet(w)
  /\ l = "discard" => DeleteAccepted(w)
  /\ l = "purge" => Discard(w) \/ DiscardLocal(w)
  /\ l = "cancelGet" => ActCancel(w)
  /\ l = "cancelPost" => CancelGet(w)
  /\ l = "get2" => MarkSent(w) \/ ActCancel(w) \/ CancelGet(w) \/ CancelAccepted(w)
  /\ l = "commit2" => Get(w, "get2", "commit2")

LEMMA LeasedVia ==
  ASSUME BaseInv, NEW w \in Workers, Leased(w)
  PROVE  Via(w, pc'[w])
<1>0. /\ pc \in [Workers -> Outside \union Held]
      /\ cur \in [Workers -> 1..(PartCount + 1)]
      /\ rows \in [Workers -> [Parts -> PartRow]]
  BY DEF BaseInv, TypeInv, TypeOK, CallsOK
<1>1. /\ \A l : Goto(w, l) => pc'[w] = l
      /\ Leave(w) => pc'[w] = "idle" /\ rows'[w] = NoRows /\ cur'[w] = 1
      /\ NextPart(w) => pc'[w] = "scan" /\ cur'[w] = cur[w] + 1
      /\ Adopt(w) => pc'[w] = "get"
      /\ \A l, d : Hold(w, l, d) => pc'[w] = l
  BY <1>0 DEF Goto, Leave, Clear, NextPart, Adopt, Hold
<1>2. CASE Throw(w) \/ Crash(w)
  BY <1>1, <1>2 DEF Throw, Crash, Raise, Via
<1>3. CASE Return(w) \/ SkipPart(w) \/ StartSync(w)
  BY <1>1, <1>3 DEF Return, SkipPart, StartSync, Via
<1>4. CASE StartRecover(w) \/ DiscardLocal(w) \/ Purge(w)
  BY <1>1, <1>4 DEF StartRecover, DiscardLocal, Purge, Via
<1>5. CASE MarkCreating(w) \/ PostRefused(w) \/ PostUncertain(w)
  BY <1>1, <1>5 DEF MarkCreating, PostRefused, PostUncertain, Via
<1>6. CASE SaveId(w)
  BY <1>1, <1>6 DEF SaveId, Via
<1>7. CASE SaveFailure(w)
  <2>1. job[w] = "process"
    BY <1>7 DEF SaveFailure, BaseInv, JobsOK, JobsAt
  <2> QED BY <1>1, <1>7, <2>1 DEF SaveFailure, Via
<1>8. CASE SaveFound(w) \/ HookGet(w)
  BY <1>1, <1>8 DEF SaveFound, HookGet, Via
<1>9. CASE HookLink(w)
  BY <1>0, <1>9 DEF HookLink, Via
<1>10. ASSUME NEW d \in Docs, PostAccepted(w, d) \/ Recover(w, d) PROVE Via(w, pc'[w])
  BY <1>1, <1>10 DEF PostAccepted, Recover, Via
<1>11. CASE Syncing(w)
  BY <1>0, <1>1, <1>11 DEF Syncing, Get, Commit, Via
<1>12. CASE ActNext(w) \/ ActRead(w) \/ ActHook(w) \/ ActSend(w) \/ ActDelete(w) \/ ActCancel(w)
  BY <1>1, <1>12 DEF ActNext, ActRead, ActHook, ActSend, ActDelete, ActCancel, Via
<1>13. CASE \/ MarkSending(w) \/ DistributeAccepted(w) \/ DistributeRefused(w)
            \/ DistributeUncertain(w) \/ SaveSendFailure(w) \/ MarkSent(w)
  BY <1>1, <1>13 DEF MarkSending, DistributeAccepted, DistributeRefused,
     DistributeUncertain, SaveSendFailure, MarkSent, Via
<1>14. CASE \/ DeleteGet(w) \/ CancelGet(w) \/ DeleteAccepted(w) \/ CancelAccepted(w)
            \/ DeleteOrCancelFails(w) \/ Discard(w)
  BY <1>1, <1>14 DEF DeleteGet, CancelGet, DeleteAccepted, CancelAccepted,
     DeleteOrCancelFails, Discard, Via
<1> QED BY <1>2, <1>3, <1>4, <1>5, <1>6, <1>7, <1>8, <1>9, <1>10, <1>11, <1>12, <1>13,
        <1>14 DEF Leased, Walking, Creating, Commanding
\* The steps that write delivery_state.
Delivers(w) == MarkSending(w) \/ SaveSendFailure(w) \/ MarkSent(w)

\* Which step of a call writes which column, and what becomes of its own rows.
LEMMA LeasedTables ==
  ASSUME TypeInv, NEW w \in Workers, Leased(w), ~Commits(w)
  PROVE  /\ \A p \in Parts : /\ db'[p].proj = db[p].proj
                             /\ ~Delivers(w) => db'[p].del = db[p].del
         /\ announced' = announced
         /\ ~Purge(w) => uploads' = uploads
<1>0. db \in [Parts -> PartRow]
  BY DEF TypeInv, TypeOK, TablesOK
<1> DEFINE Kept == \A p \in Parts : db'[p].proj = db[p].proj /\ db'[p].del = db[p].del
<1>1. ASSUME NEW x, db' = [db EXCEPT ![cur[w]].op = x] PROVE Kept
  BY <1>0, <1>1 DEF PartRow
<1>2. ASSUME NEW d, db' = Link(db, cur[w], d) PROVE Kept
  BY <1>0, <1>2 DEF PartRow, Link
<1>3. ASSUME NEW x, db' = [db EXCEPT ![cur[w]].del = x]
      PROVE  \A p \in Parts : db'[p].proj = db[p].proj
  BY <1>0, <1>3 DEF PartRow
<1>4. db' = db => Kept
  OBVIOUS
<1>5. CASE Throw(w) \/ Crash(w)
  BY <1>4, <1>5 DEF Throw, Crash, tables
<1>6. CASE Walking(w)
  BY <1>1, <1>4, <1>6 DEF Walking, Return, SkipPart, StartSync, StartRecover,
     DiscardLocal, Purge, tables
<1>7. CASE Creating(w)
  <2>1. Kept
    BY <1>1, <1>2, <1>4, <1>7 DEF Creating, MarkCreating, PostRefused, PostUncertain,
       SaveId, SaveFailure, SaveFound, HookGet, HookLink, PostAccepted, Recover, tables
  <2>2. announced' = announced /\ uploads' = uploads
    BY <1>7 DEF Creating, MarkCreating, PostRefused, PostUncertain,
       SaveId, SaveFailure, SaveFound, HookGet, HookLink, PostAccepted, Recover, tables
  <2> QED BY <2>1, <2>2
<1>8. CASE Syncing(w)
  BY <1>4, <1>8 DEF Syncing, Get, Commits, tables
<1>9. CASE Delivers(w)
  BY <1>3, <1>9 DEF Delivers, MarkSending, SaveSendFailure, MarkSent
<1>10. CASE Commanding(w) /\ ~Delivers(w)
  BY <1>1, <1>4, <1>10 DEF Delivers, Commanding, ActNext, ActRead, ActHook, ActSend,
     ActDelete, ActCancel, DistributeAccepted, DistributeRefused, DistributeUncertain,
     DeleteGet, CancelGet, DeleteAccepted, CancelAccepted, DeleteOrCancelFails, Discard,
     tables
<1> QED BY <1>5, <1>6, <1>7, <1>8, <1>9, <1>10 DEF Leased

LEMMA LeasedGhosts ==
  ASSUME TypeInv, NEW w \in Workers, Leased(w)
  PROVE  /\ posted' \in {posted, [posted EXCEPT ![cur[w]] = @ + 1]}
         /\ pc[w] # "distribute" => posted' = posted
         /\ reviewed' = reviewed \/ (Return(w) /\ reviewed' = reviewed \union {Hash(w)})
<1>1. CASE Throw(w) \/ Crash(w)
  BY <1>1 DEF Throw, Crash, ghosts
<1>2. CASE Walking(w)
  BY <1>2 DEF Walking, Return, SkipPart, StartSync, StartRecover, DiscardLocal, Purge, ghosts
<1>3. CASE Creating(w)
  BY <1>3 DEF Creating, MarkCreating, PostRefused, PostUncertain, SaveId, SaveFailure,
     SaveFound, HookGet, HookLink, PostAccepted, Recover, ghosts
<1>4. CASE Syncing(w)
  BY <1>4 DEF Syncing, Get, Commit, ghosts
<1>5. CASE Commanding(w)
  BY <1>5 DEF Commanding, ActNext, ActRead, ActHook, ActSend, ActDelete, ActCancel,
     MarkSending, DistributeAccepted, DistributeRefused, DistributeUncertain,
     SaveSendFailure, MarkSent, DeleteGet, CancelGet, DeleteAccepted, CancelAccepted,
     DeleteOrCancelFails, Discard, ghosts
<1> QED BY <1>1, <1>2, <1>3, <1>4, <1>5 DEF Leased

LEMMA LeasedCopies ==
  ASSUME TypeInv, NEW w \in Workers, Leased(w)
  PROVE  \/ rows'[w] = NoRows
         \/ rows'[w] = rows[w]
         \/ /\ SaveId(w) \/ SaveFound(w)
            /\ rows'[w] = Link(rows[w], cur[w], found[w])
         \/ /\ HookLink(w)
            /\ rows'[w] = [rows[w] EXCEPT ![cur[w]].pid = found[w]]
<1>0. rows \in [Workers -> [Parts -> PartRow]]
  BY DEF TypeInv, TypeOK, CallsOK
<1>1. /\ \A l : Goto(w, l) => rows'[w] = rows[w]
      /\ Leave(w) => rows'[w] = NoRows
      /\ NextPart(w) => rows'[w] = rows[w]
      /\ Adopt(w) => rows'[w] = Link(rows[w], cur[w], found[w])
      /\ \A l, d : Hold(w, l, d) => rows'[w] = rows[w]
  BY <1>0 DEF Goto, Leave, Clear, NextPart, Adopt, Hold
<1>2. CASE Throw(w) \/ Crash(w)
  BY <1>1, <1>2 DEF Throw, Crash, Raise
<1>3. CASE Walking(w)
  BY <1>1, <1>3 DEF Walking, Return, SkipPart, StartSync, StartRecover, DiscardLocal, Purge
<1>4. CASE HookLink(w)
  BY <1>0, <1>4 DEF HookLink
<1>5. CASE Creating(w) /\ ~HookLink(w)
  BY <1>1, <1>5 DEF Creating, MarkCreating, PostRefused, PostUncertain, SaveId,
     SaveFailure, SaveFound, HookGet, PostAccepted, Recover
<1>6. CASE Syncing(w)
  BY <1>0, <1>1, <1>6 DEF Syncing, Get, Commit
<1>7. CASE Commanding(w)
  BY <1>1, <1>7 DEF Commanding, ActNext, ActRead, ActHook, ActSend, ActDelete, ActCancel,
     MarkSending, DistributeAccepted, DistributeRefused, DistributeUncertain,
     SaveSendFailure, MarkSent, DeleteGet, CancelGet, DeleteAccepted, CancelAccepted,
     DeleteOrCancelFails, Discard
<1> QED BY <1>2, <1>3, <1>4, <1>5, <1>6, <1>7 DEF Leased

\* Of its own rows a call changes only which document they name.
LEMMA LeasedCopied ==
  ASSUME TypeInv, NEW w \in Workers, Leased(w)
  PROVE  \/ rows'[w] = NoRows
         \/ \A p \in Parts : rows'[w][p].proj = rows[w][p].proj
                            /\ rows'[w][p].del = rows[w][p].del
<1>0. rows[w] \in [Parts -> PartRow]
  BY DEF TypeInv, TypeOK, CallsOK
<1>1. ASSUME NEW d, rows'[w] = Link(rows[w], cur[w], d), NEW p \in Parts
      PROVE  rows'[w][p].proj = rows[w][p].proj /\ rows'[w][p].del = rows[w][p].del
  BY <1>0, <1>1 DEF Link, PartRow
<1>2. ASSUME NEW d, rows'[w] = [rows[w] EXCEPT ![cur[w]].pid = d], NEW p \in Parts
      PROVE  rows'[w][p].proj = rows[w][p].proj /\ rows'[w][p].del = rows[w][p].del
  BY <1>0, <1>2 DEF PartRow
<1> QED BY <1>1, <1>2, LeasedCopies

\* A commit, field by field.
LEMMA CommitFields ==
  ASSUME TypeInv, NEW w \in Workers, Commits(w)
  PROVE  /\ pc[w] \in {"commit", "commit2"} /\ cur[w] \in Parts
         /\ seen[w].status \in NativeStatuses
         /\ db'[cur[w]].op = "linked" /\ db'[cur[w]].proj = seen[w].status
         /\ db'[cur[w]].pid = db[cur[w]].pid
         /\ db'[cur[w]].del = IF seen[w].status # "DRAFT" THEN "sent" ELSE db[cur[w]].del
         /\ \A p \in Parts \ {cur[w]} : db'[p] = db[p]
         /\ uploads' = uploads \ {cur[w]}
         /\ announced' = IF Hr /\ rows[w][cur[w]].proj # seen[w].status
                         THEN announced \union {<<cur[w], seen[w].status>>} ELSE announced
         /\ UNCHANGED <<inbox, native, ghosts>>
         /\ pc[w] = "commit" => Goto(w, "act")
         /\ pc[w] = "commit2" => NextPart(w)
<1>0. PICK from \in {"commit", "commit2"} : Commit(w, from)
  BY DEF Commits
<1>1. /\ pc[w] = from /\ cur[w] \in Parts /\ seen[w].status \in NativeStatuses
      /\ db \in [Parts -> PartRow]
  BY <1>0 DEF Commit, TypeInv, TypeOK, TablesOK, CallsSound, Sound
<1>2. /\ db'[cur[w]].op = "linked" /\ db'[cur[w]].proj = seen[w].status
      /\ db'[cur[w]].pid = db[cur[w]].pid
      /\ db'[cur[w]].del = IF seen[w].status # "DRAFT" THEN "sent" ELSE db[cur[w]].del
      /\ \A p \in Parts \ {cur[w]} : db'[p] = db[p]
  BY <1>0, <1>1 DEF Commit, PartRow
<1>3. /\ uploads' = uploads \ {cur[w]}
      /\ announced' = IF Hr /\ rows[w][cur[w]].proj # seen[w].status
                      THEN announced \union {<<cur[w], seen[w].status>>} ELSE announced
      /\ UNCHANGED <<inbox, native, ghosts>>
      /\ pc[w] = "commit" => Goto(w, "act")
      /\ pc[w] = "commit2" => NextPart(w)
  BY <1>0, <1>1 DEF Commit, Row
<1> QED BY <1>1, <1>2, <1>3
-----------------------------------------------------------------------------
(***************************************************************************)
(* The PDFs of a part that may still have to be created.                   *)
(***************************************************************************)
UploadInv ==
  /\ UploadsUntilCreated
  /\ \A w \in Workers : pc[w] = "purge" => db[cur[w]].op # "prepared"

LEMMA NextUploads == BaseInv /\ UploadInv /\ [Next]_vars => UploadInv'
<1> SUFFICES ASSUME BaseInv, UploadInv, [Next]_vars PROVE UploadInv'
  OBVIOUS
<1>0. TypeInv /\ Exclusive /\ db \in [Parts -> PartRow] /\ CallsSound
  BY DEF BaseInv, TypeInv, TypeOK, TablesOK
<1>1. ASSUME NEW w \in Workers, Leased(w) PROVE UploadInv'
  <2>0. Own(w) /\ RowsKept(w) /\ Via(w, pc'[w])
    BY <1>0, <1>1, LeasedOwns, LeasedRows, LeasedVia
  <2>1. \A v \in Workers \ {w} : pc[v] \notin Held
    BY <1>0, <2>0, Alone DEF Own
  <2>2. \A p \in Parts : p \in uploads \ uploads' => db'[p].op # "prepared"
    <3>1. CASE Commits(w)
      BY <1>0, <3>1, CommitFields
    <3>2. CASE Purge(w)
      <4>1. uploads' = uploads \ {cur[w]} /\ db[cur[w]].op # "prepared" /\ db' = db
        BY <3>2 DEF Purge, UploadInv
      <4> QED BY <4>1
    <3> QED BY <1>0, <1>1, <3>1, <3>2, LeasedTables
  <2>3. UploadsUntilCreated'
    BY <2>0, <2>2 DEF UploadInv, UploadsUntilCreated, RowsKept
  <2>4. ASSUME pc'[w] = "purge" PROVE db'[cur'[w]].op # "prepared"
    <3>1. cur[w] \in Parts /\ cur'[w] = cur[w] /\ db' = [db EXCEPT ![cur[w]].op = "discarded"]
      <4>1. Discard(w) \/ DiscardLocal(w)
        BY <2>0, <2>4 DEF Via
      <4>2. cur[w] \in Parts
        BY <1>0, <4>1 DEF Discard, DiscardLocal, Scanning, CallsSound, Sound, TypeInv, TypeOK,
           CallsOK, Parts
      <4>3. cur'[w] = cur[w]
        BY <2>0, <2>4 DEF Own, Held
      <4> QED BY <4>1, <4>2, <4>3 DEF Discard, DiscardLocal
    <3> QED BY <1>0, <3>1 DEF PartRow
  <2>5. ASSUME NEW v \in Workers, pc'[v] = "purge" PROVE db'[cur'[v]].op # "prepared"
    <3>1. v = w
      BY <2>0, <2>1, <2>5 DEF Own, Held
    <3> QED BY <2>4, <2>5, <3>1
  <2> QED BY <2>3, <2>5 DEF UploadInv
<1>2. CASE \A w \in Workers : ~Leased(w)
  <2>1. /\ UNCHANGED <<db, uploads>>
        /\ \A w \in Workers : pc'[w] = "purge" => cur'[w] = cur[w] /\ pc[w] = "purge"
    BY <1>2, Unleased DEF Held
  <2> QED BY <2>1 DEF UploadInv, UploadsUntilCreated
<1> QED BY <1>1, <1>2

\* The PDFs of a part that has not been created are there, whichever calls
\* discard, close or synchronize it and wherever they stop.
THEOREM UploadsKept == Spec => []UploadsUntilCreated
<1>1. Init => UploadInv
  BY DEF Init, UploadInv, UploadsUntilCreated
<1>2. UploadInv => UploadsUntilCreated
  BY DEF UploadInv
<1> QED BY <1>1, <1>2, Base, NextUploads, PTL DEF Spec
-----------------------------------------------------------------------------
(***************************************************************************)
(* What the portal can read, it was told: a row a call holds is one that   *)
(* was stored, so its projection was announced, too.                       *)
(***************************************************************************)
Told(table) ==
  \A p \in Parts : Hr /\ table[p].proj # "none" => <<p, table[p].proj>> \in announced

AnnouncedInv == Told(db) /\ \A w \in Workers : Told(rows[w])

LEMMA NextAnnounced == BaseInv /\ AnnouncedInv /\ [Next]_vars => AnnouncedInv'
<1> SUFFICES ASSUME BaseInv, AnnouncedInv, [Next]_vars PROVE AnnouncedInv'
  OBVIOUS
<1>0. /\ TypeInv /\ db \in [Parts -> PartRow] /\ rows \in [Workers -> [Parts -> PartRow]]
  BY DEF BaseInv, TypeInv, TypeOK, TablesOK, CallsOK
<1>1. Told(NoRows)
  BY DEF Told, NoRows, NewRow
<1>2. ASSUME NEW w \in Workers, Leased(w) PROVE AnnouncedInv'
  <2>1. announced \subseteq announced' /\ Told(db)'
    <3>1. CASE Commits(w)
      <4>1. announced \subseteq announced'
        BY <1>0, <3>1, CommitFields
      <4>2. \A p \in Parts \ {cur[w]} : db'[p] = db[p]
        BY <1>0, <3>1, CommitFields
      <4>3. cur[w] \in Parts /\ db'[cur[w]].proj = seen[w].status
        BY <1>0, <3>1, CommitFields
      <4>4. Hr => <<cur[w], seen[w].status>> \in announced'
        <5>1. CASE rows[w][cur[w]].proj = seen[w].status
          BY <1>0, <3>1, <4>1, <5>1, CommitFields DEF AnnouncedInv, Told, NativeStatuses
        <5>2. CASE rows[w][cur[w]].proj # seen[w].status
          BY <1>0, <3>1, <5>2, CommitFields
        <5> QED BY <5>1, <5>2
      <4> QED BY <4>1, <4>2, <4>3, <4>4 DEF AnnouncedInv, Told
    <3>2. CASE ~Commits(w)
      BY <1>0, <1>2, <3>2, LeasedTables DEF AnnouncedInv, Told
    <3> QED BY <3>1, <3>2
  <2>2. \A v \in Workers \ {w} : rows'[v] = rows[v]
    BY <1>0, <1>2, LeasedOwns DEF Own
  <2>3. rows'[w] = NoRows \/ \A p \in Parts : rows'[w][p].proj = rows[w][p].proj
    BY <1>0, <1>2, LeasedCopied
  <2>4. \A v \in Workers : Told(rows[v])'
    BY <1>1, <2>1, <2>2, <2>3 DEF AnnouncedInv, Told
  <2> QED BY <2>1, <2>4 DEF AnnouncedInv
<1>3. CASE \A w \in Workers : ~Leased(w)
  <2>1. UNCHANGED <<db, announced>> /\ \A w \in Workers : rows'[w] \in {rows[w], db, NoRows}
    BY <1>3, Unleased
  <2> QED BY <1>1, <2>1 DEF AnnouncedInv, Told
<1> QED BY <1>2, <1>3

\* No projection is stored without a row of the outbox that announces it, though
\* the row it is compared with may be older than the one it overwrites.
THEOREM ChangesAnnounced == Spec => []NoSilentChange
<1>1. Init => AnnouncedInv
  BY DEF Init, AnnouncedInv, Told, NewRow, NoRows
<1>2. AnnouncedInv => NoSilentChange
  BY DEF AnnouncedInv, Told, NoSilentChange
<1> QED BY <1>1, <1>2, Base, NextAnnounced, PTL DEF Spec
-----------------------------------------------------------------------------
(***************************************************************************)
(* The distribute POST goes out once.  A send decides by the row it read;  *)
(* the invariant says that this row is still the one stored until the      *)
(* intent is written, and that the intent outlives whatever the POST does. *)
(***************************************************************************)
Undecided(w) ==
  job[w] = "send" /\ \/ pc[w] \in {"get", "commit"}
                     \/ pc[w] = "act" /\ seen[w].status = "DRAFT"

SendSound(w) ==
  /\ Undecided(w) => rows[w][cur[w]].del = db[cur[w]].del
  /\ pc[w] = "sending" => db[cur[w]].del = "idle"
  /\ pc[w] = "distribute" => db[cur[w]].del = "sending"
  /\ pc[w] \in {"distribute", "sendFailed"} => posted[cur[w]] = 0

SentMarked == \A p \in Parts : posted[p] <= 1 /\ (posted[p] > 0 => db[p].del # "idle")

SendInv == SentMarked /\ \A w \in Workers : SendSound(w)

LEMMA LeasedMarked ==
  ASSUME BaseInv, SendInv, NEW w \in Workers, Leased(w)
  PROVE  SentMarked'
<1>0. /\ TypeInv /\ RowsKept(w) /\ SendSound(w)
      /\ db \in [Parts -> PartRow] /\ posted \in [Parts -> Nat]
      /\ posted' \in {posted, [posted EXCEPT ![cur[w]] = @ + 1]}
      /\ pc[w] # "distribute" => posted' = posted
  BY LeasedRows, LeasedGhosts DEF BaseInv, SendInv, TypeInv, TypeOK, TablesOK, GhostsOK
<1>1. ASSUME NEW p \in Parts \ {cur[w]}
      PROVE  posted'[p] <= 1 /\ (posted'[p] > 0 => db'[p].del # "idle")
  BY <1>0 DEF RowsKept, SendInv, SentMarked
<1>2. ASSUME cur[w] \in Parts, pc[w] = "distribute"
      PROVE  posted'[cur[w]] <= 1 /\ db'[cur[w]].del # "idle"
  <2>1. ~Commits(w) /\ ~Delivers(w)
    BY <1>2 DEF Commits, Commit, Delivers, MarkSending, SaveSendFailure, MarkSent
  <2>2. db'[cur[w]].del = "sending"
    BY <1>0, <1>2, <2>1, LeasedTables DEF SendSound
  <2> QED BY <1>0, <1>2, <2>2 DEF SendSound
<1>3. ASSUME cur[w] \in Parts, pc[w] # "distribute"
      PROVE  db'[cur[w]].del = "idle" => db[cur[w]].del = "idle" \/ posted[cur[w]] = 0
  <2>1. CASE Commits(w)
    BY <1>0, <2>1, CommitFields
  <2>2. CASE Delivers(w)
    BY <1>0, <1>3, <2>2 DEF Delivers, MarkSending, SaveSendFailure, MarkSent, SendSound,
       PartRow
  <2>3. CASE ~Commits(w) /\ ~Delivers(w)
    BY <1>0, <1>3, <2>3, LeasedTables
  <2> QED BY <2>1, <2>2, <2>3
<1>4. ASSUME cur[w] \in Parts, pc[w] # "distribute"
      PROVE  posted'[cur[w]] <= 1 /\ (posted'[cur[w]] > 0 => db'[cur[w]].del # "idle")
  BY <1>0, <1>3, <1>4 DEF SendInv, SentMarked
<1> QED BY <1>1, <1>2, <1>4 DEF SentMarked

LEMMA LeasedSend ==
  ASSUME BaseInv, SendInv, NEW w \in Workers, Leased(w)
  PROVE  SendSound(w)'
<1>0. /\ TypeInv /\ Own(w) /\ Via(w, pc'[w]) /\ SendSound(w)
      /\ db \in [Parts -> PartRow] /\ posted \in [Parts -> Nat]
      /\ pc[w] # "scan" => cur[w] \in Parts
      /\ pc[w] # "distribute" => posted' = posted
  BY LeasedOwns, LeasedVia, LeasedGhosts DEF BaseInv, SendInv, TypeInv, TypeOK, TablesOK,
     GhostsOK, CallsSound, Sound
<1>1. ASSUME Undecided(w)' PROVE rows'[w][cur'[w]].del = db'[cur'[w]].del
  <2>0. job[w] = "send" /\ cur'[w] = cur[w]
    BY <1>0, <1>1 DEF Undecided, Own, Held
  <2>1. CASE pc'[w] = "get"
    <3>1. StartSync(w)
      BY <1>0, <2>0, <2>1 DEF Via, SaveId, SaveFound, HookLink, BaseInv, JobsOK, JobsAt
    <3>2. rows[w][cur[w]] = db[cur[w]]
      BY <2>0, <3>1 DEF StartSync, Scanning, BaseInv, RowsAhead, Ahead, Held, Parts, TypeInv,
         TypeOK, CallsOK
    <3> QED BY <2>0, <3>1, <3>2 DEF StartSync, Goto, tables
  <2>2. CASE pc'[w] = "commit"
    <3>1. Get(w, "get", "commit")
      BY <1>0, <2>2 DEF Via
    <3> QED BY <1>0, <2>0, <3>1 DEF Get, tables, SendSound, Undecided
  <2>3. CASE pc'[w] = "act"
    <3>1. Commit(w, "commit")
      BY <1>0, <2>3 DEF Via
    <3>2. /\ pc[w] = "commit" /\ Goto(w, "act")
      BY <3>1 DEF Commit
    <3>3. seen[w].status = "DRAFT" /\ rows' = rows
      BY <1>1, <2>3, <3>2 DEF Undecided, Goto
    <3>4. db'[cur[w]].del = db[cur[w]].del
      BY <1>0, <3>1, <3>3, CommitFields DEF Commits
    <3> QED BY <1>0, <2>0, <3>2, <3>3, <3>4 DEF SendSound, Undecided
  <2> QED BY <1>1, <2>1, <2>2, <2>3 DEF Undecided
<1>2. ASSUME pc'[w] = "sending" PROVE db'[cur'[w]].del = "idle"
  <2>1. ActSend(w)
    BY <1>0, <1>2 DEF Via
  <2> QED BY <1>0, <2>1 DEF ActSend, Acting, Goto, tables, Row, SendSound, Undecided
<1>3. ASSUME pc'[w] = "distribute"
      PROVE  db'[cur'[w]].del = "sending" /\ posted'[cur'[w]] = 0
  <2>1. MarkSending(w)
    BY <1>0, <1>3 DEF Via
  <2>2. /\ pc[w] = "sending" /\ cur[w] \in Parts /\ cur' = cur /\ posted' = posted
        /\ db' = [db EXCEPT ![cur[w]].del = "sending"]
    BY <1>0, <2>1 DEF MarkSending, Goto
  <2>3. posted[cur[w]] = 0
    BY <1>0, <2>2 DEF SendSound, SendInv, SentMarked
  <2> QED BY <1>0, <2>2, <2>3 DEF PartRow
<1>4. ASSUME pc'[w] = "sendFailed" PROVE posted'[cur'[w]] = 0
  <2>1. DistributeRefused(w)
    BY <1>0, <1>4 DEF Via
  <2> QED BY <1>0, <2>1 DEF DistributeRefused, Goto, ghosts, SendSound
<1> QED BY <1>1, <1>2, <1>3, <1>4 DEF SendSound

LEMMA NextSend == BaseInv /\ SendInv /\ [Next]_vars => SendInv'
<1> SUFFICES ASSUME BaseInv, SendInv, [Next]_vars PROVE SendInv'
  OBVIOUS
<1>1. ASSUME NEW w \in Workers, Leased(w) PROVE SendInv'
  <2>1. \A v \in Workers \ {w} : pc'[v] \notin Held
    BY <1>1, LeasedOwns, Alone DEF BaseInv, Own
  <2>2. \A v \in Workers \ {w} : SendSound(v)'
    BY <2>1 DEF SendSound, Undecided, Held
  <2> QED BY <1>1, <2>2, LeasedSend, LeasedMarked DEF SendInv
<1>2. CASE \A w \in Workers : ~Leased(w)
  <2>1. UNCHANGED <<db, posted>>
    BY <1>2, Unleased DEF ghosts
  <2>2. ASSUME NEW w \in Workers PROVE SendSound(w)'
    <3>1. CASE pc'[w] \in Held /\ UNCHANGED <<pc[w], rows[w]>>
      <4>1. UNCHANGED <<job[w], cur[w], seen[w]>>
        BY <1>2, <3>1, Unleased
      <4> QED BY <2>1, <3>1, <4>1 DEF SendInv, SendSound, Undecided
    <3>2. CASE pc'[w] \in Held /\ ~UNCHANGED <<pc[w], rows[w]>>
      <4>1. /\ pc'[w] \in {"get", "hookGet", "scan"} /\ UNCHANGED job[w]
            /\ pc'[w] = "scan" <=> job[w] \notin {"read", "hook"}
        BY <1>2, <3>2, Unleased
      <4> QED BY <4>1 DEF SendSound, Undecided
    <3>3. CASE pc'[w] \notin Held
      BY <3>3 DEF SendSound, Undecided, Held
    <3> QED BY <3>1, <3>2, <3>3
  <2> QED BY <2>1, <2>2 DEF SendInv, SentMarked
<1> QED BY <1>1, <1>2

\* A part's signers are mailed by one distribute at most, whichever calls send,
\* synchronize or close it, whatever is lost and wherever they stop.
THEOREM SentOnce == Spec => []AtMostOneSend
<1>1. Init => SendInv
  BY DEF Init, SendInv, SentMarked, SendSound, Undecided
<1>2. SendInv => AtMostOneSend
  BY DEF SendInv, SentMarked, AtMostOneSend
<1> QED BY <1>1, <1>2, Base, NextSend, PTL DEF Spec
-----------------------------------------------------------------------------
(***************************************************************************)
(* operation_state and provider_id agree.  A part's id is only ever        *)
(* replaced by one of its own documents and never taken away, so that a    *)
(* stale row that has an id shows that the stored one has one, too.        *)
(***************************************************************************)
Named(d, p) == Stored(d) /\ docs[d].part = p
Names(table) == \A p \in Parts : table[p].pid # NoDoc => Named(table[p].pid, p)

StateAgrees(p) ==
  /\ db[p].pid # NoDoc => db[p].op \in {"linked", "discarded"}
  /\ db[p].op = "linked" => db[p].pid # NoDoc

HoldsFound(w) ==
  \/ pc[w] \in {"saveId", "saveFound", "hookGet", "hookLink"}
  \/ pc[w] = "queued" /\ job[w] = "hook"

LinkInv ==
  /\ Names(db) /\ \A p \in Parts : StateAgrees(p)
  /\ \A w \in Workers : /\ Names(rows[w])
                        /\ \A p \in Parts : rows[w][p].pid # NoDoc => db[p].pid # NoDoc
                        /\ HoldsFound(w) => Named(found[w], cur[w])

LEMMA DocsStay ==
  ASSUME BaseInv, [Next]_vars, NEW d, NEW p, Named(d, p)
  PROVE  Named(d, p)'
<1>0. TypeInv /\ docs \in [Docs -> Document]
  BY DEF BaseInv, TypeInv, TypeOK, NativeOK
<1>1. ASSUME NEW w \in Workers, Leased(w) PROVE Named(d, p)'
  <2>1. CASE ~PostStep(w)
    BY <1>0, <1>1, <2>1, LeasedDocs DEF Named, Stored, DocsKept
  <2>2. CASE \E e \in Docs : PostAccepted(w, e)
    BY <1>0, <2>2 DEF PostAccepted, NewDocument, Named, Stored
  <2>3. CASE MarkCreating(w) \/ PostUncertain(w) \/ Crash(w)
    BY <2>3 DEF MarkCreating, PostUncertain, Crash, Named, Stored, native
  <2> QED BY <2>1, <2>2, <2>3 DEF PostStep
<1>2. CASE \A w \in Workers : ~Leased(w)
  BY <1>2, Unleased DEF Named, Stored
<1> QED BY <1>1, <1>2

\* What a call makes of the row it is at.
LEMMA LeasedOps ==
  ASSUME TypeInv, NEW w \in Workers, Leased(w), cur[w] \in Parts
  PROVE  LET p == cur[w]
         IN  \/ db'[p].op = db[p].op /\ db'[p].pid = db[p].pid
             \/ /\ SaveId(w) \/ SaveFound(w) \/ HookLink(w)
                /\ db'[p].op = "linked" /\ db'[p].pid = found[w]
             \/ /\ MarkCreating(w)
                /\ db[p].op = "prepared" /\ db'[p].op = "creating" /\ db'[p].pid = db[p].pid
             \/ /\ SaveFailure(w) /\ db[p].pid = NoDoc /\ db'[p].pid = NoDoc
                /\ db'[p].op = IF pc[w] = "saveFailed" THEN "failed" ELSE "unknown"
             \/ /\ DiscardLocal(w) \/ Discard(w)
                /\ db'[p].op = "discarded" /\ db'[p].pid = db[p].pid
             \/ /\ Commits(w)
                /\ db'[p].op = "linked" /\ db'[p].pid = db[p].pid
<1> DEFINE p == cur[w]
           Same == db'[p].op = db[p].op /\ db'[p].pid = db[p].pid
<1>0. db \in [Parts -> PartRow]
  BY DEF TypeInv, TypeOK, TablesOK
<1>1. db' = db => Same
  OBVIOUS
<1>2. ASSUME NEW d, db' = Link(db, p, d)
      PROVE  db'[p].op = "linked" /\ db'[p].pid = d
  BY <1>0, <1>2 DEF Link, PartRow
<1>3. ASSUME NEW x, db' = [db EXCEPT ![p].op = x]
      PROVE  db'[p].op = x /\ db'[p].pid = db[p].pid
  BY <1>0, <1>3 DEF PartRow
<1>4. ASSUME NEW x, db' = [db EXCEPT ![p].del = x] PROVE Same
  BY <1>0, <1>4 DEF PartRow
<1>5. CASE Throw(w) \/ Crash(w)
  BY <1>1, <1>5 DEF Throw, Crash, tables
<1>6. CASE Walking(w)
  BY <1>1, <1>3, <1>6 DEF Walking, Return, SkipPart, StartSync, StartRecover,
     DiscardLocal, Purge, tables
<1>7. CASE MarkCreating(w)
  BY <1>1, <1>3, <1>7 DEF MarkCreating
<1>8. CASE SaveId(w) \/ SaveFound(w) \/ HookLink(w)
  BY <1>1, <1>2, <1>8 DEF SaveId, SaveFound, HookLink
<1>9. CASE SaveFailure(w)
  BY <1>1, <1>3, <1>9 DEF SaveFailure
<1>10. CASE \/ PostRefused(w) \/ PostUncertain(w) \/ HookGet(w)
            \/ \E d \in Docs : PostAccepted(w, d) \/ Recover(w, d)
  BY <1>1, <1>10 DEF PostRefused, PostUncertain, HookGet, PostAccepted, Recover, tables
<1>11. CASE Syncing(w)
  BY <1>0, <1>1, <1>11, CommitFields DEF Syncing, Get, Commits, tables
<1>12. CASE Delivers(w)
  BY <1>4, <1>12 DEF Delivers, MarkSending, SaveSendFailure, MarkSent
<1>13. CASE Commanding(w) /\ ~Delivers(w)
  BY <1>1, <1>3, <1>13 DEF Delivers, Commanding, ActNext, ActRead, ActHook, ActSend,
     ActDelete, ActCancel, DistributeAccepted, DistributeRefused, DistributeUncertain,
     DeleteGet, CancelGet, DeleteAccepted, CancelAccepted, DeleteOrCancelFails, Discard,
     tables
<1> QED BY <1>5, <1>6, <1>7, <1>8, <1>9, <1>10, <1>11, <1>12, <1>13 DEF Leased, Creating

\* A call that learns of a document holds one of its part's.
LEMMA FoundNamed ==
  ASSUME BaseInv, LinkInv, [Next]_vars, NEW w \in Workers, HoldsFound(w)'
  PROVE  Named(found[w], cur[w])'
<1>0. /\ TypeInv /\ docs \in [Docs -> Document] /\ CallsSound
      /\ pc \in [Workers -> Outside \union Held]
      /\ found \in [Workers -> Docs \union {NoDoc}]
      /\ job \in [Workers -> JobKinds \union {"none"}]
      /\ cur \in [Workers -> 1..(PartCount + 1)]
  BY DEF BaseInv, TypeInv, TypeOK, NativeOK, CallsOK
<1>1. ASSUME UNCHANGED <<found[w], cur[w]>>, HoldsFound(w) PROVE Named(found[w], cur[w])'
  BY <1>1, DocsStay DEF LinkInv, Named, Stored
<1>2. ASSUME Leased(w) PROVE Named(found[w], cur[w])'
  <2>0. Own(w) /\ Via(w, pc'[w])
    BY <1>0, <1>2, LeasedOwns, LeasedVia
  <2>1. CASE pc'[w] = "saveId"
    <3>1. PICK d \in Docs : PostAccepted(w, d)
      BY <2>0, <2>1 DEF Via
    <3>2. found'[w] = d /\ cur'[w] = cur[w] /\ NewDocument(d, cur[w])
      BY <1>0, <3>1 DEF PostAccepted, Hold
    <3>3. docs'[d].part = cur[w] /\ docs'[d].status = "DRAFT"
      BY <1>0, <3>2 DEF NewDocument
    <3> QED BY <3>2, <3>3 DEF Named, Stored
  <2>2. CASE pc'[w] = "saveFound"
    <3>1. PICK d \in Docs : Recover(w, d)
      BY <2>0, <2>2 DEF Via
    <3>2. found'[w] = d /\ cur'[w] = cur[w] /\ d \in Matches(cur[w]) /\ docs' = docs
      BY <1>0, <3>1 DEF Recover, Hold, native
    <3> QED BY <3>2 DEF Named, Stored, Matches, Live, NativeStatuses
  <2>3. CASE pc'[w] = "hookLink"
    <3>1. HookGet(w)
      BY <2>0, <2>3 DEF Via
    <3> QED BY <1>1, <3>1 DEF HookGet, Goto, HoldsFound
  <2>4. pc'[w] \notin {"hookGet", "queued"}
    BY <2>0 DEF Via
  <2> QED BY <2>1, <2>2, <2>3, <2>4 DEF HoldsFound
<1>3. ASSUME NEW v \in Workers, v # w, Leased(v) \/ Outer(v) PROVE Named(found[w], cur[w])'
  <2>1. CASE Leased(v)
    <3>1. UNCHANGED <<pc[w], job[w], cur[w]>>
      BY <1>0, <1>3, <2>1, LeasedOwns DEF Own
    <3>2. UNCHANGED found[w]
      <4>1. v # w
        BY <1>3
      <4>2. Leave(v) \/ NextPart(v) \/ Adopt(v) \/ (\E l : Goto(v, l))
              \/ (\E l, d : Hold(v, l, d)) \/ UNCHANGED found => UNCHANGED found[w]
        BY <1>0, <4>1 DEF Leave, Clear, NextPart, Adopt, Goto, Hold
      <4>3. CASE Throw(v) \/ Crash(v) \/ Walking(v)
        BY <4>2, <4>3 DEF Throw, Crash, Raise, Walking, Return, SkipPart, StartSync,
           StartRecover, DiscardLocal, Purge
      <4>4. CASE Creating(v)
        BY <4>2, <4>4 DEF Creating, MarkCreating, PostRefused, PostUncertain, SaveId,
           SaveFailure, SaveFound, HookGet, HookLink, PostAccepted, Recover
      <4>5. CASE Syncing(v)
        BY <4>2, <4>5 DEF Syncing, Get, Commit
      <4>6. CASE Commanding(v)
        BY <4>2, <4>6 DEF Commanding, ActNext, ActRead, ActHook, ActSend, ActDelete,
           ActCancel, MarkSending, DistributeAccepted, DistributeRefused,
           DistributeUncertain, SaveSendFailure, MarkSent, DeleteGet, CancelGet,
           DeleteAccepted, CancelAccepted, DeleteOrCancelFails, Discard
      <4> QED BY <2>1, <4>3, <4>4, <4>5, <4>6 DEF Leased
    <3> QED BY <1>1, <3>1, <3>2 DEF HoldsFound
  <2>2. CASE Outer(v)
    <3>1. UNCHANGED <<pc[w], job[w], cur[w], found[w]>>
      BY <1>0, <1>3, <2>2, OuterKeeps DEF Others
    <3> QED BY <1>1, <3>1 DEF HoldsFound
  <2> QED BY <1>3, <2>1, <2>2
<1>4. ASSUME Outer(w) PROVE Named(found[w], cur[w])'
  <2>1. PICK d \in Docs : BeginHook(w, d)
    BY <1>0, <1>4 DEF Outer, Starting, Begin, BeginRead, Snapshot, Busy, Clear, HoldsFound
  <2>2. found'[w] = d /\ cur'[w] = docs[d].part /\ d \in inbox /\ docs' = docs
    BY <1>0, <2>1 DEF BeginHook, Snapshot, native
  <2> QED BY <1>0, <2>2 DEF Named, Stored, TypeInv, DocsSound
<1>5. ASSUME NEW v \in Workers, Acquire(v) PROVE Named(found[w], cur[w])'
  <2>1. UNCHANGED <<cur, found, job>> /\ (v = w => pc[w] = "queued" /\ pc'[w] # "queued")
        /\ (v # w => UNCHANGED pc[w]) /\ (v = w /\ pc'[w] = "hookGet" => job[w] = "hook")
        /\ (v = w => pc'[w] \in {"get", "hookGet", "scan"})
    BY <1>0, <1>5, AcquireKeeps DEF Others, BaseInv
  <2> QED BY <1>1, <2>1 DEF HoldsFound
<1>6. CASE Environment \/ UNCHANGED vars
  <2>1. UNCHANGED calls
    BY <1>0, <1>6, EnvironmentKeeps DEF vars, calls
  <2> QED BY <1>1, <2>1 DEF HoldsFound, calls
<1> QED BY <1>2, <1>3, <1>4, <1>5, <1>6, Split

LEMMA NextLink == BaseInv /\ LinkInv /\ [Next]_vars => LinkInv'
<1> SUFFICES ASSUME BaseInv, LinkInv, [Next]_vars PROVE LinkInv'
  OBVIOUS
<1>0. /\ TypeInv /\ db \in [Parts -> PartRow] /\ rows \in [Workers -> [Parts -> PartRow]]
      /\ found \in [Workers -> Docs \union {NoDoc}]
  BY DEF BaseInv, TypeInv, TypeOK, TablesOK, CallsOK
<1>1. \A w \in Workers : HoldsFound(w)' => Named(found[w], cur[w])'
  BY FoundNamed
<1>2. \A d, p : Named(d, p) => Named(d, p)'
  BY DocsStay
<1>3. ASSUME NEW w \in Workers, Leased(w)
      PROVE  /\ Names(db)' /\ \A p \in Parts : StateAgrees(p)'
             /\ \A v \in Workers : /\ Names(rows[v])'
                  /\ \A p \in Parts : rows'[v][p].pid # NoDoc => db'[p].pid # NoDoc
  <2>0. Own(w) /\ RowsKept(w)
    BY <1>0, <1>3, LeasedOwns, LeasedRows
  <2> DEFINE Links == SaveId(w) \/ SaveFound(w) \/ HookLink(w)
  <2>1. Links => /\ cur[w] \in Parts /\ found[w] # NoDoc /\ Named(found[w], cur[w])
    BY <1>0 DEF SaveId, SaveFound, HookLink, LinkInv, HoldsFound, Named, Stored, TypeInv,
       CallsSound, Sound
  <2>2. ASSUME NEW p \in Parts
        PROVE  /\ db'[p].pid = db[p].pid \/ (Links /\ p = cur[w] /\ db'[p].pid = found[w])
               /\ StateAgrees(p)'
    <3>1. CASE p # cur[w]
      BY <2>0, <3>1 DEF RowsKept, LinkInv, StateAgrees
    <3>2. CASE p = cur[w]
      <4>1. Commits(w) => db[p].pid # NoDoc
        BY <1>0, <3>2 DEF Commits, Commit, LinkInv, TypeInv, CallsSound, Sound, OnDocument
      <4> QED BY <1>0, <1>3, <2>1, <3>2, <4>1, LeasedOps DEF LinkInv, StateAgrees
    <3> QED BY <3>1, <3>2
  <2>3. Names(db)'
    BY <1>2, <2>1, <2>2 DEF LinkInv, Names, Named, Stored
  <2>4. ASSUME NEW v \in Workers, NEW p \in Parts, NEW d, d = rows'[v][p].pid, d # NoDoc
        PROVE  Named(d, p)' /\ db'[p].pid # NoDoc
    <3>1. CASE d = rows[v][p].pid
      <4>1. Named(d, p) /\ db[p].pid # NoDoc
        BY <2>4, <3>1 DEF LinkInv, Names
      <4>2. Named(d, p)'
        BY <1>2, <4>1
      <4>3. db'[p].pid # NoDoc
        BY <2>1, <2>2, <4>1
      <4> QED BY <4>2, <4>3
    <3>2. CASE v # w
      BY <2>0, <2>4, <3>1, <3>2 DEF Own
    <3>3. ASSUME v = w, Links, p = cur[w], d = found[w], rows'[w] # rows[w], rows'[w] # NoRows
          PROVE  Named(d, p)' /\ db'[p].pid # NoDoc
      <4>1. Named(d, p)'
        BY <1>2, <2>1, <3>3
      <4>2. CASE SaveId(w)
        <5>1. db' = Link(db, p, d)
          BY <3>3, <4>2 DEF SaveId, Goto
        <5> QED BY <1>0, <2>4, <4>1, <5>1 DEF Link, PartRow
      <4>3. CASE SaveFound(w)
        <5>1. CASE db[p].pid = NoDoc
          <6>1. db' = Link(db, p, d)
            BY <3>3, <4>3, <5>1 DEF SaveFound
          <6> QED BY <1>0, <2>4, <4>1, <6>1 DEF Link, PartRow
        <5>2. CASE db[p].pid # NoDoc
          BY <3>3, <4>1, <4>3, <5>2 DEF SaveFound
        <5> QED BY <5>1, <5>2
      <4>4. CASE HookLink(w)
        <5>1. db' = Link(db, p, d)
          BY <3>3, <4>4 DEF HookLink
        <5> QED BY <1>0, <2>4, <4>1, <5>1 DEF Link, PartRow
      <4> QED BY <3>3, <4>1, <4>2, <4>3, <4>4
    <3>4. CASE v = w
      <4>1. rows'[w] # NoRows
        BY <2>4, <3>4 DEF NoRows, NewRow
      <4>2. CASE rows'[w] = Link(rows[w], cur[w], found[w]) /\ Links
        <5>1. d = rows[w][p].pid \/ (p = cur[w] /\ d = found[w])
          BY <1>0, <2>4, <3>4, <4>2 DEF Link, PartRow
        <5> QED BY <2>4, <3>1, <3>3, <3>4, <4>1, <4>2, <5>1
      <4>3. CASE rows'[w] = [rows[w] EXCEPT ![cur[w]].pid = found[w]] /\ Links
        <5>1. d = rows[w][p].pid \/ (p = cur[w] /\ d = found[w])
          BY <1>0, <2>4, <3>4, <4>3 DEF PartRow
        <5> QED BY <2>4, <3>1, <3>3, <3>4, <4>1, <4>3, <5>1
      <4>4. CASE rows'[w] = rows[w]
        BY <2>4, <3>1, <3>4, <4>4
      <4> QED BY <1>0, <1>3, <4>1, <4>2, <4>3, <4>4, LeasedCopies
    <3> QED BY <3>2, <3>4
  <2>5. ASSUME NEW v \in Workers
        PROVE  Names(rows[v])' /\ \A p \in Parts : rows'[v][p].pid # NoDoc => db'[p].pid # NoDoc
    BY <2>4 DEF Names, Named, Stored
  <2> QED BY <2>2, <2>3, <2>5
<1>4. CASE \A w \in Workers : ~Leased(w)
  <2>1. UNCHANGED db /\ \A w \in Workers : rows'[w] \in {rows[w], db, NoRows}
    BY <1>4, Unleased
  <2>3. Names(db)' /\ \A p \in Parts : StateAgrees(p)'
    BY <1>2, <2>1 DEF LinkInv, StateAgrees, Names, Named, Stored
  <2>4. ASSUME NEW w \in Workers
        PROVE  Names(rows[w])' /\ \A p \in Parts : rows'[w][p].pid # NoDoc => db'[p].pid # NoDoc
    <3>1. CASE rows'[w] = NoRows
      BY <3>1 DEF NoRows, NewRow, Names
    <3>2. CASE rows'[w] = rows[w] \/ rows'[w] = db
      BY <1>2, <2>1, <3>2 DEF LinkInv, Names, Named, Stored
    <3> QED BY <2>1, <3>1, <3>2
  <2> QED BY <1>1, <2>3, <2>4 DEF LinkInv
<1> QED BY <1>1, <1>3, <1>4 DEF LinkInv

LEMMA InitLink == Init => LinkInv
  BY DEF Init, LinkInv, Names, StateAgrees, HoldsFound, NewRow, NoRows

LEMMA Linked == Spec => []LinkInv
  BY InitLink, Base, NextLink, PTL DEF Spec

\* operation_state and provider_id agree, and the id is one of the part's own
\* documents, whatever calls fail between a document and its id and whichever
\* webhooks arrive.
THEOREM LinksConsistent == Spec => []LinkConsistent
<1>1. LinkInv => LinkConsistent
  BY DEF LinkInv, Names, Named, StateAgrees, LinkConsistent
<1> QED BY <1>1, Linked, PTL
-----------------------------------------------------------------------------
(***************************************************************************)
(* No document behind a part that nothing looks for, and no way back from  *)
(* 'discarded'.  A part may be 'prepared' or 'failed' only while nothing   *)
(* of it exists or is under way, and 'discarded' only when nothing of it   *)
(* can be read any more; so whoever holds an answer of Documenso about a   *)
(* part knows that the part is not discarded.                              *)
(***************************************************************************)
Gone(p) == p \notin lateCreate /\ \A d \in Docs : docs[d].part = p => ~Live(d)

\* Where a call has learned, under the lease, that its part has a document or
\* that it may have one.
Informed == {"saveId", "saveFound", "saveFailed", "saveUnknown", "hookLink", "commit",
             "commit2"}

StrandSound(w) ==
  /\ pc[w] = "post" => db[cur[w]].op = "creating"
  /\ pc[w] = "saveFailed" => Fresh(cur[w])
  /\ pc[w] = "discard" => Gone(cur[w])
  /\ pc[w] \in Informed => db[cur[w]].op # "discarded"

RowsGone ==
  \A p \in Parts : /\ db[p].op = "failed" => Fresh(p)
                   /\ db[p].op = "discarded" => Gone(p)

StrandInv == RowsGone /\ \A w \in Workers : StrandSound(w)

\* The steps of a call that change a document.
Applies(w) ==
  \/ \E d \in Docs : PostAccepted(w, d)
  \/ DistributeAccepted(w) \/ DeleteAccepted(w) \/ CancelAccepted(w)

LEMMA LeasedUntouched ==
  ASSUME NEW w \in Workers, Leased(w), ~Applies(w)
  PROVE  UNCHANGED docs
<1>1. CASE Throw(w) \/ Crash(w) \/ Walking(w) \/ Syncing(w)
  BY <1>1 DEF Throw, Crash, Walking, Return, SkipPart, StartSync, StartRecover,
     DiscardLocal, Purge, Syncing, Get, Commit, native
<1>2. CASE Creating(w)
  BY <1>2 DEF Applies, Creating, MarkCreating, PostRefused, PostUncertain, SaveId,
     SaveFailure, SaveFound, HookGet, HookLink, Recover, native
<1>3. CASE Commanding(w)
  BY <1>3 DEF Applies, Commanding, ActNext, ActRead, ActHook, ActSend, ActDelete, ActCancel,
     MarkSending, DistributeRefused, DistributeUncertain, SaveSendFailure, MarkSent,
     DeleteGet, CancelGet, DeleteOrCancelFails, Discard, native
<1> QED BY <1>1, <1>2, <1>3 DEF Leased

\* Only a create under way brings a document of the part about.
LEMMA LeasedFresh ==
  ASSUME BaseInv, NEW w \in Workers, Leased(w), NEW p, p # cur[w] \/ pc[w] # "post"
  PROVE  /\ Fresh(p) => Fresh(p)'
         /\ Gone(p) => Gone(p)'
<1>0. TypeInv /\ docs \in [Docs -> Document]
  BY DEF BaseInv, TypeInv, TypeOK, NativeOK
<1>1. CASE MarkCreating(w)
  BY <1>1 DEF MarkCreating, Fresh, Gone, Live, native
<1>2. CASE PostUncertain(w) \/ (Crash(w) /\ pc[w] = "post")
  BY <1>2 DEF PostUncertain, Crash, Fresh, Gone, Live
<1>3. ASSUME NEW d \in Docs, PostAccepted(w, d) 
      PROVE  (Fresh(p) => Fresh(p)') /\ (Gone(p) => Gone(p)')
  BY <1>0, <1>3 DEF PostAccepted, NewDocument, Fresh, Gone, Live
<1>4. CASE ~PostStep(w)
  <2>1. DocsKept /\ lateCreate' = lateCreate
    BY <1>0, <1>4, LeasedDocs
  <2>2. \A d \in Docs : Live(d)' => Live(d)
    <3>1. CASE DistributeAccepted(w) \/ DeleteAccepted(w) \/ CancelAccepted(w)
      <4>1. PICK s \in {"PENDING", "DELETED", "CANCELLED"} :
              SetStatus(Row(w).pid, s)
              /\ (s # "DELETED" => docs[Row(w).pid].status \in NativeStatuses)
        BY <3>1 DEF DistributeAccepted, DeleteAccepted, CancelAccepted, NativeStatuses
      <4> QED BY <1>0, <4>1 DEF SetStatus, Live, NativeStatuses, Document
    <3>2. CASE ~(DistributeAccepted(w) \/ DeleteAccepted(w) \/ CancelAccepted(w))
      <4>1. UNCHANGED docs
        BY <1>4, <3>2, LeasedUntouched DEF Applies, PostStep
      <4> QED BY <4>1 DEF Live
    <3> QED BY <3>1, <3>2
  <2> QED BY <2>1, <2>2 DEF DocsKept, Fresh, Gone
<1> QED BY <1>1, <1>2, <1>3, <1>4 DEF PostStep

LEMMA UnleasedFresh ==
  ASSUME BaseInv, [Next]_vars, \A w \in Workers : ~Leased(w), "duplicate" \notin Moves, NEW p
  PROVE  /\ Fresh(p) => Fresh(p)'
         /\ Gone(p) => Gone(p)'
<1>0. /\ TypeInv /\ docs \in [Docs -> Document] /\ Exclusive
      /\ lateDoc \subseteq {"distribute", "delPost", "cancelPost"} \X Docs
  BY DEF BaseInv, TypeInv, TypeOK, NativeOK
<1> DEFINE Goal == (Fresh(p) => Fresh(p)') /\ (Gone(p) => Gone(p)')
<1>1. UNCHANGED <<docs, lateCreate>> => Goal
  BY DEF Fresh, Gone, Live
<1>2. CASE \E w \in Workers : Outer(w) \/ Acquire(w)
  BY <1>0, <1>1, <1>2, OuterKeeps, AcquireKeeps DEF native
<1>3. ASSUME NEW d \in Docs, NEW s, SetStatus(d, s), UNCHANGED lateCreate,
             s \in NativeStatuses => Live(d)
      PROVE  Goal
  BY <1>0, <1>3 DEF SetStatus, Fresh, Gone, Live, Document
<1>4. ASSUME NEW q \in lateCreate, LateCreateLost(q) \/ \E d \in Docs : LateCreateArrives(q, d)
      PROVE  Goal
  BY <1>0, <1>4 DEF LateCreateLost, LateCreateArrives, NewDocument, Fresh, Gone, Live
<1>5. ASSUME NEW m \in lateDoc, LateArrives(m) PROVE Goal
  <2>1. m[2] \in Docs
    BY <1>0
  <2>2. Effect(m[1], m[2]) \in NativeStatuses => Live(m[2])
    BY <2>1 DEF Effect, Live, NativeStatuses
  <2> QED BY <1>1, <1>3, <1>5, <2>1, <2>2 DEF LateArrives
<1>6. ASSUME NEW d \in Docs, ReceiveWebhook(d) \/ IgnoreHook(d) PROVE Goal
  BY <1>1, <1>6 DEF ReceiveWebhook, IgnoreHook, native
<1>7. ASSUME NEW d \in Docs, NativeMove(d) PROVE Goal
  <2>1. CASE \E k, to : \E from \in NativeStatuses : Moved(d, k, from, to)
    BY <1>3, <1>7, <2>1 DEF NativeMove, Moved, Live
  <2>2. CASE \E k, e : Edited(d, k, e)
    BY <1>0, <1>7, <2>2 DEF NativeMove, Edited, Fresh, Gone, Live, Document
  <2> QED BY <1>7, <2>1, <2>2 DEF NativeMove, NativeStatuses
<1>8. CASE UNCHANGED vars
  BY <1>1, <1>8 DEF vars
<1> QED BY <1>2, <1>4, <1>5, <1>6, <1>7, <1>8, Split DEF Environment, NativeDuplicate

LEMMA LeasedStrand ==
  ASSUME BaseInv, OnceInv, LinkInv, StrandInv, [Next]_vars, NEW w \in Workers, Leased(w)
  PROVE  StrandSound(w)'
<1>0. /\ TypeInv /\ Own(w) /\ Via(w, pc'[w]) /\ StrandSound(w)
      /\ db \in [Parts -> PartRow] /\ docs \in [Docs -> Document]
      /\ pc[w] # "scan" => cur[w] \in Parts
      /\ pc'[w] \in Held \ {"scan"} => cur'[w] = cur[w]
  BY LeasedOwns, LeasedVia DEF BaseInv, StrandInv, TypeInv, TypeOK, TablesOK, NativeOK,
     CallsSound, Sound, Own
<1>1. ASSUME pc'[w] = "post" PROVE db'[cur'[w]].op = "creating"
  <2>1. MarkCreating(w) /\ cur'[w] = cur[w]
    BY <1>0, <1>1 DEF Via, Held
  <2>2. cur[w] \in Parts /\ rows[w][cur[w]].op = "prepared" /\ pc[w] = "scan"
        /\ job[w] = "process"
    BY <2>1 DEF MarkCreating, Scanning, Row, Parts, TypeInv, TypeOK, CallsOK, BaseInv
  <2>3. db[cur[w]].op = "prepared"
    BY <2>2 DEF BaseInv, RowsAhead, Ahead, Held
  <2> QED BY <1>0, <2>1, <2>2, <2>3 DEF MarkCreating, PartRow
<1>2. ASSUME pc'[w] = "saveFailed" PROVE Fresh(cur[w])'
  <2>1. PostRefused(w) /\ cur'[w] = cur[w]
    BY <1>0, <1>2 DEF Via, Held
  <2> QED BY <2>1 DEF PostRefused, OnceInv, PostFresh, Fresh, native
<1>3. ASSUME pc'[w] = "discard" PROVE Gone(cur[w])'
  <2>1. DeleteAccepted(w) /\ cur'[w] = cur[w]
    BY <1>0, <1>3 DEF Via, Held
  <2> DEFINE d == rows[w][cur[w]].pid
  <2>2. /\ pc[w] = "delPost" /\ cur[w] \in Parts /\ Live(d) /\ lateCreate' = lateCreate
        /\ docs' = [docs EXCEPT ![d].status = "DELETED"]
    BY <1>0, <2>1 DEF DeleteAccepted, SetStatus, Row
  <2>3. d \in Docs /\ Named(d, cur[w]) /\ d # NoDoc
    BY <2>2 DEF Live, LinkInv, Names
  <2>4. cur[w] \notin lateCreate
    BY <2>3 DEF OnceInv, LateFresh, Named
  <2>5. \A e \in Docs : docs[e].part = cur[w] /\ Live(e) => e = d
    BY <2>2, <2>3 DEF OnceInv, AtMostOneDocument, Named, Live, Stored, NativeStatuses
  <2>6. docs'[d].status = "DELETED" /\ \A e \in Docs \ {d} : docs'[e] = docs[e]
    BY <1>0, <2>2, <2>3 DEF Document
  <2> QED BY <2>1, <2>2, <2>4, <2>5, <2>6 DEF Gone, Live, NativeStatuses
<1>4. ASSUME pc'[w] \in Informed PROVE db'[cur'[w]].op # "discarded"
  <2>0. cur'[w] = cur[w]
    BY <1>0, <1>4 DEF Informed, Held
  <2>1. ASSUME NEW d, Live(d), Named(d, cur[w]), cur[w] \in Parts
        PROVE  db[cur[w]].op # "discarded"
    BY <2>1 DEF Live, Named, StrandInv, RowsGone, Gone
  <2>2. CASE pc'[w] \in {"saveId", "saveFailed"}
    BY <1>0, <2>0, <2>2 DEF Via, PostAccepted, PostRefused, tables, StrandSound
  <2>3. CASE pc'[w] = "saveUnknown"
    <3>1. CASE PostUncertain(w)
      BY <1>0, <2>0, <3>1 DEF PostUncertain, tables, StrandSound
    <3>2. CASE SaveId(w)
      <4>1. pc[w] = "saveId" /\ cur[w] \in Parts /\ db[cur[w]].op # "discarded"
        BY <1>0, <3>2 DEF SaveId, StrandSound, Informed
      <4>2. db' = db \/ db' = Link(db, cur[w], found[w])
        BY <3>2 DEF SaveId
      <4> QED BY <1>0, <2>0, <4>1, <4>2 DEF Link, PartRow
    <3> QED BY <1>0, <2>3, <3>1, <3>2 DEF Via
  <2>4. CASE pc'[w] = "saveFound"
    <3>1. PICK d \in Docs : Recover(w, d)
      BY <1>0, <2>4 DEF Via
    <3>2. Live(d) /\ Named(d, cur[w]) /\ cur[w] \in Parts /\ db' = db
      BY <1>0, <3>1 DEF Recover, Matches, Named, Stored, Live, NativeStatuses, tables
    <3> QED BY <2>0, <2>1, <3>2
  <2>5. CASE pc'[w] = "hookLink"
    <3>1. HookGet(w)
      BY <1>0, <2>5 DEF Via
    <3>2. Live(found[w]) /\ Named(found[w], cur[w]) /\ cur[w] \in Parts /\ db' = db
      BY <1>0, <3>1 DEF HookGet, LinkInv, HoldsFound, tables
    <3> QED BY <2>0, <2>1, <3>2
  <2>6. CASE pc'[w] \in {"commit", "commit2"}
    <3>1. Get(w, "get", "commit") \/ Get(w, "get2", "commit2")
      BY <1>0, <2>6 DEF Via
    <3>2. Live(rows[w][cur[w]].pid) /\ cur[w] \in Parts /\ db' = db
      BY <1>0, <3>1 DEF Get, Row, tables
    <3>3. Named(rows[w][cur[w]].pid, cur[w])
      BY <3>2 DEF LinkInv, Names, Live
    <3> QED BY <2>0, <2>1, <3>2, <3>3
  <2> QED BY <1>4, <2>2, <2>3, <2>4, <2>5, <2>6 DEF Informed
<1> QED BY <1>0, <1>1, <1>2, <1>3, <1>4 DEF StrandSound, Held, Fresh, Gone, Live

LEMMA LeasedGone ==
  ASSUME BaseInv, OnceInv, StrandInv, NEW w \in Workers, Leased(w)
  PROVE  RowsGone'
<1>0. TypeInv /\ RowsKept(w) /\ StrandSound(w)
  BY LeasedRows DEF BaseInv, StrandInv
<1>1. ASSUME NEW p \in Parts, p # cur[w]
      PROVE  (db'[p].op = "failed" => Fresh(p)') /\ (db'[p].op = "discarded" => Gone(p)')
  BY <1>0, <1>1, LeasedFresh DEF RowsKept, StrandInv, RowsGone
<1>2. ASSUME NEW p \in Parts, p = cur[w]
      PROVE  (db'[p].op = "failed" => Fresh(p)') /\ (db'[p].op = "discarded" => Gone(p)')
  <2>1. pc[w] # "post" => (Fresh(p) => Fresh(p)') /\ (Gone(p) => Gone(p)')
    BY LeasedFresh
  <2>2. CASE db'[p].op = db[p].op
    BY <1>0, <1>2, <2>1, <2>2 DEF StrandSound, StrandInv, RowsGone
  <2>3. CASE SaveFailure(w)
    <3>1. /\ pc[w] \in {"saveFailed", "saveUnknown"}
          /\ \/ db'[p].op = db[p].op
             \/ db'[p].op = IF pc[w] = "saveFailed" THEN "failed" ELSE "unknown"
      BY <1>0, <1>2, <2>3 DEF SaveFailure, TypeInv, TypeOK, TablesOK, PartRow
    <3> QED BY <1>0, <1>2, <2>1, <2>2, <3>1 DEF StrandSound
  <2>4. CASE DiscardLocal(w)
    <3>1. /\ pc[w] = "scan" /\ job[w] \in {"discard", "close"}
          /\ rows[w][p].op \in {"prepared", "failed"}
      BY <1>2, <2>4 DEF DiscardLocal, Scanning, Row
    <3>2. db[p] = rows[w][p]
      BY <1>2, <3>1 DEF BaseInv, RowsAhead, Ahead, Held
    <3>3. Fresh(p)
      BY <3>1, <3>2 DEF OnceInv, PreparedFresh, StrandInv, RowsGone
    <3>4. Gone(p)'
      BY <2>1, <3>1, <3>3 DEF Fresh, Gone
    <3>5. db'[p].op = "discarded"
      BY <1>0, <1>2, <2>4 DEF DiscardLocal, TypeInv, TypeOK, TablesOK, PartRow
    <3> QED BY <3>4, <3>5
  <2>5. CASE Discard(w)
    <3>1. Gone(p) /\ pc[w] = "discard"
      BY <1>0, <1>2, <2>5 DEF Discard, StrandSound
    <3>2. db'[p].op = "discarded"
      BY <1>0, <1>2, <2>5 DEF Discard, TypeInv, TypeOK, TablesOK, PartRow
    <3> QED BY <2>1, <3>1, <3>2
  <2> QED BY <1>0, <1>2, <2>2, <2>3, <2>4, <2>5, LeasedOps
<1> QED BY <1>1, <1>2 DEF RowsGone, Fresh, Gone, Live

LEMMA NextStrand ==
  ASSUME "duplicate" \notin Moves
  PROVE  BaseInv /\ OnceInv /\ LinkInv /\ StrandInv /\ [Next]_vars => StrandInv'
<1> SUFFICES ASSUME BaseInv, OnceInv, LinkInv, StrandInv, [Next]_vars PROVE StrandInv'
  OBVIOUS
<1>1. ASSUME NEW w \in Workers, Leased(w) PROVE StrandInv'
  <2>1. \A v \in Workers \ {w} : pc'[v] \notin Held
    BY <1>1, LeasedOwns, Alone DEF BaseInv, Own
  <2>2. \A v \in Workers \ {w} : StrandSound(v)'
    BY <2>1 DEF StrandSound, Informed, Held
  <2> QED BY <1>1, <2>2, LeasedStrand, LeasedGone DEF StrandInv
<1>2. CASE \A w \in Workers : ~Leased(w)
  <2>1. UNCHANGED db
    BY <1>2, Unleased
  <2>2. \A p : (Fresh(p) => Fresh(p)') /\ (Gone(p) => Gone(p)')
    BY <1>2, UnleasedFresh
  <2>3. ASSUME NEW w \in Workers PROVE StrandSound(w)'
    <3>1. CASE pc'[w] \in Held \ {"scan", "get", "hookGet"}
      <4>1. UNCHANGED <<pc[w], cur[w]>>
        BY <1>2, <3>1, Unleased
      <4> QED BY <2>1, <2>2, <4>1 DEF StrandInv, StrandSound, Fresh, Gone, Live
    <3>2. CASE pc'[w] \notin Held \ {"scan", "get", "hookGet"}
      BY <3>2 DEF StrandSound, Informed, Held
    <3> QED BY <3>1, <3>2
  <2>4. RowsGone'
    BY <2>1, <2>2 DEF StrandInv, RowsGone, Fresh, Gone, Live
  <2> QED BY <2>3, <2>4 DEF StrandInv
<1> QED BY <1>1, <1>2

LEMMA Once ==
  ASSUME "duplicate" \notin Moves
  PROVE  Spec => []OnceInv
<1> QED BY InitOnce, NextOnce, PTL DEF Spec

LEMMA InitStrand == Init => StrandInv
  BY DEF Init, StrandInv, RowsGone, StrandSound, Informed, NewRow

LEMMA Strand ==
  ASSUME "duplicate" \notin Moves
  PROVE  Spec => []StrandInv
<1> QED BY Base, Once, Linked, InitStrand, NextStrand, PTL DEF Spec

\* A document that exists is one its part's state lets a later call look for:
\* whatever is refused, lost, late or discarded, unless people copy documents.
THEOREM NothingStranded ==
  ASSUME "duplicate" \notin Moves
  PROVE  Spec => []NoStrandedDocument
<1>1. BaseInv /\ OnceInv /\ StrandInv => NoStrandedDocument
  <2> SUFFICES ASSUME BaseInv, OnceInv, StrandInv, NEW d \in Docs, Live(d)
               PROVE  db[docs[d].part].op \in {"creating", "unknown", "linked"}
    BY DEF NoStrandedDocument
  <2>1. docs[d].part \in Parts /\ db \in [Parts -> PartRow]
    BY DEF Live, NativeStatuses, BaseInv, TypeInv, DocsSound, TypeOK, TablesOK
  <2>2. db[docs[d].part].op \notin {"prepared", "failed", "discarded"}
    BY <2>1 DEF OnceInv, PreparedFresh, Fresh, StrandInv, RowsGone, Gone
  <2> QED BY <2>1, <2>2 DEF PartRow, OperationStates
<1> QED BY <1>1, Base, Once, Strand, PTL

\* Nothing that a call, a late answer or a webhook writes brings a discarded
\* part back, unless people copy documents.
THEOREM DiscardedStays ==
  ASSUME "duplicate" \notin Moves
  PROVE  Spec => DiscardedIsFinal
<1>1. ASSUME BaseInv, StrandInv, [Next]_vars, NEW p \in Parts, db[p].op = "discarded"
      PROVE  db'[p].op = "discarded"
  <2>0. TypeInv
    BY <1>1 DEF BaseInv
  <2>1. ASSUME NEW w \in Workers, Leased(w) PROVE db'[p].op = "discarded"
    <3>1. CASE p # cur[w]
      BY <1>1, <2>0, <2>1, <3>1, LeasedRows DEF RowsKept
    <3>2. CASE p = cur[w]
      <4>1. pc[w] \notin Informed
        BY <1>1, <3>2 DEF StrandInv, StrandSound
      <4>2. ~(SaveId(w) \/ SaveFound(w) \/ HookLink(w) \/ SaveFailure(w) \/ Commits(w))
        BY <4>1 DEF SaveId, SaveFound, HookLink, SaveFailure, Commits, Commit, Informed
      <4> QED BY <1>1, <2>0, <2>1, <3>2, <4>2, LeasedOps
    <3> QED BY <3>1, <3>2
  <2>2. CASE \A w \in Workers : ~Leased(w)
    BY <1>1, <2>2, Unleased
  <2> QED BY <2>1, <2>2
<1>2. BaseInv /\ StrandInv /\ [Next]_vars =>
        [\A p \in Parts : db[p].op = "discarded" => db'[p].op = "discarded"]_vars
  BY <1>1
<1> QED BY <1>2, Base, Strand, PTL DEF Spec, DiscardedIsFinal
-----------------------------------------------------------------------------
(***************************************************************************)
(* What was sent was reviewed.  A review hash names documents of its       *)
(* parts; with one document per part, the one sent is the one shown.       *)
(***************************************************************************)
ReviewSound(w) ==
  ReviewRequired /\ pc[w] \in {"sending", "distribute"} => Hash(w) \in reviewed

ReviewInv ==
  /\ \A h \in reviewed, p \in Parts : h[p] # NoDoc => Named(h[p], p)
  /\ \A w \in Workers : ReviewSound(w)
  /\ \A p \in Parts : ReviewRequired /\ posted[p] > 0 =>
       db[p].pid # NoDoc /\ \E h \in reviewed : h[p] # NoDoc

LEMMA PidStays ==
  ASSUME BaseInv, LinkInv, [Next]_vars, NEW p \in Parts, db[p].pid # NoDoc
  PROVE  db'[p].pid # NoDoc
<1>0. TypeInv
  BY DEF BaseInv
<1>1. ASSUME NEW w \in Workers, Leased(w) PROVE db'[p].pid # NoDoc
  <2>1. CASE p # cur[w]
    BY <1>0, <1>1, <2>1, LeasedRows DEF RowsKept
  <2>2. CASE p = cur[w]
    <3>1. SaveId(w) \/ SaveFound(w) \/ HookLink(w) => found[w] # NoDoc
      BY DEF SaveId, SaveFound, HookLink, LinkInv, HoldsFound, Named, Stored
    <3> QED BY <1>0, <1>1, <2>2, <3>1, LeasedOps
  <2> QED BY <2>1, <2>2
<1>2. CASE \A w \in Workers : ~Leased(w)
  BY <1>2, Unleased
<1> QED BY <1>1, <1>2

LEMMA NextReview == BaseInv /\ LinkInv /\ ReviewInv /\ [Next]_vars => ReviewInv'
<1> SUFFICES ASSUME BaseInv, LinkInv, ReviewInv, [Next]_vars PROVE ReviewInv'
  OBVIOUS
<1>0. /\ TypeInv /\ posted \in [Parts -> Nat]
      /\ rows \in [Workers -> [Parts -> PartRow]]
  BY DEF BaseInv, TypeInv, TypeOK, GhostsOK, CallsOK
<1>1. \A d, p : Named(d, p) => Named(d, p)'
  BY DocsStay
<1>2. \A p \in Parts : db[p].pid # NoDoc => db'[p].pid # NoDoc
  BY PidStays
<1>3. ASSUME NEW w \in Workers, Leased(w) PROVE ReviewInv'
  <2>0. Own(w) /\ Via(w, pc'[w]) /\ ReviewSound(w)
    BY <1>0, <1>3, LeasedOwns, LeasedVia DEF ReviewInv
  <2>1. reviewed' = reviewed \/ reviewed' = reviewed \union {Hash(w)}
    BY <1>0, <1>3, LeasedGhosts
  <2>2. \A p \in Parts : Hash(w)[p] # NoDoc => Named(Hash(w)[p], p)
    BY DEF Hash, LinkInv, Names
  <2>3. \A h \in reviewed', p \in Parts : h[p] # NoDoc => Named(h[p], p)'
    <3> SUFFICES ASSUME NEW h \in reviewed', NEW p \in Parts, NEW d, d = h[p], d # NoDoc
                 PROVE  Named(d, p)'
      BY DEF Named, Stored
    <3>1. Named(d, p)
      BY <2>1, <2>2 DEF ReviewInv
    <3> QED BY <1>1, <3>1
  <2>4. ASSUME NEW v \in Workers PROVE ReviewSound(v)'
    <3>1. CASE v # w
      <4>1. pc'[v] \notin Held
        BY <1>3, <2>0, <3>1, Alone DEF BaseInv, Own
      <4> QED BY <4>1 DEF ReviewSound, Held
    <3>2. CASE v = w /\ pc'[w] = "sending"
      <4>1. ActSend(w)
        BY <2>0, <3>2 DEF Via
      <4> QED BY <2>1, <3>2, <4>1 DEF ActSend, Goto, ReviewSound, Hash
    <3>3. CASE v = w /\ pc'[w] = "distribute"
      <4>1. MarkSending(w)
        BY <2>0, <3>3 DEF Via
      <4> QED BY <2>0, <2>1, <3>3, <4>1 DEF MarkSending, Goto, ReviewSound, Hash
    <3> QED BY <3>1, <3>2, <3>3 DEF ReviewSound
  <2>5. ASSUME NEW p \in Parts, ReviewRequired, posted'[p] > 0
        PROVE  db'[p].pid # NoDoc /\ \E h \in reviewed' : h[p] # NoDoc
    <3>1. CASE posted[p] > 0
      BY <1>2, <2>1, <2>5, <3>1 DEF ReviewInv
    <3>2. CASE ~(posted[p] > 0)
      <4>1. p = cur[w] /\ pc[w] = "distribute"
        BY <1>0, <1>3, <2>5, <3>2, LeasedGhosts
      <4>2. rows[w][p].pid # NoDoc
        BY <1>0, <4>1 DEF TypeInv, CallsSound, Sound, OnDocument
      <4>3. Hash(w) \in reviewed /\ Hash(w)[p] # NoDoc /\ db[p].pid # NoDoc
        BY <2>0, <2>5, <4>1, <4>2 DEF ReviewSound, Hash, LinkInv
      <4> QED BY <1>2, <2>1, <4>3
    <3> QED BY <3>1, <3>2
  <2> QED BY <2>3, <2>4, <2>5 DEF ReviewInv, Named, Stored
<1>4. CASE \A w \in Workers : ~Leased(w)
  <2>1. UNCHANGED <<db, reviewed, posted>>
    BY <1>4, Unleased DEF ghosts
  <2>2. ASSUME NEW w \in Workers PROVE ReviewSound(w)'
    <3>1. CASE pc'[w] \in {"sending", "distribute"}
      <4>1. UNCHANGED <<pc[w], rows[w]>>
        BY <1>4, <3>1, Unleased DEF Held
      <4> QED BY <2>1, <4>1 DEF ReviewInv, ReviewSound, Hash
    <3> QED BY <3>1 DEF ReviewSound
  <2> QED BY <1>1, <2>1, <2>2 DEF ReviewInv, Named, Stored
<1> QED BY <1>3, <1>4

LEMMA InitReview == Init => ReviewInv
  BY DEF Init, ReviewInv, ReviewSound

\* Where a review is mandatory, the document the bridge sent is the one a client
\* was shown, unless people copy documents.
THEOREM SentReviewed ==
  ASSUME "duplicate" \notin Moves
  PROVE  Spec => []SentWasReviewed
<1>1. OnceInv /\ LinkInv /\ ReviewInv => SentWasReviewed
  <2> SUFFICES ASSUME OnceInv, LinkInv, ReviewInv, NEW p \in Parts, ReviewRequired,
                      posted[p] > 0
               PROVE  \E h \in reviewed :
                        h[p] # NoDoc /\ docs[h[p]].part = p /\ h[p] = db[p].pid
    BY DEF SentWasReviewed
  <2>1. PICK h \in reviewed : h[p] # NoDoc
    BY DEF ReviewInv
  <2>2. Named(h[p], p) /\ Named(db[p].pid, p)
    BY <2>1 DEF ReviewInv, LinkInv, Names
  <2> QED BY <2>1, <2>2 DEF OnceInv, AtMostOneDocument, Named, Stored
<1> QED BY <1>1, Base, Once, Linked, InitReview, NextReview, PTL DEF Spec
-----------------------------------------------------------------------------
(***************************************************************************)
(* A command that returns did its work.  Every part the call has passed is *)
(* settled: it saw a status that is enough, or made Documenso's document   *)
(* one that stays enough until it is read back.                            *)
(***************************************************************************)
\* What a document may become, in one step or in many.
Later(s, t) ==
  \/ t = s
  \/ s = "ABSENT" /\ t = "DRAFT"
  \/ s = "DRAFT" /\ t = "PENDING"
  \/ s = "PENDING" /\ t \in Final
  \/ s \in NativeStatuses /\ t = "DELETED"

Over == Final \union {"DELETED"}

Done(k, p) ==
  /\ k = "send" => Settled(p, NativeStatuses \ {"DRAFT"})
  /\ k \in {"cancel", "close"} => Settled(p, Final)
  /\ k = "discard" => Settled(p, {})

CommandSound(w) ==
  /\ pc[w] = "idle" \/ (pc[w] = "queued" /\ job[w] \notin {"read", "hook"}) => cur[w] = 1
  /\ pc[w] \in Held => \A p \in Parts : p < cur[w] => Done(job[w], p)
  /\ pc[w] = "purge" => db[cur[w]].op = "discarded"
  /\ pc[w] = "act" => db[cur[w]].proj = seen[w].status
  /\ pc[w] \in {"commit", "act"} /\ seen[w].status \in Final => docs[Row(w).pid].status \in Over
  /\ pc[w] = "sent" \/ (pc[w] = "get2" /\ job[w] = "send")
       => docs[Row(w).pid].status \notin {"DRAFT", "ABSENT"}
  /\ pc[w] = "get2" /\ job[w] \in {"cancel", "close"} => docs[Row(w).pid].status \in Over
  /\ pc[w] = "commit2" => /\ job[w] = "send" => seen[w].status # "DRAFT"
                          /\ job[w] \in {"cancel", "close"} => seen[w].status \in Final

CommandInv == \A w \in Workers : CommandSound(w)

LEMMA StatusLater ==
  ASSUME BaseInv, [Next]_vars, NEW d \in Docs
  PROVE  Later(docs[d].status, docs'[d].status)
<1>0. /\ TypeInv /\ docs \in [Docs -> Document] /\ Exclusive
      /\ lateDoc \subseteq {"distribute", "delPost", "cancelPost"} \X Docs
  BY DEF BaseInv, TypeInv, TypeOK, NativeOK
<1>1. UNCHANGED docs => Later(docs[d].status, docs'[d].status)
  BY DEF Later
<1>2. ASSUME NEW e, NEW s, SetStatus(e, s), e \in Docs => Later(docs[e].status, s)
      PROVE  Later(docs[d].status, docs'[d].status)
  BY <1>0, <1>2 DEF SetStatus, Later, Document
<1>3. ASSUME NEW e, NEW p, NewDocument(e, p) PROVE Later(docs[d].status, docs'[d].status)
  BY <1>0, <1>3 DEF NewDocument, Later
<1>4. ASSUME NEW w \in Workers, Leased(w) PROVE Later(docs[d].status, docs'[d].status)
  <2>1. CASE Throw(w) \/ Crash(w) \/ Walking(w) \/ Syncing(w)
    BY <1>1, <2>1 DEF Throw, Crash, Walking, Return, SkipPart, StartSync, StartRecover,
       DiscardLocal, Purge, Syncing, Get, Commit, native
  <2>2. CASE Creating(w)
    BY <1>1, <1>3, <2>2 DEF Creating, MarkCreating, PostRefused, PostUncertain, SaveId,
       SaveFailure, SaveFound, HookGet, HookLink, PostAccepted, Recover, native
  <2>3. CASE DistributeAccepted(w) \/ DeleteAccepted(w) \/ CancelAccepted(w)
    BY <1>2, <2>3 DEF DistributeAccepted, DeleteAccepted, CancelAccepted, Live, Later,
       NativeStatuses, Final
  <2>4. CASE Commanding(w) /\ ~(DistributeAccepted(w) \/ DeleteAccepted(w) \/ CancelAccepted(w))
    BY <1>1, <2>4 DEF Commanding, ActNext, ActRead, ActHook, ActSend, ActDelete, ActCancel,
       MarkSending, DistributeRefused, DistributeUncertain, SaveSendFailure, MarkSent,
       DeleteGet, CancelGet, DeleteOrCancelFails, Discard, native
  <2> QED BY <1>4, <2>1, <2>2, <2>3, <2>4 DEF Leased
<1>5. CASE \E w \in Workers : Outer(w) \/ Acquire(w)
  BY <1>0, <1>1, <1>5, OuterKeeps, AcquireKeeps DEF native
<1>6. ASSUME NEW m \in lateDoc, LateArrives(m) PROVE Later(docs[d].status, docs'[d].status)
  <2>1. Later(docs[m[2]].status, Effect(m[1], m[2]))
    BY DEF Later, Effect, Live, Final
  <2> QED BY <1>1, <1>2, <1>6, <2>1 DEF LateArrives
<1>7. ASSUME NEW e \in Docs, NativeMove(e) PROVE Later(docs[d].status, docs'[d].status)
  <2>1. CASE \E k, x : Edited(e, k, x)
    BY <1>0, <2>1 DEF Edited, Document, Later
  <2>2. ASSUME NEW k, NEW s, NEW t, Moved(e, k, s, t), Later(s, t)
        PROVE  Later(docs[d].status, docs'[d].status)
    BY <1>2, <2>2 DEF Moved
  <2> QED BY <1>7, <2>1, <2>2 DEF NativeMove, Later, Final, NativeStatuses
<1>8. CASE Environment
  BY <1>1, <1>3, <1>6, <1>7, <1>8 DEF Environment, LateCreateLost, LateCreateArrives,
     ReceiveWebhook, IgnoreHook, NativeDuplicate, native
<1>9. CASE UNCHANGED vars
  BY <1>1, <1>9 DEF vars
<1> QED BY <1>4, <1>5, <1>8, <1>9, Split

\* The part a call leaves behind is settled.
LEMMA PassedDone ==
  ASSUME BaseInv, CommandInv, NEW w \in Workers, Leased(w), pc'[w] = "scan",
         NEW p \in Parts, p = cur[w], NEW k, k = job[w]
  PROVE  Done(k, p)'
<1>0. /\ TypeInv /\ Via(w, "scan") /\ CommandSound(w)
      /\ db \in [Parts -> PartRow]
  BY LeasedVia DEF BaseInv, CommandInv, TypeInv, TypeOK, TablesOK
<1>1. CASE job[w] = "process"
  BY <1>1 DEF Done
<1>3. CASE SkipPart(w)
  <2>1. /\ pc[w] = "scan" /\ (rows[w][p].op = "discarded" \/ job[w] = "process")
        /\ job[w] \notin {"read", "hook"} /\ db' = db
    BY <1>3 DEF SkipPart, Scanning, Row, tables
  <2>2. CASE job[w] # "process"
    <3>1. rows[w][p] = db[p] /\ rows[w][p].op = "discarded"
      BY <2>1, <2>2, <1>3 DEF BaseInv, RowsAhead, Ahead, Held, SkipPart, Scanning
    <3> QED BY <2>1, <3>1 DEF Done, Settled
  <2> QED BY <1>1, <2>2
<1>4. CASE ActNext(w)
  <2>1. pc[w] = "act" /\ db' = db /\ db[p].proj = seen[w].status
    BY <1>0, <1>4 DEF ActNext, Acting, tables, CommandSound
  <2> QED BY <1>4, <2>1 DEF ActNext, Acting, Done, Settled, NativeStatuses, Final
<1>5. CASE Discard(w)
  BY <1>0, <1>5 DEF Discard, Done, Settled, PartRow
<1>6. CASE Purge(w)
  BY <1>0, <1>6 DEF Purge, CommandSound, Done, Settled
<1>7. CASE Commit(w, "commit2")
  <2>1. pc[w] = "commit2" /\ db'[p].proj = seen[w].status /\ seen[w].status \in NativeStatuses
    BY <1>0, <1>7, CommitFields DEF Commits, Commit
  <2>2. job[w] \in {"send", "cancel", "close"}
    BY <2>1 DEF BaseInv, JobsOK, JobsAt
  <2> QED BY <1>0, <2>1, <2>2 DEF CommandSound, Done, Settled
<1> QED BY <1>0, <1>1, <1>3, <1>4, <1>5, <1>6, <1>7 DEF Via

LEMMA LeasedCommand ==
  ASSUME BaseInv, CommandInv, [Next]_vars, NEW w \in Workers, Leased(w)
  PROVE  CommandSound(w)'
<1>0. /\ TypeInv /\ Own(w) /\ RowsKept(w) /\ Via(w, pc'[w]) /\ CommandSound(w)
      /\ db \in [Parts -> PartRow] /\ docs \in [Docs -> Document]
      /\ cur[w] \in 1..(PartCount + 1)
      /\ pc[w] # "scan" => cur[w] \in Parts
      /\ pc[w] \in OnDocument => rows[w][cur[w]].pid \in Docs
      /\ pc'[w] \in Held \ {"scan"} => cur'[w] = cur[w]
      /\ pc'[w] \in Held => job'[w] = job[w]
  BY LeasedOwns, LeasedRows, LeasedVia DEF BaseInv, CommandInv, TypeInv, TypeOK, TablesOK,
     NativeOK, CallsOK, CallsSound, Sound, Own
<1>1. ASSUME pc'[w] \in Outside PROVE pc'[w] = "idle" /\ cur'[w] = 1
  BY <1>0, <1>1 DEF Via, Outside
<1>2. ASSUME pc'[w] \in Held, NEW p \in Parts, p < cur'[w] PROVE Done(job[w], p)'
  <2>1. CASE p < cur[w]
    <3>1. Done(job[w], p) /\ db'[p] = db[p] /\ job'[w] = job[w]
      BY <1>0, <1>2, <2>1 DEF CommandSound, Own, RowsKept, Parts
    <3> QED BY <3>1 DEF Done, Settled
  <2>2. CASE p = cur[w]
    <3>1. pc'[w] = "scan" /\ job'[w] = job[w]
      BY <1>0, <1>2, <2>2 DEF Parts
    <3>2. \A k : k = job[w] => Done(k, p)'
      BY <2>2, <3>1, PassedDone
    <3> QED BY <3>1, <3>2
  <2> QED BY <1>0, <1>2, <2>1, <2>2 DEF Own, Parts
<1>3. ASSUME pc'[w] = "purge" PROVE db'[cur'[w]].op = "discarded"
  <2>1. (Discard(w) \/ DiscardLocal(w)) /\ cur'[w] = cur[w]
    BY <1>0, <1>3 DEF Via, Held
  <2>2. cur[w] \in Parts
    BY <1>0, <2>1 DEF Discard, DiscardLocal, Scanning, Parts
  <2> QED BY <1>0, <2>1, <2>2 DEF Discard, DiscardLocal, PartRow
<1>4. ASSUME pc'[w] = "act" PROVE /\ db'[cur'[w]].proj = seen'[w].status
                                  /\ seen' = seen /\ rows' = rows /\ pc[w] = "commit"
  <2>1. Commit(w, "commit") /\ cur'[w] = cur[w]
    BY <1>0, <1>4 DEF Via, Held
  <2>2. db'[cur[w]].proj = seen[w].status
    BY <1>0, <2>1, CommitFields DEF Commits
  <2> QED BY <2>1, <2>2 DEF Commit, Goto
<1>5. ASSUME NEW d \in Docs
      PROVE  /\ docs[d].status \notin {"DRAFT", "ABSENT"}
                  => docs'[d].status \notin {"DRAFT", "ABSENT"}
             /\ docs[d].status \in Over => docs'[d].status \in Over
  BY StatusLater DEF Later, Over, Final, NativeStatuses
<1>6. ASSUME pc'[w] \in {"commit", "act"}, seen'[w].status \in Final
      PROVE  docs'[Row(w)'.pid].status \in Over
  <2>1. CASE pc'[w] = "commit"
    <3>1. Get(w, "get", "commit")
      BY <1>0, <2>1 DEF Via
    <3>2. /\ seen'[w].status = docs[rows[w][cur[w]].pid].status
          /\ UNCHANGED <<docs, rows, cur>>
      BY <1>0, <3>1 DEF Get, native, Row, TypeInv, TypeOK, CallsOK
    <3> QED BY <1>6, <3>2 DEF Row, Over
  <2>2. CASE pc'[w] = "act"
    <3>1. /\ seen' = seen /\ rows' = rows /\ pc[w] = "commit" /\ cur'[w] = cur[w]
      BY <1>0, <1>4, <2>2 DEF Held
    <3>2. rows[w][cur[w]].pid \in Docs /\ docs[rows[w][cur[w]].pid].status \in Over
      BY <1>0, <1>6, <3>1 DEF CommandSound, Row, OnDocument
    <3> QED BY <1>5, <3>1, <3>2 DEF Row
  <2> QED BY <1>6, <2>1, <2>2
<1>7. ASSUME pc'[w] = "sent" PROVE docs'[Row(w)'.pid].status \notin {"DRAFT", "ABSENT"}
  <2>1. DistributeAccepted(w)
    BY <1>0, <1>7 DEF Via
  <2>2. rows[w][cur[w]].pid \in Docs
    BY <1>0, <2>1 DEF DistributeAccepted, OnDocument
  <2> QED BY <1>0, <2>1, <2>2 DEF DistributeAccepted, Goto, SetStatus, Row, Document
<1>8. ASSUME pc'[w] = "get2"
      PROVE  /\ job'[w] = "send" => docs'[Row(w)'.pid].status \notin {"DRAFT", "ABSENT"}
             /\ job'[w] \in {"cancel", "close"} => docs'[Row(w)'.pid].status \in Over
  <2>0. job'[w] = job[w]
    BY <1>0, <1>8 DEF Held
  <2>1. CASE MarkSent(w)
    <3>1. /\ pc[w] = "sent" /\ UNCHANGED <<docs, rows, cur>> /\ job[w] = "send"
      BY <2>1 DEF MarkSent, Goto, native, BaseInv, JobsOK, JobsAt
    <3> QED BY <1>0, <2>0, <3>1 DEF CommandSound, Row
  <2>2. CASE ActCancel(w)
    <3>1. /\ pc[w] = "act" /\ job[w] \in {"cancel", "close"} /\ UNCHANGED <<docs, rows, cur>>
          /\ seen[w].status \in {"PENDING", "CANCELLED"}
          /\ pc'[w] = IF seen[w].status = "PENDING" THEN "cancelGet" ELSE "get2"
      BY <1>0, <2>2 DEF ActCancel, Acting, Goto, native, TypeInv, TypeOK, CallsOK
    <3>2. docs[rows[w][cur[w]].pid].status \in Over
      BY <1>0, <1>8, <3>1 DEF CommandSound, Final, Row
    <3> QED BY <2>0, <3>1, <3>2 DEF Row
  <2>3. CASE CancelGet(w)
    <3>1. /\ pc[w] = "cancelGet" /\ UNCHANGED <<docs, rows, cur>>
          /\ docs[rows[w][cur[w]].pid].status \in {"PENDING", "CANCELLED"}
          /\ pc'[w] = IF docs[rows[w][cur[w]].pid].status = "PENDING" THEN "cancelPost" ELSE "get2"
      BY <1>0, <2>3 DEF CancelGet, Goto, native, Row, TypeInv, TypeOK, CallsOK
    <3>2. job[w] \in {"cancel", "close"}
      BY <3>1 DEF BaseInv, JobsOK, JobsAt
    <3> QED BY <1>8, <2>0, <3>1, <3>2 DEF Row, Over, Final
  <2>4. CASE CancelAccepted(w)
    <3>1. pc[w] = "cancelPost" /\ rows[w][cur[w]].pid \in Docs /\ UNCHANGED <<rows, cur>>
      BY <1>0, <2>4 DEF CancelAccepted, Goto, OnDocument
    <3>2. job[w] \in {"cancel", "close"}
      BY <3>1 DEF BaseInv, JobsOK, JobsAt
    <3> QED BY <1>0, <2>0, <2>4, <3>1, <3>2 DEF CancelAccepted, SetStatus, Row, Document,
          Over, Final
  <2> QED BY <1>0, <1>8, <2>1, <2>2, <2>3, <2>4 DEF Via
<1>9. ASSUME pc'[w] = "commit2"
      PROVE  /\ job'[w] = "send" => seen'[w].status # "DRAFT"
             /\ job'[w] \in {"cancel", "close"} => seen'[w].status \in Final
  <2>1. Get(w, "get2", "commit2")
    BY <1>0, <1>9 DEF Via
  <2>2. /\ pc[w] = "get2" /\ seen'[w].status = docs[rows[w][cur[w]].pid].status
        /\ job' = job /\ docs[rows[w][cur[w]].pid].status \in NativeStatuses
    BY <1>0, <2>1 DEF Get, Row, Live, TypeInv, TypeOK, CallsOK
  <2> QED BY <1>0, <2>2 DEF CommandSound, Row, Over, Final, NativeStatuses
<1>10. pc'[w] \in Outside \union Held
  BY NextType DEF BaseInv, TypeInv, TypeOK, CallsOK
<1>11. pc'[w] \in Held => \A p \in Parts : p < cur'[w] => Done(job[w], p)'
  BY <1>2
<1> QED BY <1>1, <1>3, <1>4, <1>6, <1>7, <1>8, <1>9, <1>10, <1>11 DEF CommandSound, Outside, Held

LEMMA NextCommand == BaseInv /\ CommandInv /\ [Next]_vars => CommandInv'
<1> SUFFICES ASSUME BaseInv, CommandInv, [Next]_vars, NEW w \in Workers PROVE CommandSound(w)'
  BY DEF CommandInv
<1>0. TypeInv /\ Exclusive /\ CommandSound(w)
  BY DEF BaseInv, CommandInv
<1>1. CASE Leased(w)
  BY <1>1, LeasedCommand
<1>2. ASSUME NEW v \in Workers \ {w}, Leased(v) PROVE CommandSound(w)'
  <2>1. UNCHANGED <<pc[w], job[w], cur[w]>> /\ pc[w] \notin Held
    BY <1>0, <1>2, LeasedOwns, Alone DEF Own
  <2> QED BY <1>0, <2>1 DEF CommandSound, Held
<1>3. CASE (\A v \in Workers : ~Leased(v)) /\ pc'[w] \in Held
  <2>1. /\ UNCHANGED <<db, job[w], cur[w], seen[w]>>
        /\ \/ UNCHANGED <<pc[w], rows[w]>>
           \/ /\ pc[w] = "queued" /\ pc'[w] \in {"get", "hookGet", "scan"}
              /\ pc'[w] = "scan" <=> job[w] \notin {"read", "hook"}
    BY <1>3, Unleased
  <2>2. ASSUME NEW p \in Parts PROVE p < cur'[w] => Done(job[w], p)'
    <3>1. Done(job[w], p) => Done(job[w], p)'
      BY <2>1 DEF Done, Settled
    <3>2. CASE UNCHANGED pc[w]
      BY <1>0, <1>3, <2>1, <3>1, <3>2 DEF CommandSound
    <3>3. CASE pc[w] = "queued" /\ job[w] \notin {"read", "hook"}
      BY <1>0, <2>1, <3>3 DEF CommandSound, Parts
    <3>4. CASE job[w] \in {"read", "hook"}
      BY <2>1, <3>4 DEF Done
    <3> QED BY <2>1, <3>2, <3>3, <3>4
  <2>3. CASE UNCHANGED <<pc[w], rows[w]>>
    <3>1. pc[w] \in OnDocument => rows[w][cur[w]].pid \in Docs
      BY <1>0 DEF TypeInv, CallsSound, Sound
    <3>2. ASSUME NEW d \in Docs
          PROVE  /\ docs[d].status \notin {"DRAFT", "ABSENT"}
                      => docs'[d].status \notin {"DRAFT", "ABSENT"}
                 /\ docs[d].status \in Over => docs'[d].status \in Over
      BY StatusLater DEF Later, Over, Final, NativeStatuses
    <3> QED BY <1>0, <1>3, <2>1, <2>2, <2>3, <3>1, <3>2 DEF CommandSound, OnDocument, Row, Held
  <2>4. CASE ~UNCHANGED <<pc[w], rows[w]>>
    BY <1>3, <2>1, <2>2, <2>4 DEF CommandSound, Held
  <2> QED BY <2>3, <2>4
<1>4. CASE (\A v \in Workers : ~Leased(v)) /\ pc'[w] \notin Held
  <2> DEFINE Fits == /\ pc'[w] \notin Held
                     /\ pc'[w] = "idle" \/ (pc'[w] = "queued" /\ job'[w] \notin {"read", "hook"})
                          => cur'[w] = 1
  <2>1. ASSUME UNCHANGED <<pc[w], job[w], cur[w]>> PROVE Fits
    BY <1>0, <1>4, <2>1 DEF CommandSound
  <2>2. ASSUME Outer(w) PROVE Fits
    BY <1>0, <1>4, <2>2 DEF Outer, Starting, Begin, BeginRead, BeginHook, Snapshot, Busy, Clear,
       CommandSound, TypeInv, TypeOK, CallsOK
  <2>3. ASSUME NEW v \in Workers \ {w}, Outer(v) \/ Acquire(v) PROVE Fits
    BY <1>0, <2>1, <2>3, OuterKeeps, AcquireKeeps DEF Others
  <2>4. ASSUME Acquire(w) PROVE Fits
    BY <1>0, <1>4, <2>4, AcquireKeeps DEF Held
  <2>5. ASSUME Environment \/ UNCHANGED vars PROVE Fits
    <3>1. UNCHANGED calls
      BY <1>0, <2>5, EnvironmentKeeps DEF vars, calls
    <3> QED BY <2>1, <3>1 DEF calls
  <2>6. Fits
    BY <1>4, <2>2, <2>3, <2>4, <2>5, Split
  <2> QED BY <2>6 DEF CommandSound, Held
<1> QED BY <1>1, <1>2, <1>3, <1>4, NextType DEF BaseInv

LEMMA InitCommand == Init => CommandInv
  BY DEF Init, CommandInv, CommandSound, Held

\* A send, cancel, close or discard that comes to its end has settled every
\* part, whichever calls ran before it and wherever they stopped.
THEOREM CommandsComplete == Spec => []CommandIsComplete
<1>1. BaseInv /\ CommandInv => CommandIsComplete
  <2> SUFFICES ASSUME BaseInv, CommandInv, NEW w \in Workers, NEW p \in Parts, NEW k,
                      Finished(w, k)
               PROVE  Done(k, p)
    BY DEF CommandIsComplete, Done
  <2>1. pc[w] \in Held /\ p < cur[w] /\ job[w] = k
    BY DEF Finished, Held, Parts, BaseInv, TypeInv, TypeOK, CallsOK
  <2> QED BY <2>1 DEF CommandInv, CommandSound
<1> QED BY <1>1, Base, InitCommand, NextCommand, PTL DEF Spec
-----------------------------------------------------------------------------
(***************************************************************************)
(* The stored projection never goes back.  It is a status the document has *)
(* had, and so is what a call is about to write; no commit comes between a *)
(* call's GET and its own.                                                 *)
(***************************************************************************)
\* A document with status s has had status x.
Reached(x, s) ==
  s = "DELETED" \/ (s \in NativeStatuses /\ (s = x \/ Rank(x) < Rank(s)))

ProjectionSound(w) ==
  pc[w] \in {"commit", "commit2"} =>
    /\ Reached(seen[w].status, docs[rows[w][cur[w]].pid].status)
    /\ db[cur[w]].proj # "none" => Reached(db[cur[w]].proj, seen[w].status)

ProjectionInv ==
  /\ \A p \in Parts : db[p].proj # "none" =>
       db[p].pid \in Docs /\ Reached(db[p].proj, docs[db[p].pid].status)
  /\ \A w \in Workers : ProjectionSound(w)

LEMMA ReachedLater ==
  ASSUME NEW x \in NativeStatuses, NEW s, NEW t, Reached(x, s), Later(s, t)
  PROVE  Reached(x, t)
  BY DEF Reached, Later, Rank, NativeStatuses, Final

\* One document per part: who is named is the one that is stored.
LEMMA OneNamed ==
  ASSUME OnceInv, NEW d, NEW e, NEW p, Named(d, p), Named(e, p)
  PROVE  d = e
  BY DEF OnceInv, AtMostOneDocument, Named, Stored

\* A row that has a document keeps it: whoever writes the column writes the one
\* document there is.
LEMMA LinkKept ==
  ASSUME BaseInv, OnceInv', LinkInv, LinkInv', [Next]_vars,
         NEW p \in Parts, db[p].pid # NoDoc
  PROVE  db'[p].pid = db[p].pid
<1>1. \A d : d = db[p].pid => Named(d, p)'
  BY DocsStay DEF LinkInv, Names
<1>2. db'[p].pid # NoDoc
  BY PidStays
<1>3. \A d : d = db'[p].pid => Named(d, p)'
  BY <1>2 DEF LinkInv, Names, Named, Stored
<1> QED BY <1>1, <1>3 DEF OnceInv, AtMostOneDocument, Named, Stored

LEMMA LeasedProjection ==
  ASSUME BaseInv, OnceInv, LinkInv, ProjectionInv, [Next]_vars, NEW w \in Workers, Leased(w)
  PROVE  ProjectionSound(w)'
<1>0. /\ TypeInv /\ Via(w, pc'[w]) /\ rows \in [Workers -> [Parts -> PartRow]]
      /\ pc[w] # "scan" => cur[w] \in Parts
      /\ seen \in [Workers -> Seen] /\ docs \in [Docs -> Document]
      /\ db \in [Parts -> PartRow]
  BY LeasedVia DEF BaseInv, TypeInv, TypeOK, CallsOK, CallsSound, Sound, NativeOK, TablesOK
<1>1. ASSUME Get(w, "get", "commit") \/ Get(w, "get2", "commit2") PROVE ProjectionSound(w)'
  <2> DEFINE d == rows[w][cur[w]].pid
  <2>1. /\ cur[w] \in Parts /\ Live(d) /\ seen'[w].status = docs[d].status
        /\ UNCHANGED <<docs, db, rows, cur>>
    BY <1>0, <1>1 DEF Get, Row, tables, native
  <2>2. d # NoDoc /\ Named(d, cur[w]) /\ Named(db[cur[w]].pid, cur[w])
    BY <2>1 DEF Live, LinkInv, Names
  <2>3. db[cur[w]].pid = d
    BY <2>2, OneNamed
  <2>4. Reached(docs[d].status, docs[d].status)
    BY <2>1 DEF Reached, Live
  <2>5. db[cur[w]].proj # "none" => Reached(db[cur[w]].proj, docs[d].status)
    BY <2>1, <2>3 DEF ProjectionInv
  <2> QED BY <2>1, <2>4, <2>5 DEF ProjectionSound
<1> QED BY <1>0, <1>1 DEF Via, ProjectionSound

LEMMA NextProjection ==
  ASSUME "duplicate" \notin Moves
  PROVE  BaseInv /\ OnceInv /\ OnceInv' /\ LinkInv /\ LinkInv' /\ ProjectionInv /\ [Next]_vars
           => ProjectionInv'
<1> SUFFICES ASSUME BaseInv, OnceInv, OnceInv', LinkInv, LinkInv', ProjectionInv, [Next]_vars
             PROVE  ProjectionInv'
  OBVIOUS
<1>0. /\ TypeInv /\ db \in [Parts -> PartRow] /\ seen \in [Workers -> Seen]
      /\ \A p \in Parts : db[p].proj \in NativeStatuses \union {"none"}
  BY DEF BaseInv, TypeInv, TypeOK, TablesOK, CallsOK, PartRow
<1>1. ASSUME NEW d \in Docs, NEW x \in NativeStatuses, Reached(x, docs[d].status)
      PROVE  Reached(x, docs'[d].status)
  BY <1>1, StatusLater, ReachedLater
<1>2. ASSUME NEW p \in Parts, db[p].proj # "none"
      PROVE  /\ db'[p].pid = db[p].pid /\ db[p].pid \in Docs
             /\ Reached(db[p].proj, docs'[db[p].pid].status)
  <2>1. db[p].pid \in Docs /\ Reached(db[p].proj, docs[db[p].pid].status)
    BY <1>2 DEF ProjectionInv
  <2>2. db'[p].pid = db[p].pid
    BY <2>1, LinkKept DEF LinkInv, Names
  <2> QED BY <1>0, <1>1, <1>2, <2>1, <2>2
<1>3. ASSUME NEW w \in Workers, Leased(w) PROVE ProjectionInv'
  <2>0. \A v \in Workers \ {w} : pc'[v] \notin Held
    BY <1>3, LeasedOwns, Alone DEF BaseInv, Own
  <2>1. \A v \in Workers : ProjectionSound(v)'
    BY <1>3, <2>0, LeasedProjection DEF ProjectionSound, Held
  <2>2. CASE Commits(w)
    <3> DEFINE p == cur[w]
    <3>1. /\ pc[w] \in {"commit", "commit2"} /\ p \in Parts
          /\ db'[p].proj = seen[w].status /\ db'[p].pid = db[p].pid
          /\ \A q \in Parts \ {p} : db'[q] = db[q]
          /\ seen[w].status \in NativeStatuses /\ UNCHANGED docs
      BY <1>0, <2>2, CommitFields DEF native
    <3>2. /\ rows[w][p].pid \in Docs /\ rows[w][p].pid # NoDoc
          /\ Reached(seen[w].status, docs[rows[w][p].pid].status)
      BY <1>0, <3>1 DEF ProjectionInv, ProjectionSound, TypeInv, CallsSound, Sound, OnDocument
    <3>3. Named(rows[w][p].pid, p) /\ Named(db[p].pid, p)
      BY <3>1, <3>2 DEF LinkInv, Names
    <3>4. db[p].pid = rows[w][p].pid
      BY <3>3, OneNamed
    <3>5. db'[p].pid \in Docs /\ Reached(db'[p].proj, docs'[db'[p].pid].status)
      BY <3>1, <3>2, <3>4
    <3>6. \A q \in Parts \ {p} : db'[q].proj # "none" =>
            db'[q].pid \in Docs /\ Reached(db'[q].proj, docs'[db'[q].pid].status)
      BY <3>1 DEF ProjectionInv
    <3> QED BY <2>1, <3>5, <3>6 DEF ProjectionInv
  <2>3. CASE ~Commits(w)
    <3>1. \A p \in Parts : db'[p].proj = db[p].proj
      BY <1>0, <1>3, <2>3, LeasedTables
    <3> QED BY <1>2, <2>1, <3>1 DEF ProjectionInv
  <2> QED BY <2>2, <2>3
<1>4. CASE \A w \in Workers : ~Leased(w)
  <2>1. UNCHANGED db
    BY <1>4, Unleased
  <2>2. ASSUME NEW w \in Workers, pc'[w] \in {"commit", "commit2"} PROVE ProjectionSound(w)'
    <3>1. UNCHANGED <<pc[w], rows[w], cur[w], seen[w]>>
      BY <1>4, <2>2, Unleased DEF Held
    <3>2. rows[w][cur[w]].pid \in Docs /\ seen[w].status \in NativeStatuses
      BY <1>0, <2>2, <3>1 DEF TypeInv, CallsSound, Sound, OnDocument
    <3> QED BY <1>1, <2>1, <2>2, <3>1, <3>2 DEF ProjectionInv, ProjectionSound
  <2>3. \A w \in Workers : ProjectionSound(w)'
    BY <2>2 DEF ProjectionSound
  <2> QED BY <1>2, <2>1, <2>3 DEF ProjectionInv
<1> QED BY <1>3, <1>4

LEMMA InitProjection == Init => ProjectionInv
  BY DEF Init, ProjectionInv, ProjectionSound, NewRow

LEMMA Projected ==
  ASSUME "duplicate" \notin Moves
  PROVE  Spec => []ProjectionInv
<1> QED BY Base, Once, Linked, InitProjection, NextProjection, PTL DEF Spec

\* What the portal reads of a part only goes forward and stops at a final
\* status, whichever calls write what they read earlier, unless people copy
\* documents.
THEOREM ProjectionAdvances ==
  ASSUME "duplicate" \notin Moves
  PROVE  Spec => ProjectionMonotone
<1>1. ASSUME BaseInv, ProjectionInv, [Next]_vars, NEW p \in Parts, db'[p].proj # db[p].proj
      PROVE  Rank(db[p].proj) < Rank(db'[p].proj)
  <2>0. /\ TypeInv /\ \A q \in Parts : db[q].proj \in NativeStatuses \union {"none"}
    BY <1>1 DEF BaseInv, TypeInv, TypeOK, TablesOK, PartRow
  <2>1. PICK w \in Workers : Leased(w) /\ Commits(w)
    BY <1>1, <2>0, Unleased, LeasedTables
  <2>2. /\ pc[w] \in {"commit", "commit2"} /\ p = cur[w]
        /\ db'[p].proj = seen[w].status /\ seen[w].status \in NativeStatuses
    BY <1>1, <2>0, <2>1, CommitFields
  <2>3. db[p].proj # "none" => Reached(db[p].proj, seen[w].status)
    BY <1>1, <2>2 DEF ProjectionInv, ProjectionSound
  <2> QED BY <1>1, <2>0, <2>2, <2>3 DEF Reached, Rank, NativeStatuses
<1>2. BaseInv /\ ProjectionInv /\ [Next]_vars =>
        [\A p \in Parts : \/ db'[p].proj = db[p].proj
                          \/ Rank(db[p].proj) < Rank(db'[p].proj)]_vars
  BY <1>1
<1> QED BY <1>2, Base, Projected, PTL DEF Spec, ProjectionMonotone

\* A part never moves to another document, unless people copy documents: what
\* three calls, a webhook and a recovery store is the same one.
THEOREM LinkNeverMoves ==
  ASSUME "duplicate" \notin Moves
  PROVE  Spec => LinkStable
<1>1. BaseInv /\ OnceInv' /\ LinkInv /\ LinkInv' /\ [Next]_vars =>
        [\A p \in Parts : db[p].pid # NoDoc => db'[p].pid = db[p].pid]_vars
  BY LinkKept
<1> QED BY <1>1, Base, Once, Linked, PTL DEF Spec, LinkStable

\* Where documents are copied a part does move.  A create stores its id while the
\* row still has none, and recovery looks at the row again; a webhook compares
\* its document with the row it read before the lease.
RelinkInv ==
  \A w \in Workers :
    /\ pc[w] \in {"post", "saveId"} => db[cur[w]].pid = NoDoc
    /\ pc[w] = "hookLink" => rows[w][cur[w]].pid \in {NoDoc, found[w]}

StaleHook(w, p) == HookLink(w) /\ cur[w] = p /\ rows[w][p].pid # db[p].pid

\* Every step that moves a part to another document is a stale webhook's.
OnlyHooksRelink ==
  [][\A p \in Parts : db[p].pid # NoDoc /\ db'[p].pid # db[p].pid
       => \E w \in Workers : StaleHook(w, p)]_vars

LEMMA NextRelink == BaseInv /\ RelinkInv /\ [Next]_vars => RelinkInv'
<1> SUFFICES ASSUME BaseInv, RelinkInv, [Next]_vars PROVE RelinkInv'
  OBVIOUS
<1>0. TypeInv /\ db \in [Parts -> PartRow]
  BY DEF BaseInv, TypeInv, TypeOK, TablesOK
<1>1. ASSUME NEW w \in Workers, Leased(w) PROVE RelinkInv'
  <2>1. \A v \in Workers \ {w} : pc'[v] \notin Held
    BY <1>0, <1>1, LeasedOwns, Alone DEF BaseInv, Own
  <2>2. ASSUME pc'[w] \in {"post", "saveId"} PROVE db'[cur'[w]].pid = NoDoc
    <3>1. /\ cur'[w] = cur[w]
          /\ MarkCreating(w) \/ \E d \in Docs : PostAccepted(w, d)
      BY <1>0, <1>1, <2>2, LeasedOwns, LeasedVia DEF Own, Via, Held
    <3>2. CASE MarkCreating(w)
      <4>1. /\ cur[w] \in Parts /\ pc[w] = "scan" /\ job[w] = "process"
            /\ rows[w][cur[w]].pid = NoDoc
        BY <1>0, <3>2 DEF MarkCreating, Scanning, Row, Parts, TypeInv, TypeOK, CallsOK
      <4>2. rows[w][cur[w]] = db[cur[w]]
        BY <4>1 DEF BaseInv, RowsAhead, Ahead, Held
      <4> QED BY <1>0, <3>1, <3>2, <4>1, <4>2 DEF MarkCreating, PartRow
    <3>3. CASE \E d \in Docs : PostAccepted(w, d)
      BY <3>1, <3>3 DEF PostAccepted, RelinkInv, tables
    <3> QED BY <3>1, <3>2, <3>3
  <2>3. ASSUME pc'[w] = "hookLink" PROVE rows'[w][cur'[w]].pid \in {NoDoc, found'[w]}
    <3>1. HookGet(w)
      BY <1>0, <1>1, <2>3, LeasedVia DEF Via
    <3> QED BY <3>1 DEF HookGet, Goto, Row
  <2> QED BY <2>1, <2>2, <2>3 DEF RelinkInv, Held
<1>2. CASE \A w \in Workers : ~Leased(w)
  BY <1>0, <1>2, Unleased DEF RelinkInv, Held
<1> QED BY <1>1, <1>2

\* However many documents have a part's external id, only a webhook with a row
\* that has changed since it was read moves the part to another one (reconcile(),
\* service.ts:1805).
THEOREM RelinkedByStaleHook == Spec => OnlyHooksRelink
<1>1. ASSUME BaseInv, RelinkInv, [Next]_vars, NEW p \in Parts,
             db[p].pid # NoDoc, db'[p].pid # db[p].pid
      PROVE  \E w \in Workers : StaleHook(w, p)
  <2>0. TypeInv
    BY <1>1 DEF BaseInv
  <2>1. PICK w \in Workers : Leased(w)
    BY <1>1, Unleased
  <2>2. cur[w] = p
    BY <1>1, <2>0, <2>1, LeasedRows DEF RowsKept
  <2>3. SaveId(w) \/ SaveFound(w) \/ HookLink(w)
    BY <1>1, <2>0, <2>1, <2>2, LeasedOps
  <2>4. ~SaveId(w) /\ ~SaveFound(w)
    BY <1>1, <2>2 DEF SaveId, SaveFound, RelinkInv
  <2>5. db'[p].pid = found[w] /\ pc[w] = "hookLink"
    BY <1>1, <2>0, <2>2, <2>3, <2>4 DEF HookLink, Link, TypeInv, TypeOK, TablesOK, PartRow
  <2>6. rows[w][p].pid \in {NoDoc, found[w]}
    BY <1>1, <2>2, <2>5 DEF RelinkInv
  <2> QED BY <1>1, <2>2, <2>3, <2>4, <2>5, <2>6 DEF StaleHook
<1>2. BaseInv /\ RelinkInv /\ [Next]_vars =>
        [\A p \in Parts : db[p].pid # NoDoc /\ db'[p].pid # db[p].pid
           => \E w \in Workers : StaleHook(w, p)]_vars
  BY <1>1
<1>3. Init => RelinkInv
  BY DEF Init, RelinkInv
<1> QED BY <1>2, <1>3, Base, NextRelink, PTL DEF Spec, OnlyHooksRelink
-----------------------------------------------------------------------------
(***************************************************************************)
(* A create is asked for once, also where documents are copied.            *)
(***************************************************************************)
THEOREM CreateSentOnce == Spec => CreatesOnce
<1> DEFINE Good(p) == /\ db[p].op # "prepared" => db'[p].op # "prepared"
                      /\ Creates(p) => db[p].op = "prepared" /\ db'[p].op = "creating"
<1>1. ASSUME BaseInv, [Next]_vars, NEW p \in Parts PROVE Good(p)
  <2>0. /\ TypeInv /\ db \in [Parts -> PartRow]
    BY <1>1 DEF BaseInv, TypeInv, TypeOK, TablesOK
  <2>1. ASSUME NEW w \in Workers, Leased(w) PROVE Good(p)
    <3>1. Own(w) /\ RowsKept(w) /\ Via(w, pc'[w])
      BY <1>1, <2>0, <2>1, LeasedOwns, LeasedRows, LeasedVia
    <3>2. ASSUME Creates(p) PROVE MarkCreating(w) /\ p = cur[w]
      BY <3>1, <3>2 DEF Creates, Own, Via
    <3>3. ASSUME MarkCreating(w), p = cur[w]
          PROVE  db[p].op = "prepared" /\ db'[p].op = "creating"
      <4>1. /\ pc[w] = "scan" /\ job[w] = "process" /\ rows[w][p].op = "prepared"
        BY <3>3 DEF MarkCreating, Scanning, Row
      <4>2. db[p].op = "prepared"
        BY <1>1, <3>3, <4>1 DEF BaseInv, RowsAhead, Ahead, Held
      <4> QED BY <2>0, <3>3, <4>2 DEF MarkCreating, PartRow
    <3> QED BY <3>1, <3>2, <3>3 DEF RowsKept
  <2>2. CASE \A w \in Workers : ~Leased(w)
    <3>1. UNCHANGED db /\ ~Creates(p)
      BY <1>1, <2>2, Unleased DEF Creates, Held
    <3> QED BY <3>1
  <2> QED BY <2>1, <2>2
<1>2. BaseInv /\ [Next]_vars => [\A p \in Parts : Good(p)]_vars
  BY <1>1
<1> QED BY <1>2, Base, PTL DEF Spec, CreatesOnce
-----------------------------------------------------------------------------
(***************************************************************************)
(* The contract of a part.  Besides what the invariants above say, it      *)
(* needs to know what the row says while a call has something to write or  *)
(* to ask for, and that what Documenso may still be asked late concerns a  *)
(* document whose part was linked, and mailed if it is to be sent.         *)
(***************************************************************************)
Unsaved == {"saveId", "saveFailed", "saveUnknown"}
Synced == {"act", "sending", "distribute", "sendFailed", "sendUnknown", "sent", "delGet",
           "delPost", "discard", "cancelGet", "cancelPost", "get2", "commit2"}
AsDraft == {"sending", "distribute", "delPost", "discard"}

StandSound(w) ==
  /\ pc[w] \in Unsaved => db[cur[w]].op \in {"creating", "linked"}
  /\ pc[w] \in Synced => db[cur[w]].op = "linked"
  /\ pc[w] = "act" => db[cur[w]].proj = seen[w].status
  /\ pc[w] = "delGet" => db[cur[w]].proj # "none"
  /\ pc[w] \in AsDraft => db[cur[w]].proj = "DRAFT"

LateSound ==
  \A m \in lateDoc : LET p == docs[m[2]].part
                     IN  /\ Stored(m[2]) /\ db[p].op \in {"linked", "discarded"}
                         /\ m[1] = "distribute" => posted[p] > 0

ContractInv == LateSound /\ \A w \in Workers : StandSound(w)

LEMMA LeasedStand ==
  ASSUME BaseInv, OnceInv, LinkInv, StrandInv, ProjectionInv, ContractInv, [Next]_vars,
         NEW w \in Workers, Leased(w)
  PROVE  StandSound(w)'
<1>0. /\ TypeInv /\ Own(w) /\ Via(w, pc'[w]) /\ StandSound(w) /\ StrandSound(w)
      /\ db \in [Parts -> PartRow] /\ docs \in [Docs -> Document]
      /\ seen \in [Workers -> Seen]
      /\ pc[w] # "scan" => cur[w] \in Parts
      /\ pc'[w] \in Held \ {"scan"} => cur'[w] = cur[w]
  BY LeasedOwns, LeasedVia DEF BaseInv, StrandInv, ContractInv, TypeInv, TypeOK, TablesOK,
     CallsOK, NativeOK, CallsSound, Sound, Own
<1> DEFINE row == db[cur[w]]
<1>1. ASSUME pc'[w] \in Unsaved PROVE db'[cur'[w]].op \in {"creating", "linked"}
  <2>0. cur'[w] = cur[w]
    BY <1>0, <1>1 DEF Unsaved, Held
  <2>1. CASE PostRefused(w) \/ PostUncertain(w) \/ \E d \in Docs : PostAccepted(w, d)
    BY <1>0, <2>0, <2>1 DEF PostRefused, PostUncertain, PostAccepted, tables, StrandSound
  <2>2. CASE SaveId(w)
    <3>1. cur[w] \in Parts /\ row.op \in {"creating", "linked"}
      BY <1>0, <2>2 DEF SaveId, StandSound, Unsaved
    <3>2. db' = db \/ db' = Link(db, cur[w], found[w])
      BY <2>2 DEF SaveId
    <3> QED BY <1>0, <2>0, <3>1, <3>2 DEF Link, PartRow
  <2> QED BY <1>0, <1>1, <2>1, <2>2 DEF Via, Unsaved
<1>2. ASSUME pc'[w] = "act"
      PROVE  db'[cur'[w]].op = "linked" /\ db'[cur'[w]].proj = seen'[w].status
  <2>1. Commit(w, "commit") /\ cur'[w] = cur[w]
    BY <1>0, <1>2 DEF Via, Held
  <2>2. pc[w] = "commit"
    BY <2>1 DEF Commit
  <2> QED BY <1>0, <2>1, <2>2, CommitFields DEF Commits, Goto
\* From one await of a synchronized part to the next.
<1>3. ASSUME pc'[w] \in Synced \ {"act"}
      PROVE  /\ pc[w] \in Synced /\ cur[w] \in Parts /\ cur'[w] = cur[w]
             /\ db'[cur[w]].op = row.op /\ db'[cur[w]].proj = row.proj
  <2>0. cur'[w] = cur[w]
    BY <1>0, <1>3 DEF Synced, Held
  <2>1. CASE \/ ActSend(w) \/ ActDelete(w) \/ ActCancel(w) \/ DistributeRefused(w)
             \/ DistributeUncertain(w) \/ DistributeAccepted(w) \/ DeleteGet(w)
             \/ DeleteAccepted(w) \/ CancelGet(w) \/ CancelAccepted(w)
             \/ Get(w, "get2", "commit2")
    <3>1. UNCHANGED db /\ pc[w] \in Synced
      BY <2>1 DEF ActSend, ActDelete, ActCancel, Acting, DistributeRefused,
         DistributeUncertain, DistributeAccepted, DeleteGet, DeleteAccepted, CancelGet,
         CancelAccepted, Get, tables, Synced
    <3> QED BY <1>0, <2>0, <3>1 DEF Synced
  <2>2. CASE MarkSending(w) \/ MarkSent(w)
    <3>1. pc[w] \in Synced /\ \E x : db' = [db EXCEPT ![cur[w]].del = x]
      BY <2>2 DEF MarkSending, MarkSent, Synced
    <3> QED BY <1>0, <2>0, <3>1 DEF Synced, PartRow
  <2> QED BY <1>0, <1>3, <2>1, <2>2 DEF Via, Synced
<1>4. ASSUME pc'[w] = "delGet" PROVE db'[cur'[w]].proj # "none"
  <2>1. ActDelete(w)
    BY <1>0, <1>4 DEF Via
  <2>2. pc[w] = "act" /\ seen[w].status \in NativeStatuses
    BY <2>1 DEF ActDelete, Acting, NativeStatuses
  <2> QED BY <1>0, <1>3, <1>4, <2>2 DEF StandSound, Synced, NativeStatuses
<1>5. ASSUME pc'[w] \in AsDraft PROVE db'[cur'[w]].proj = "DRAFT"
  <2>0. db'[cur'[w]].proj = row.proj
    BY <1>3, <1>5 DEF AsDraft, Synced
  <2>1. CASE pc'[w] = "sending"
    <3>1. ActSend(w)
      BY <1>0, <2>1 DEF Via
    <3> QED BY <1>0, <2>0, <3>1 DEF ActSend, Acting, StandSound
  <2>2. CASE pc'[w] \in {"distribute", "discard"}
    <3>1. pc[w] \in {"sending", "delPost"}
      BY <1>0, <2>2 DEF Via, MarkSending, DeleteAccepted
    <3> QED BY <1>0, <2>0, <3>1 DEF StandSound, AsDraft
  <2>3. CASE pc'[w] = "delPost"
    <3> DEFINE d == rows[w][cur[w]].pid
    <3>1. pc[w] = "delGet" /\ cur[w] \in Parts /\ Live(d) /\ docs[d].status = "DRAFT"
      BY <1>0, <2>3 DEF Via, DeleteGet, Row
    <3>2. row.op = "linked" /\ row.pid # NoDoc /\ row.proj \in NativeStatuses
      BY <1>0, <3>1 DEF StandSound, Synced, LinkInv, StateAgrees, PartRow
    <3>3. Named(d, cur[w]) /\ Named(row.pid, cur[w])
      BY <3>1, <3>2 DEF LinkInv, Names, Live
    <3>4. row.pid = d
      BY <3>3, OneNamed
    <3>5. Reached(row.proj, "DRAFT")
      BY <3>1, <3>2, <3>4 DEF ProjectionInv, NativeStatuses
    <3>6. row.proj = "DRAFT"
      BY <3>2, <3>5 DEF Reached, Rank, NativeStatuses
    <3> QED BY <2>0, <3>6
  <2> QED BY <1>5, <2>1, <2>2, <2>3 DEF AsDraft
<1>6. ASSUME pc'[w] \in Synced \ {"act"} PROVE db'[cur'[w]].op = "linked"
  BY <1>0, <1>3, <1>6 DEF StandSound
<1> QED BY <1>1, <1>2, <1>4, <1>5, <1>6 DEF StandSound

\* What is put on the wire, or lost on it, is about the document of a linked part.
LEMMA LeasedLate ==
  ASSUME TypeInv, NEW w \in Workers, Leased(w), NEW m \in lateDoc', m \notin lateDoc
  PROVE  /\ pc[w] \in {"distribute", "delPost", "cancelPost"}
         /\ m = <<pc[w], rows[w][cur[w]].pid>>
         /\ pc[w] = "distribute" => posted' = [posted EXCEPT ![cur[w]] = @ + 1]
<1>1. CASE Throw(w) \/ Walking(w) \/ Syncing(w)
  BY <1>1 DEF Throw, Walking, Return, SkipPart, StartSync, StartRecover, DiscardLocal,
     Purge, Syncing, Get, Commit, native
<1>2. CASE Crash(w)
  BY <1>2 DEF Crash, OnTheWire, Row
<1>3. CASE Creating(w)
  BY <1>3 DEF Creating, MarkCreating, PostRefused, PostUncertain, SaveId, SaveFailure,
     SaveFound, HookGet, HookLink, PostAccepted, Recover, native
<1>4. CASE Commanding(w)
  BY <1>4 DEF Commanding, ActNext, ActRead, ActHook, ActSend, ActDelete, ActCancel,
     MarkSending, DistributeAccepted, DistributeRefused, DistributeUncertain,
     SaveSendFailure, MarkSent, DeleteGet, CancelGet, DeleteAccepted, CancelAccepted,
     DeleteOrCancelFails, Discard, native, Row
<1> QED BY <1>1, <1>2, <1>3, <1>4 DEF Leased

LEMMA UnleasedLate ==
  ASSUME BaseInv, [Next]_vars, \A w \in Workers : ~Leased(w)
  PROVE  lateDoc' \subseteq lateDoc
<1>0. TypeInv /\ Exclusive
  BY DEF BaseInv
<1>1. CASE \E w \in Workers : Outer(w) \/ Acquire(w)
  BY <1>0, <1>1, OuterKeeps, AcquireKeeps DEF native
<1>2. CASE Environment \/ UNCHANGED vars
  BY <1>2 DEF Environment, LateCreateLost, LateCreateArrives, LateArrives, ReceiveWebhook,
     IgnoreHook, NativeMove, NativeDuplicate, native, vars
<1> QED BY <1>1, <1>2, Split

LEMMA NextLate ==
  ASSUME BaseInv, BaseInv', LinkInv, StrandInv, ContractInv, [Next]_vars
  PROVE  LateSound'
<1> SUFFICES ASSUME NEW m \in lateDoc', NEW d, d = m[2], NEW p, p = docs'[d].part
             PROVE  /\ Named(d, p)' /\ db'[p].op \in {"linked", "discarded"}
                    /\ m[1] = "distribute" => posted'[p] > 0
  BY DEF LateSound, Named, Stored
<1>0. /\ TypeInv /\ docs \in [Docs -> Document] /\ DocsSound
      /\ db \in [Parts -> PartRow] /\ posted \in [Parts -> Nat]
  BY DEF BaseInv, TypeInv, TypeOK, NativeOK, TablesOK, GhostsOK
<1>1. ASSUME NEW q, Named(d, q) PROVE Named(d, p)' /\ q = p /\ p \in Parts
  <2>1. Named(d, q)'
    BY <1>1, DocsStay
  <2>2. q = p
    BY <2>1 DEF Named, Stored
  <2> QED BY <1>0, <1>1, <2>1, <2>2 DEF Named, Stored, DocsSound
<1>2. CASE \A w \in Workers : ~Leased(w)
  <2>1. m \in lateDoc /\ UNCHANGED <<db, posted>>
    BY <1>2, UnleasedLate, Unleased DEF ghosts
  <2>2. Named(d, docs[d].part)
    BY <2>1 DEF ContractInv, LateSound, Named, Stored
  <2> QED BY <1>1, <2>1, <2>2 DEF ContractInv, LateSound
<1>3. ASSUME NEW w \in Workers, Leased(w)
      PROVE  /\ Named(d, p)' /\ db'[p].op \in {"linked", "discarded"}
             /\ m[1] = "distribute" => posted'[p] > 0
  <2>0. /\ RowsKept(w) /\ StandSound(w) /\ StrandSound(w)
        /\ posted' \in {posted, [posted EXCEPT ![cur[w]] = @ + 1]}
        /\ pc[w] # "scan" => cur[w] \in Parts
    BY <1>0, <1>3, LeasedRows, LeasedGhosts DEF ContractInv, StrandInv, TypeInv, CallsSound, Sound
  <2>1. ASSUME m \in lateDoc
        PROVE  /\ Named(d, p)' /\ p \in Parts /\ db[p].op \in {"linked", "discarded"}
               /\ m[1] = "distribute" => posted[p] > 0
    <3>1. Named(d, docs[d].part)
      BY <2>1 DEF ContractInv, LateSound, Named, Stored
    <3> QED BY <1>1, <2>1, <3>1 DEF ContractInv, LateSound
  <2>2. ASSUME m \notin lateDoc
        PROVE  /\ Named(d, p)' /\ p = cur[w] /\ p \in Parts /\ db[p].op = "linked"
               /\ m[1] = "distribute" => posted' = [posted EXCEPT ![p] = @ + 1]
    <3>1. /\ pc[w] \in {"distribute", "delPost", "cancelPost"}
          /\ m[1] = pc[w] /\ d = rows[w][cur[w]].pid
          /\ pc[w] = "distribute" => posted' = [posted EXCEPT ![cur[w]] = @ + 1]
      BY <1>0, <1>3, <2>2, LeasedLate
    <3>2. cur[w] \in Parts /\ d \in Docs /\ d # NoDoc
      BY <1>0, <2>0, <3>1 DEF TypeInv, CallsSound, Sound, OnDocument
    <3>3. Named(d, cur[w])
      BY <3>1, <3>2 DEF LinkInv, Names
    <3> QED BY <1>1, <2>0, <3>1, <3>2, <3>3 DEF StandSound, Synced
  <2>3. ASSUME p \in Parts, db[p].op \in {"linked", "discarded"}
        PROVE  db'[p].op \in {"linked", "discarded"}
    <3>1. CASE p # cur[w]
      BY <2>0, <2>3, <3>1 DEF RowsKept
    <3>2. CASE p = cur[w]
      <4>1. ~SaveFailure(w) \/ db[p].pid # NoDoc
        BY <2>0, <2>3, <3>2 DEF SaveFailure, StrandSound, Informed, LinkInv, StateAgrees
      <4> QED BY <1>0, <1>3, <2>3, <3>2, <4>1, LeasedOps
    <3> QED BY <3>1, <3>2
  <2>4. \A q \in Parts : posted[q] > 0 => posted'[q] > 0
    BY <1>0, <2>0
  <2> QED BY <1>0, <2>1, <2>2, <2>3, <2>4
<1> QED BY <1>2, <1>3

LEMMA NextContract ==
  /\ BaseInv /\ BaseInv' /\ OnceInv /\ LinkInv /\ StrandInv /\ ProjectionInv /\ ContractInv
  /\ [Next]_vars
  => ContractInv'
<1> SUFFICES ASSUME BaseInv, BaseInv', OnceInv, LinkInv, StrandInv, ProjectionInv, ContractInv,
                    [Next]_vars
             PROVE  ContractInv'
  OBVIOUS
<1>1. LateSound'
  BY NextLate
<1>2. ASSUME NEW w \in Workers, Leased(w) PROVE ContractInv'
  <2>1. \A v \in Workers \ {w} : pc'[v] \notin Held
    BY <1>2, LeasedOwns, Alone DEF BaseInv, Own
  <2>2. \A v \in Workers \ {w} : StandSound(v)'
    BY <2>1 DEF StandSound, Unsaved, Synced, AsDraft, Held
  <2> QED BY <1>1, <1>2, <2>2, LeasedStand DEF ContractInv
<1>3. CASE \A w \in Workers : ~Leased(w)
  <2>1. UNCHANGED db
    BY <1>3, Unleased
  <2>2. ASSUME NEW w \in Workers PROVE StandSound(w)'
    <3>1. CASE pc'[w] \in Held \ {"scan", "get", "hookGet"}
      <4>1. UNCHANGED <<pc[w], cur[w], seen[w]>>
        BY <1>3, <3>1, Unleased
      <4> QED BY <2>1, <4>1 DEF ContractInv, StandSound
    <3>2. CASE pc'[w] \notin Held \ {"scan", "get", "hookGet"}
      BY <3>2 DEF StandSound, Unsaved, Synced, AsDraft, Held
    <3> QED BY <3>1, <3>2
  <2> QED BY <1>1, <2>2 DEF ContractInv
<1> QED BY <1>2, <1>3

LEMMA InitContract == Init => ContractInv
  BY DEF Init, ContractInv, LateSound, StandSound, Unsaved, Synced, AsDraft

LEMMA Contracted ==
  ASSUME "duplicate" \notin Moves
  PROVE  Spec => []ContractInv
<1> QED BY Base, Once, Linked, Strand, Projected, InitContract, NextContract, PTL DEF Spec
-----------------------------------------------------------------------------
(***************************************************************************)
(* The refinement.  A step that changes one part only, and that part as    *)
(* the contract allows, is a step of the contract.                         *)
(***************************************************************************)
KeepStage(p) == Stage(p)' = Stage(p)
KeepDocument(p) == NativeStatus(p)' = NativeStatus(p)
KeepShown(p) == db'[p].proj = db[p].proj
KeepTold(p) == Announcements(p)' = Announcements(p)
KeepMailed(p) == (posted'[p] > 0) = (posted[p] > 0)
Keep(p) ==
  KeepStage(p) /\ KeepDocument(p) /\ KeepShown(p) /\ KeepTold(p) /\ KeepMailed(p)

\* A new stage, and the document it needs.
StageMoves(p) ==
  \/ Stage(p) = "prepared" /\ Stage(p)' = "begun"
  \/ Stage(p) = "begun" /\ Stage(p)' = "refused" /\ NativeStatus(p) = "none"
  \/ Stage(p) = "begun" /\ Stage(p)' = "linked" /\ NativeStatus(p) # "none"
  \/ Stage(p) \in {"prepared", "refused"} /\ Stage(p)' = "discarded" /\ NativeStatus(p) = "none"
  \/ /\ Stage(p) = "linked" /\ Stage(p)' = "discarded"
     /\ NativeStatus(p) = "DELETED" /\ db[p].proj = "DRAFT"

DocumentMoves(p) ==
  \/ Stage(p) = "begun" /\ NativeStatus(p) = "none" /\ NativeStatus(p)' = "DRAFT"
  \/ /\ NativeStatus(p) = "DRAFT" /\ NativeStatus(p)' = "PENDING"
     /\ posted[p] > 0 \/ "send" \in Moves
  \/ NativeStatus(p) = "PENDING" /\ NativeStatus(p)' \in Final
  \/ /\ NativeStatus(p)' = "DELETED"
     /\ \/ NativeStatus(p) = "DRAFT"
        \/ NativeStatus(p) \in NativeStatuses /\ Stage(p) = "linked"

ShownMoves(p) ==
  /\ Stage(p) = "linked" /\ db'[p].proj \in NativeStatuses
  /\ Rank(db[p].proj) < Rank(db'[p].proj) /\ Reached(db'[p].proj, NativeStatus(p))
  /\ Announcements(p)' = IF Hr THEN Announcements(p) \union {db'[p].proj} ELSE Announcements(p)

MailedMoves(p) ==
  /\ Stage(p) = "linked" /\ db[p].proj = "DRAFT" /\ posted[p] = 0 /\ posted'[p] = 1
  /\ \/ KeepDocument(p)
     \/ NativeStatus(p) = "DRAFT" /\ NativeStatus(p)' = "PENDING"

Allowed(p) ==
  \/ Keep(p)
  \/ StageMoves(p) /\ KeepDocument(p) /\ KeepShown(p) /\ KeepTold(p) /\ KeepMailed(p)
  \/ DocumentMoves(p) /\ KeepStage(p) /\ KeepShown(p) /\ KeepTold(p) /\ KeepMailed(p)
  \/ ShownMoves(p) /\ KeepStage(p) /\ KeepDocument(p) /\ KeepMailed(p)
  \/ MailedMoves(p) /\ KeepStage(p) /\ KeepShown(p) /\ KeepTold(p)

LEMMA ContractRank ==
  ASSUME NEW s \in NativeStatuses \union {"none"}
  PROVE  Contract!Rank(s) = Rank(s)
  BY DEF Contract!Rank, Rank, Contract!Final, NativeStatuses

LEMMA ContractPassed ==
  ASSUME NEW s \in NativeStatuses, NEW t, Reached(s, t)
  PROVE  Contract!Passed(s, t)
  BY DEF Reached, Contract!Passed, Contract!Rank, Rank, Contract!Final, NativeStatuses

LEMMA Pointwise ==
  ASSUME TypeOK, NEW p \in Parts, \A q \in Parts \ {p} : Keep(q), Allowed(p)
  PROVE  [Contract!Next]_(Contract!vars)
<1> DEFINE stage == [q \in Parts |-> Stage(q)]
           document == [q \in Parts |-> NativeStatus(q)]
           shown == [q \in Parts |-> db[q].proj]
           told == [q \in Parts |-> Announcements(q)]
           mailed == [q \in Parts |-> posted[q] > 0]
<1>1. /\ KeepStage(p) => stage' = stage
      /\ stage' = [stage EXCEPT ![p] = Stage(p)']
      /\ stage[p] = Stage(p)
  BY DEF Keep, KeepStage
<1>2. /\ KeepDocument(p) => document' = document
      /\ document' = [document EXCEPT ![p] = NativeStatus(p)']
      /\ document[p] = NativeStatus(p)
  BY DEF Keep, KeepDocument
<1>3. /\ KeepShown(p) => shown' = shown
      /\ shown' = [shown EXCEPT ![p] = db'[p].proj]
      /\ shown[p] = db[p].proj
  BY DEF Keep, KeepShown
<1>4. /\ KeepMailed(p) => mailed' = mailed
      /\ mailed' = [mailed EXCEPT ![p] = posted'[p] > 0]
      /\ mailed[p] = (posted[p] > 0)
  BY Zenon DEF Keep, KeepMailed
<1>5. db[p].proj \in NativeStatuses \union {"none"} /\ posted[p] \in Nat
  BY DEF TypeOK, TablesOK, GhostsOK, PartRow
<1>6. /\ KeepTold(p) => told' = told
      /\ told' = [told EXCEPT ![p] = Announcements(p)']
      /\ told[p] = Announcements(p)
  BY DEF Keep, KeepTold
<1> HIDE DEF stage, document, shown, told, mailed
<1>7. CASE Keep(p)
  BY <1>1, <1>2, <1>3, <1>6, <1>4, <1>7
  DEF Keep, Contract!vars, stage, document, shown, told, mailed
<1>8. CASE StageMoves(p) /\ KeepDocument(p) /\ KeepShown(p) /\ KeepTold(p) /\ KeepMailed(p)
  <2>1. Contract!Begin(p) \/ Contract!Refuse(p) \/ Contract!Link(p) \/ Contract!Discard(p)
    BY <1>1, <1>2, <1>3, <1>6, <1>4, <1>8 DEF StageMoves, Contract!Begin, Contract!Refuse,
       Contract!Link, Contract!Discard, Contract!Become, stage, document, shown, told, mailed
  <2> QED BY <2>1 DEF Contract!Next, Contract!Step
<1>9. CASE DocumentMoves(p) /\ KeepStage(p) /\ KeepShown(p) /\ KeepTold(p) /\ KeepMailed(p)
  <2>1. Contract!Create(p) \/ Contract!Advance(p)
    BY <1>1, <1>2, <1>3, <1>6, <1>4, <1>9 DEF DocumentMoves, Contract!Create, Contract!Advance,
       Contract!Turn, Contract!Final, Contract!Live, Final, NativeStatuses, stage, document,
       shown, told, mailed
  <2> QED BY <2>1 DEF Contract!Next, Contract!Step
<1>10. CASE ShownMoves(p) /\ KeepStage(p) /\ KeepDocument(p) /\ KeepMailed(p)
  <2>1. PICK s \in NativeStatuses : s = db'[p].proj
    BY <1>10 DEF ShownMoves
  <2>2. s \in Contract!Live
    BY <2>1 DEF Contract!Live, Contract!Final, NativeStatuses
  <2>3. Contract!Rank(shown[p]) < Contract!Rank(s) /\ Contract!Passed(s, document[p])
    BY <1>2, <1>3, <1>5, <1>10, <2>1, ContractRank, ContractPassed DEF ShownMoves
  <2>4. told' = IF Hr THEN [told EXCEPT ![p] = @ \union {s}] ELSE told
    BY <1>6, <1>10, <2>1 DEF ShownMoves, KeepTold
  <2>5. Contract!Show(p, s)
    BY <1>1, <1>2, <1>3, <1>4, <1>10, <2>1, <2>3, <2>4 DEF ShownMoves, Contract!Show, stage,
       document, shown, told, mailed
  <2> QED BY <2>2, <2>5 DEF Contract!Next, Contract!Step
<1>11. CASE MailedMoves(p) /\ KeepStage(p) /\ KeepShown(p) /\ KeepTold(p)
  <2>1. (posted[p] > 0) = FALSE /\ (posted'[p] > 0) = TRUE
    BY <1>11 DEF MailedMoves
  <2>2. mailed[p] = FALSE /\ mailed' = [mailed EXCEPT ![p] = TRUE]
    BY <1>4, <2>1, Zenon
  <2>3. Contract!Mail(p)
    BY <1>1, <1>2, <1>3, <1>6, <1>11, <2>2 DEF MailedMoves, Contract!Mail, Contract!Turn, stage,
       document, shown, told, mailed
  <2> QED BY <2>3 DEF Contract!Next, Contract!Step
<1> QED BY <1>7, <1>8, <1>9, <1>10, <1>11 DEF Allowed

\* With one document per part the status of the part is that of the document.
LEMMA StatusIs ==
  ASSUME OnceInv, NEW d, NEW p, Named(d, p)
  PROVE  NativeStatus(p) = docs[d].status
<1>1. \A e \in Docs : Stored(e) /\ docs[e].part = p => e = d
  BY DEF OnceInv, AtMostOneDocument, Named, Stored
<1>2. d \in Docs /\ Stored(d) /\ docs[d].part = p
  BY DEF Named, Stored
<1> QED BY <1>1, <1>2 DEF NativeStatus

LEMMA StatusWillBe ==
  ASSUME OnceInv', NEW d, NEW p, Named(d, p)'
  PROVE  NativeStatus(p)' = docs'[d].status
<1>1. \A e \in Docs : Stored(e)' /\ docs'[e].part = p => e = d
  BY DEF OnceInv, AtMostOneDocument, Named, Stored
<1>2. d \in Docs /\ Stored(d)' /\ docs'[d].part = p
  BY DEF Named, Stored
<1> QED BY <1>1, <1>2 DEF NativeStatus

LEMMA StatusNone ==
  ASSUME NEW p, \A d \in Docs : ~Named(d, p)
  PROVE  NativeStatus(p) = "none"
  BY DEF NativeStatus, Named

\* A step that touches one document changes the status of its part only.
LEMMA OneTouched ==
  ASSUME OnceInv, OnceInv', NEW d \in Docs, NEW p, Named(d, p)',
         Stored(d) => docs[d].part = p, \A e \in Docs \ {d} : docs'[e] = docs[e]
  PROVE  /\ NativeStatus(p)' = docs'[d].status
         /\ \A q \in Parts \ {p} : KeepDocument(q)
<1>1. NativeStatus(p)' = docs'[d].status
  BY StatusWillBe
<1>2. ASSUME NEW q \in Parts \ {p} PROVE KeepDocument(q)
  <2>1. CASE \E e \in Docs : Named(e, q)
    <3>1. PICK e \in Docs : Named(e, q)
      BY <2>1
    <3>2. e # d /\ docs'[e] = docs[e]
      BY <3>1 DEF Named, Stored
    <3>3. Named(e, q)'
      BY <3>1, <3>2 DEF Named, Stored
    <3> QED BY <3>1, <3>2, <3>3, StatusIs, StatusWillBe DEF KeepDocument
  <2>2. CASE \A e \in Docs : ~Named(e, q)
    <3>1. \A e \in Docs : ~Named(e, q)'
      BY <2>2 DEF Named, Stored
    <3> QED BY <2>2, <3>1 DEF KeepDocument, NativeStatus, Named
  <2> QED BY <2>1, <2>2
<1> QED BY <1>1, <1>2

\* The steps of a call that may have mailed the signers.
Mails(w) == DistributeAccepted(w) \/ DistributeUncertain(w) \/ (Crash(w) /\ pc[w] = "distribute")

LEMMA LeasedUnmailed ==
  ASSUME TypeInv, NEW w \in Workers, Leased(w), ~Mails(w)
  PROVE  UNCHANGED posted
<1>1. CASE Throw(w) \/ Crash(w) \/ Walking(w) \/ Syncing(w)
  BY <1>1 DEF Mails, Throw, Crash, Walking, Return, SkipPart, StartSync, StartRecover,
     DiscardLocal, Purge, Syncing, Get, Commit, ghosts
<1>2. CASE Creating(w)
  BY <1>2 DEF Creating, MarkCreating, PostRefused, PostUncertain, SaveId,
     SaveFailure, SaveFound, HookGet, HookLink, PostAccepted, Recover, ghosts
<1>3. CASE Commanding(w)
  BY <1>3 DEF Mails, Commanding, ActNext, ActRead, ActHook, ActSend, ActDelete, ActCancel,
     MarkSending, DistributeRefused, SaveSendFailure, MarkSent, DeleteGet, DeleteAccepted,
     CancelGet, CancelAccepted, DeleteOrCancelFails, Discard, ghosts
<1> QED BY <1>1, <1>2, <1>3 DEF Leased

\* What may still be created is begun and has no document.
LEMMA LateBegun ==
  ASSUME BaseInv, OnceInv, LinkInv, StrandInv, NEW p \in lateCreate
  PROVE  p \in Parts /\ Stage(p) = "begun" /\ NativeStatus(p) = "none"
<1>0. p \in Parts /\ db \in [Parts -> PartRow] /\ docs \in [Docs -> Document]
  BY DEF BaseInv, TypeInv, TypeOK, NativeOK, TablesOK
<1>1. \A d \in Docs : ~Named(d, p)
  BY DEF OnceInv, LateFresh, Named
<1>2. db[p].op \notin {"prepared", "failed", "discarded"}
  BY <1>0 DEF OnceInv, PreparedFresh, StrandInv, RowsGone, Fresh, Gone
<1>3. db[p].op # "linked"
  BY <1>0, <1>1 DEF LinkInv, StateAgrees, Names, Named, Stored
<1>4. db[p].op \in {"creating", "unknown"}
  BY <1>0, <1>2, <1>3 DEF PartRow, OperationStates
<1> QED BY <1>0, <1>1, <1>4, StatusNone DEF Stage

\* Everything that is known of a state.
AllInv ==
  /\ BaseInv /\ OnceInv /\ AnnouncedInv /\ LinkInv /\ StrandInv /\ SendInv
  /\ ProjectionInv /\ ContractInv

\* The stage is the operation state, with 'creating' and 'unknown' as one.
LEMMA StageIs ==
  ASSUME NEW p
  PROVE  /\ db[p].op = "linked" => Stage(p) = "linked"
         /\ db[p].op \in {"creating", "unknown"} => Stage(p) = "begun"
         /\ db[p].op = "failed" => Stage(p) = "refused"
         /\ db[p].op = "prepared" => Stage(p) = "prepared"
         /\ db[p].op = "discarded" => Stage(p) = "discarded"
<1> DEFINE o == db[p].op
<1>1. Stage(p) = CASE o \in {"creating", "unknown"} -> "begun" [] o = "failed" -> "refused"
                   [] OTHER -> o
  BY DEF Stage
<1> HIDE DEF o
<1>2. /\ o = "linked" => Stage(p) = "linked"
      /\ o \in {"creating", "unknown"} => Stage(p) = "begun"
      /\ o = "failed" => Stage(p) = "refused"
      /\ o = "prepared" => Stage(p) = "prepared"
      /\ o = "discarded" => Stage(p) = "discarded"
  BY <1>1
<1> QED BY <1>2 DEF o

LEMMA StageWillBe ==
  ASSUME NEW p
  PROVE  /\ db'[p].op = "linked" => Stage(p)' = "linked"
         /\ db'[p].op \in {"creating", "unknown"} => Stage(p)' = "begun"
         /\ db'[p].op = "failed" => Stage(p)' = "refused"
         /\ db'[p].op = "discarded" => Stage(p)' = "discarded"
<1> DEFINE o == db'[p].op
<1>1. Stage(p)' = CASE o \in {"creating", "unknown"} -> "begun" [] o = "failed" -> "refused"
                    [] OTHER -> o
  BY DEF Stage
<1> HIDE DEF o
<1>2. /\ o = "linked" => Stage(p)' = "linked"
      /\ o \in {"creating", "unknown"} => Stage(p)' = "begun"
      /\ o = "failed" => Stage(p)' = "refused"
      /\ o = "discarded" => Stage(p)' = "discarded"
  BY <1>1
<1> QED BY <1>2 DEF o

LEMMA StageStays ==
  ASSUME NEW p, db'[p].op = db[p].op
  PROVE  KeepStage(p)
  BY DEF KeepStage, Stage

\* The document a call works on, and the one its part has, are the same.
LEMMA OwnDocument ==
  ASSUME AllInv, NEW w \in Workers, NEW p \in Parts, cur[w] = p, pc[w] \in OnDocument
  PROVE  /\ rows[w][p].pid \in Docs /\ Named(rows[w][p].pid, p)
         /\ NativeStatus(p) = docs[rows[w][p].pid].status
         /\ NativeStatus(p) \in NativeStatuses \union {"DELETED"}
<1> DEFINE d == rows[w][p].pid
<1>1. d \in Docs /\ d # NoDoc
  BY DEF AllInv, BaseInv, TypeInv, CallsSound, Sound
<1>2. Named(d, p)
  BY <1>1 DEF AllInv, LinkInv, Names
<1>3. NativeStatus(p) = docs[d].status
  BY <1>2, StatusIs DEF AllInv
<1>4. docs[d].status \in DocStates \ {"ABSENT"}
  BY <1>1, <1>2 DEF AllInv, BaseInv, TypeInv, TypeOK, NativeOK, Document, Named, Stored
<1> QED BY <1>1, <1>2, <1>3, <1>4 DEF DocStates

\* A step that changes the status of one document.
LEMMA TouchStatus ==
  ASSUME AllInv, OnceInv', NEW d \in Docs, NEW p \in Parts, Named(d, p),
         NEW s \in NativeStatuses \union {"DELETED"}, SetStatus(d, s)
  PROVE  NativeStatus(p)' = s /\ \A q \in Parts \ {p} : KeepDocument(q)
<1>1. docs \in [Docs -> Document] /\ s \in DocStates
  BY DEF AllInv, BaseInv, TypeInv, TypeOK, NativeOK, DocStates
<1>2. /\ docs'[d].status = s /\ docs'[d].part = docs[d].part
      /\ \A e \in Docs \ {d} : docs'[e] = docs[e]
  BY <1>1, StatusType DEF SetStatus
<1>3. Named(d, p)'
  BY <1>2 DEF Named, Stored, NativeStatuses
<1>4. docs[d].part = p
  BY DEF Named
<1>5. NativeStatus(p)' = docs'[d].status /\ \A q \in Parts \ {p} : KeepDocument(q)
  BY <1>2, <1>3, <1>4, OneTouched DEF AllInv
<1> QED BY <1>2, <1>5

\* What a call leaves alone.
LEMMA LeasedKeeps ==
  ASSUME TypeInv, NEW w \in Workers, Leased(w), NEW q \in Parts
  PROVE  /\ q # cur[w] => KeepStage(q) /\ KeepShown(q) /\ KeepTold(q) /\ KeepMailed(q)
         /\ ~Mails(w) => KeepMailed(q)
         /\ ~Applies(w) => KeepDocument(q)
         /\ ~Commits(w) => KeepShown(q) /\ KeepTold(q)
<1>0. /\ RowsKept(w) /\ posted \in [Parts -> Nat]
      /\ posted' \in {posted, [posted EXCEPT ![cur[w]] = @ + 1]}
  BY LeasedRows, LeasedGhosts DEF TypeInv, TypeOK, GhostsOK
<1>1. ASSUME q # cur[w] PROVE KeepStage(q) /\ KeepShown(q) /\ KeepTold(q) /\ KeepMailed(q)
  <2>1. db'[q] = db[q] /\ posted'[q] = posted[q]
    BY <1>0, <1>1 DEF RowsKept
  <2>2. \A s : <<q, s>> \in announced' <=> <<q, s>> \in announced
    <3>1. CASE Commits(w)
      <4>1. \/ announced' = announced
            \/ announced' = announced \union {<<cur[w], seen[w].status>>}
        BY <3>1, CommitFields
      <4> QED BY <1>1, <4>1
    <3>2. CASE ~Commits(w)
      BY <3>2, LeasedTables
    <3> QED BY <3>1, <3>2
  <2> QED BY <2>1, <2>2, StageStays DEF KeepShown, KeepTold, Announcements, KeepMailed
<1>2. ~Mails(w) => KeepMailed(q)
  BY LeasedUnmailed DEF KeepMailed
<1>3. ~Applies(w) => KeepDocument(q)
  BY LeasedUntouched DEF KeepDocument, NativeStatus, Stored
<1>4. ~Commits(w) => KeepShown(q) /\ KeepTold(q)
  BY LeasedTables DEF KeepShown, KeepTold, Announcements
<1> QED BY <1>1, <1>2, <1>3, <1>4

\* A create, a distribute, a delete or a cancel that Documenso applies.
LEMMA AppliedAllowed ==
  ASSUME AllInv, OnceInv', NEW w \in Workers, Leased(w), Applies(w)
  PROVE  \E p \in Parts : Allowed(p) /\ \A q \in Parts \ {p} : Keep(q)
<1>0. /\ TypeInv /\ docs \in [Docs -> Document] /\ StandSound(w) /\ SendSound(w)
      /\ StrandSound(w) /\ posted \in [Parts -> Nat] /\ pc[w] # "scan"
  BY DEF AllInv, BaseInv, TypeInv, TypeOK, NativeOK, GhostsOK, ContractInv, SendInv,
     StrandInv, Applies, PostAccepted, DistributeAccepted, DeleteAccepted, CancelAccepted
<1>1. PICK p \in Parts : cur[w] = p
  BY <1>0 DEF TypeInv, CallsSound, Sound
<1>2. ~Commits(w)
  BY DEF Applies, Commits, Commit, PostAccepted, DistributeAccepted, DeleteAccepted,
     CancelAccepted
<1>3. /\ \A q \in Parts \ {p} : KeepStage(q) /\ KeepShown(q) /\ KeepTold(q) /\ KeepMailed(q)
      /\ KeepShown(p) /\ KeepTold(p)
  BY <1>0, <1>1, <1>2, LeasedKeeps
<1> SUFFICES Allowed(p) /\ \A q \in Parts \ {p} : KeepDocument(q)
  BY <1>3 DEF Keep
<1> DEFINE d == rows[w][p].pid
<1>4. ASSUME NEW e \in Docs, PostAccepted(w, e)
      PROVE  Allowed(p) /\ \A q \in Parts \ {p} : KeepDocument(q)
  <2>1. /\ pc[w] = "post" /\ NewDocument(e, p)
        /\ UNCHANGED <<db, posted>>
    BY <1>1, <1>4 DEF PostAccepted, tables, ghosts
  <2>2. Stage(p) = "begun" /\ KeepStage(p) /\ KeepShown(p) /\ KeepMailed(p)
    BY <1>0, <1>1, <2>1, StageIs, StageStays DEF StrandSound, KeepShown, KeepMailed
  <2>3. NativeStatus(p) = "none"
    BY <1>1, <2>1, StatusNone DEF AllInv, OnceInv, PostFresh, Fresh, Named
  <2>4. /\ docs'[e].part = p /\ docs'[e].status = "DRAFT" /\ ~Stored(e)
        /\ \A f \in Docs \ {e} : docs'[f] = docs[f]
    BY <1>0, <2>1 DEF NewDocument, Stored
  <2>5. Named(e, p)'
    BY <2>4 DEF Named, Stored
  <2>6. NativeStatus(p)' = "DRAFT" /\ \A q \in Parts \ {p} : KeepDocument(q)
    BY <2>4, <2>5, OneTouched DEF AllInv
  <2> QED BY <1>3, <2>2, <2>3, <2>6 DEF Allowed, DocumentMoves
<1>5. ASSUME pc[w] \in OnDocument
      PROVE  /\ d \in Docs /\ Named(d, p) /\ NativeStatus(p) = docs[d].status
  BY <1>1, <1>5, OwnDocument
<1>6. CASE DistributeAccepted(w)
  <2>1. /\ pc[w] = "distribute" /\ docs[d].status \in {"DRAFT", "PENDING"}
        /\ SetStatus(d, "PENDING") /\ posted' = [posted EXCEPT ![p] = @ + 1] /\ UNCHANGED db
    BY <1>1, <1>6 DEF DistributeAccepted, Row, tables
  <2>2. db[p].op = "linked" /\ db[p].proj = "DRAFT" /\ posted[p] = 0
    BY <1>0, <1>1, <2>1 DEF StandSound, Synced, AsDraft, SendSound
  <2>3. Stage(p) = "linked" /\ posted'[p] = 1 /\ KeepStage(p) /\ KeepShown(p)
    BY <1>0, <2>1, <2>2, StageIs, StageStays DEF KeepShown
  <2>4. NativeStatus(p) = docs[d].status
    BY <1>5, <2>1 DEF OnDocument
  <2>5. NativeStatus(p)' = "PENDING" /\ \A q \in Parts \ {p} : KeepDocument(q)
    BY <1>5, <2>1, TouchStatus DEF OnDocument, NativeStatuses
  <2> QED BY <1>3, <2>1, <2>2, <2>3, <2>4, <2>5 DEF Allowed, MailedMoves, KeepDocument
<1>7. CASE DeleteAccepted(w) \/ CancelAccepted(w)
  <2>1. /\ pc[w] \in {"delPost", "cancelPost"} /\ UNCHANGED <<db, posted>>
        /\ \/ docs[d].status \in NativeStatuses /\ SetStatus(d, "DELETED")
           \/ docs[d].status = "PENDING" /\ SetStatus(d, "CANCELLED")
    BY <1>1, <1>7 DEF DeleteAccepted, CancelAccepted, Row, Live, tables, ghosts
  <2>2. db[p].op = "linked"
    BY <1>0, <1>1, <2>1 DEF StandSound, Synced
  <2>3. Stage(p) = "linked" /\ KeepStage(p) /\ KeepShown(p) /\ KeepMailed(p)
    BY <2>1, <2>2, StageIs, StageStays DEF KeepShown, KeepMailed
  <2>4. d \in Docs /\ Named(d, p) /\ NativeStatus(p) = docs[d].status
    BY <1>5, <2>1 DEF OnDocument
  <2>5. CASE docs[d].status \in NativeStatuses /\ SetStatus(d, "DELETED")
    <3>1. NativeStatus(p)' = "DELETED" /\ \A q \in Parts \ {p} : KeepDocument(q)
      BY <2>4, <2>5, TouchStatus
    <3> QED BY <1>3, <2>3, <2>4, <2>5, <3>1 DEF Allowed, DocumentMoves
  <2>6. CASE docs[d].status = "PENDING" /\ SetStatus(d, "CANCELLED")
    <3>1. NativeStatus(p)' = "CANCELLED" /\ \A q \in Parts \ {p} : KeepDocument(q)
      BY <2>4, <2>6, TouchStatus DEF NativeStatuses
    <3> QED BY <1>3, <2>3, <2>4, <2>6, <3>1 DEF Allowed, DocumentMoves, Final
  <2> QED BY <2>1, <2>5, <2>6
<1> QED BY <1>4, <1>6, <1>7 DEF Applies

\* A distribute whose outcome nobody knows.
LEMMA MailedAllowed ==
  ASSUME AllInv, NEW w \in Workers, Leased(w), Mails(w), ~Applies(w)
  PROVE  \E p \in Parts : Allowed(p) /\ \A q \in Parts \ {p} : Keep(q)
<1>0. /\ TypeInv /\ StandSound(w) /\ SendSound(w) /\ posted \in [Parts -> Nat]
      /\ DistributeUncertain(w) \/ (Crash(w) /\ pc[w] = "distribute")
  BY DEF AllInv, BaseInv, TypeInv, TypeOK, GhostsOK, ContractInv, SendInv, Mails, Applies
<1>1. pc[w] = "distribute" /\ UNCHANGED db /\ posted' = [posted EXCEPT ![cur[w]] = @ + 1]
  BY <1>0 DEF DistributeUncertain, Crash, tables
<1>2. PICK p \in Parts : cur[w] = p
  BY <1>0, <1>1 DEF TypeInv, CallsSound, Sound
<1>3. db[p].op = "linked" /\ db[p].proj = "DRAFT" /\ posted[p] = 0
  BY <1>0, <1>1, <1>2 DEF StandSound, Synced, AsDraft, SendSound
<1>4. Stage(p) = "linked" /\ KeepStage(p) /\ KeepShown(p) /\ posted'[p] = 1
  BY <1>0, <1>1, <1>2, <1>3, StageIs, StageStays DEF KeepShown
<1>5. KeepDocument(p) /\ KeepTold(p) /\ \A q \in Parts \ {p} : Keep(q)
  <2>1. ~Commits(w)
    BY <1>1 DEF Commits, Commit
  <2> QED BY <1>0, <1>2, <2>1, LeasedKeeps DEF Keep
<1> QED BY <1>3, <1>4, <1>5 DEF Allowed, MailedMoves

\* A commit shows what its call read, which the document has not left behind.
LEMMA CommitAllowed ==
  ASSUME AllInv, NEW w \in Workers, Leased(w), Commits(w)
  PROVE  \E p \in Parts : Allowed(p) /\ \A q \in Parts \ {p} : Keep(q)
<1>0. TypeInv /\ db \in [Parts -> PartRow] /\ ProjectionSound(w) /\ StrandSound(w)
  BY DEF AllInv, BaseInv, TypeInv, TypeOK, TablesOK, ProjectionInv, StrandInv
<1>1. PICK p \in Parts : cur[w] = p
  BY <1>0, CommitFields
<1> DEFINE s == seen[w].status
           d == rows[w][p].pid
<1>2. /\ pc[w] \in {"commit", "commit2"} /\ s \in NativeStatuses
      /\ db'[p].op = "linked" /\ db'[p].proj = s /\ UNCHANGED <<docs, posted>>
  BY <1>0, <1>1, CommitFields DEF native, ghosts
<1>3. /\ d \in Docs /\ d # NoDoc /\ NativeStatus(p) = docs[d].status
      /\ KeepDocument(p) /\ KeepMailed(p)
  BY <1>1, <1>2, OwnDocument DEF OnDocument, KeepDocument, NativeStatus, Stored, KeepMailed
<1>4. db[p].op = "linked"
  BY <1>0, <1>1, <1>2, <1>3 DEF AllInv, LinkInv, StateAgrees, StrandSound, Informed
<1>5. Stage(p) = "linked" /\ KeepStage(p)
  BY <1>2, <1>4, StageIs, StageStays
<1>6. \/ KeepShown(p)
      \/ Rank(db[p].proj) < Rank(s)
  <2>1. db[p].proj \in NativeStatuses \union {"none"}
    BY <1>0 DEF PartRow
  <2>2. db[p].proj # "none" => Reached(db[p].proj, s)
    BY <1>0, <1>1, <1>2 DEF ProjectionSound
  <2> QED BY <1>2, <2>1, <2>2 DEF KeepShown, Reached, Rank, NativeStatuses
<1>7. Reached(s, NativeStatus(p))
  BY <1>0, <1>1, <1>2, <1>3 DEF ProjectionSound
<1>8. /\ KeepShown(p) => KeepTold(p)
      /\ Announcements(p)' = IF Hr THEN Announcements(p) \union {s} ELSE Announcements(p)
  <2>1. announced' = IF Hr /\ rows[w][p].proj # s THEN announced \union {<<p, s>>} ELSE announced
    BY <1>0, <1>1, CommitFields
  <2>2. Hr /\ rows[w][p].proj = s => <<p, s>> \in announced
    BY <1>2 DEF AllInv, AnnouncedInv, Told, NativeStatuses
  <2>3. KeepShown(p) /\ Hr => <<p, s>> \in announced
    BY <1>2 DEF AllInv, AnnouncedInv, Told, NativeStatuses, KeepShown
  <2>4. \A x \in NativeStatuses : <<p, x>> \in announced' <=>
          <<p, x>> \in announced \/ (Hr /\ x = s)
    BY <1>2, <2>1, <2>2
  <2> QED BY <1>2, <2>3, <2>4 DEF KeepTold, Announcements
<1>9. Allowed(p)
  BY <1>2, <1>3, <1>5, <1>6, <1>7, <1>8 DEF Allowed, Keep, ShownMoves
<1>10. ~Applies(w) /\ ~Mails(w)
  BY <1>2 DEF Applies, Mails, PostAccepted, DistributeAccepted, DeleteAccepted, CancelAccepted,
     DistributeUncertain
<1> QED BY <1>0, <1>1, <1>9, <1>10, LeasedKeeps DEF Keep

\* What a call makes of its part, besides.
LEMMA StageAllowed ==
  ASSUME AllInv, NEW w \in Workers, Leased(w), NEW p \in Parts, cur[w] = p, ~Commits(w)
  PROVE  KeepStage(p) \/ StageMoves(p)
<1>0. /\ TypeInv /\ db \in [Parts -> PartRow] /\ StandSound(w) /\ StrandSound(w)
      /\ docs \in [Docs -> Document]
  BY DEF AllInv, BaseInv, TypeInv, TypeOK, TablesOK, NativeOK, ContractInv, StrandInv
<1>1. CASE db'[p].op = db[p].op
  BY <1>1, StageStays
<1>2. CASE (SaveId(w) \/ SaveFound(w) \/ HookLink(w)) /\ db'[p].op = "linked"
  <2>1. pc[w] \in {"saveId", "saveFound", "hookLink"}
    BY <1>2 DEF SaveId, SaveFound, HookLink
  <2>2. Named(found[w], p)
    BY <2>1 DEF AllInv, LinkInv, HoldsFound
  <2>3. NativeStatus(p) # "none"
    BY <1>0, <2>2, StatusIs DEF AllInv, Named, Stored, Document, DocStates, NativeStatuses
  <2>4. db[p].op \notin {"prepared", "failed", "discarded"}
    BY <1>0, <2>1, <2>2 DEF AllInv, OnceInv, PreparedFresh, StrandInv, RowsGone, Fresh, Named,
       Stored, StrandSound, Informed
  <2>5. db[p].op \in {"creating", "unknown", "linked"}
    BY <1>0, <2>4 DEF PartRow, OperationStates
  <2>6. Stage(p)' = "linked" /\ Stage(p) \in {"begun", "linked"}
    BY <1>2, <2>5, StageIs, StageWillBe
  <2> QED BY <2>3, <2>6 DEF StageMoves, KeepStage
<1>3. CASE db[p].op = "prepared" /\ db'[p].op = "creating"
  BY <1>3, StageIs, StageWillBe DEF StageMoves
<1>4. CASE /\ SaveFailure(w) /\ db[p].pid = NoDoc
           /\ db'[p].op = IF pc[w] = "saveFailed" THEN "failed" ELSE "unknown"
  <2>1. pc[w] \in {"saveFailed", "saveUnknown"} /\ db[p].op = "creating"
    BY <1>0, <1>4 DEF SaveFailure, StandSound, Unsaved, AllInv, LinkInv, StateAgrees
  <2>2. CASE pc[w] = "saveFailed"
    <3>1. NativeStatus(p) = "none"
      BY <1>0, <2>2, StatusNone DEF StrandSound, Fresh, Named
    <3> QED BY <1>4, <2>1, <2>2, <3>1, StageIs, StageWillBe DEF StageMoves
  <2>3. CASE pc[w] = "saveUnknown"
    BY <1>4, <2>1, <2>3, StageIs, StageWillBe DEF KeepStage
  <2> QED BY <2>1, <2>2, <2>3
<1>5. CASE DiscardLocal(w) /\ db'[p].op = "discarded"
  <2>1. rows[w][p] = db[p] /\ db[p].op \in {"prepared", "failed"}
    BY <1>5 DEF DiscardLocal, Scanning, Row, Held, Ahead, AllInv, BaseInv, RowsAhead
  <2>2. NativeStatus(p) = "none"
    BY <2>1, StatusNone DEF AllInv, OnceInv, PreparedFresh, StrandInv, RowsGone, Fresh, Named
  <2> QED BY <1>5, <2>1, <2>2, StageIs, StageWillBe DEF StageMoves
<1>6. CASE Discard(w) /\ db'[p].op = "discarded"
  <2> DEFINE d == rows[w][p].pid
  <2>1. pc[w] = "discard" /\ db[p].op = "linked" /\ db[p].proj = "DRAFT" /\ Gone(p)
    BY <1>0, <1>6 DEF Discard, StandSound, Synced, AsDraft, StrandSound
  <2>2. /\ d \in Docs /\ Named(d, p) /\ NativeStatus(p) = docs[d].status
        /\ NativeStatus(p) \in NativeStatuses \union {"DELETED"}
    BY <2>1, OwnDocument DEF OnDocument
  <2>3. NativeStatus(p) = "DELETED"
    BY <2>1, <2>2 DEF Gone, Live, Named
  <2> QED BY <1>6, <2>1, <2>3, StageIs, StageWillBe DEF StageMoves
<1> QED BY <1>0, <1>1, <1>2, <1>3, <1>4, <1>5, <1>6, LeasedOps

LEMMA LeasedAllowed ==
  ASSUME AllInv, OnceInv', NEW w \in Workers, Leased(w)
  PROVE  \E p \in Parts : Allowed(p) /\ \A q \in Parts \ {p} : Keep(q)
<1>0. TypeInv
  BY DEF AllInv, BaseInv
<1>1. CASE Applies(w) \/ Mails(w) \/ Commits(w)
  BY <1>1, AppliedAllowed, MailedAllowed, CommitAllowed
<1>2. CASE ~Applies(w) /\ ~Mails(w) /\ ~Commits(w)
  <2>1. \A q \in Parts : /\ KeepDocument(q) /\ KeepShown(q) /\ KeepTold(q) /\ KeepMailed(q)
                         /\ q # cur[w] => KeepStage(q)
    BY <1>0, <1>2, LeasedKeeps
  <2>2. CASE cur[w] \in Parts
    <3>1. PICK p \in Parts : cur[w] = p
      BY <2>2
    <3>2. Allowed(p)
      BY <1>2, <2>1, <3>1, StageAllowed DEF Allowed, Keep
    <3> QED BY <2>1, <3>1, <3>2 DEF Keep
  <2>3. CASE cur[w] \notin Parts
    <3>1. 1 \in Parts
      BY DEF Parts
    <3> QED BY <2>1, <2>3, <3>1 DEF Allowed, Keep
  <2> QED BY <2>2, <2>3
<1> QED BY <1>1, <1>2

\* A step of people, or of a POST that arrives late, moves one document on.
LEMMA StatusAllowed ==
  ASSUME AllInv, OnceInv', NEW d \in Docs, NEW s \in NativeStatuses \union {"DELETED"},
         SetStatus(d, s), UNCHANGED <<db, announced, posted>>,
         LET p == docs[d].part
         IN  \/ docs[d].status = "DRAFT" /\ s = "PENDING" /\ (posted[p] > 0 \/ "send" \in Moves)
             \/ docs[d].status = "PENDING" /\ s \in Final
             \/ /\ s = "DELETED"
                /\ \/ docs[d].status = "DRAFT"
                   \/ docs[d].status \in NativeStatuses /\ db[p].op = "linked"
  PROVE  \E p \in Parts : Allowed(p) /\ \A q \in Parts \ {p} : Keep(q)
<1>1. PICK p \in Parts : Named(d, p)
  BY DEF AllInv, BaseInv, TypeInv, DocsSound, Named, Stored, NativeStatuses
<1>2. NativeStatus(p) = docs[d].status
  BY <1>1, StatusIs DEF AllInv
<1>3. NativeStatus(p)' = s /\ \A q \in Parts \ {p} : KeepDocument(q)
  BY <1>1, TouchStatus
<1>4. \A q \in Parts : KeepStage(q) /\ KeepShown(q) /\ KeepTold(q) /\ KeepMailed(q)
  BY StageStays DEF KeepShown, KeepTold, Announcements, KeepMailed
<1>5. DocumentMoves(p)
  BY <1>1, <1>2, <1>3, StageIs DEF DocumentMoves, Named
<1> QED BY <1>3, <1>4, <1>5 DEF Allowed, Keep

LEMMA UnleasedAllowed ==
  ASSUME "duplicate" \notin Moves, AllInv, OnceInv', [Next]_vars, \A w \in Workers : ~Leased(w)
  PROVE  \E p \in Parts : Allowed(p) /\ \A q \in Parts \ {p} : Keep(q)
<1>0. /\ TypeInv /\ Exclusive /\ docs \in [Docs -> Document]
      /\ UNCHANGED <<db, announced, posted>>
      /\ lateDoc \subseteq {"distribute", "delPost", "cancelPost"} \X Docs
      /\ 1 \in Parts
  BY Unleased DEF AllInv, BaseInv, TypeInv, TypeOK, NativeOK, ghosts, Parts
<1>1. \A q \in Parts : KeepStage(q) /\ KeepShown(q) /\ KeepTold(q) /\ KeepMailed(q)
  BY <1>0, StageStays DEF KeepShown, KeepTold, Announcements, KeepMailed
<1> DEFINE Goal == \E p \in Parts : Allowed(p) /\ \A q \in Parts \ {p} : Keep(q)
<1>2. ASSUME \A d \in Docs : /\ docs'[d].status = docs[d].status
                             /\ docs'[d].part = docs[d].part
      PROVE  Goal
  <2>1. ASSUME NEW q \in Parts PROVE KeepDocument(q)
    <3>1. CASE \E d \in Docs : Named(d, q)
      <4>1. PICK d \in Docs : Named(d, q)
        BY <3>1
      <4>2. Named(d, q)'
        BY <1>2, <4>1 DEF Named, Stored
      <4> QED BY <1>2, <4>1, <4>2, StatusIs, StatusWillBe DEF AllInv, KeepDocument
    <3>2. CASE \A d \in Docs : ~Named(d, q)
      <4>1. \A d \in Docs : ~Named(d, q)'
        BY <1>2, <3>2 DEF Named, Stored
      <4> QED BY <3>2, <4>1 DEF KeepDocument, NativeStatus, Named
    <3> QED BY <3>1, <3>2
  <2> QED BY <1>0, <1>1, <2>1 DEF Allowed, Keep
<1>3. UNCHANGED docs => Goal
  BY <1>2
<1>4. CASE \E w \in Workers : Outer(w) \/ Acquire(w)
  BY <1>0, <1>3, <1>4, OuterKeeps, AcquireKeeps DEF native
<1>5. ASSUME NEW p \in lateCreate, NEW d \in Docs, LateCreateArrives(p, d) PROVE Goal
  <2>1. p \in Parts /\ Stage(p) = "begun" /\ NativeStatus(p) = "none"
    BY LateBegun DEF AllInv
  <2>2. /\ docs'[d].part = p /\ docs'[d].status = "DRAFT" /\ ~Stored(d)
        /\ \A e \in Docs \ {d} : docs'[e] = docs[e]
    BY <1>0, <1>5, <2>1 DEF LateCreateArrives, NewDocument, Stored
  <2>3. Named(d, p)'
    BY <2>2 DEF Named, Stored
  <2>4. NativeStatus(p)' = "DRAFT" /\ \A q \in Parts \ {p} : KeepDocument(q)
    BY <2>2, <2>3, OneTouched DEF AllInv
  <2> QED BY <1>1, <2>1, <2>4 DEF Allowed, DocumentMoves, Keep
<1>6. ASSUME NEW m \in lateDoc, LateArrives(m) PROVE Goal
  <2> DEFINE d == m[2]
             s == Effect(m[1], d)
  <2>1. /\ d \in Docs /\ Stored(d) /\ db[docs[d].part].op \in {"linked", "discarded"}
        /\ m[1] = "distribute" => posted[docs[d].part] > 0
    BY <1>0 DEF AllInv, ContractInv, LateSound
  <2>2. CASE UNCHANGED docs
    BY <1>3, <2>2
  <2>3. CASE SetStatus(d, s) /\ s = docs[d].status
    <3>1. s \in DocStates
      BY <1>0, <2>1, <2>3 DEF Document
    <3>2. \A e \in Docs : docs'[e].status = docs[e].status /\ docs'[e].part = docs[e].part
      BY <1>0, <2>1, <2>3, <3>1, StatusType DEF SetStatus
    <3> QED BY <1>2, <3>2
  <2>4. CASE SetStatus(d, s) /\ s # docs[d].status
    <3>1. \/ m[1] = "distribute" /\ docs[d].status = "DRAFT" /\ s = "PENDING"
          \/ docs[d].status = "PENDING" /\ s = "CANCELLED"
          \/ Live(d) /\ s = "DELETED"
      BY <2>4 DEF Effect
    <3>2. Live(d) => db[docs[d].part].op = "linked"
      BY <1>0, <2>1 DEF AllInv, StrandInv, RowsGone, Gone, BaseInv, DocsSound, TypeInv, Stored
    <3> QED BY <1>0, <2>1, <2>4, <3>1, <3>2, StatusAllowed DEF Live, NativeStatuses, Final
  <2> QED BY <1>6, <2>2, <2>3, <2>4 DEF LateArrives
<1>7. ASSUME NEW d \in Docs, NativeMove(d) PROVE Goal
  <2>1. CASE \E e : Edited(d, "editFields", e) \/ Edited(d, "editRecipients", e)
    BY <1>0, <1>2, <2>1 DEF Edited, Document
  <2>2. CASE ~\E e : Edited(d, "editFields", e) \/ Edited(d, "editRecipients", e)
    <3>1. \E s \in NativeStatuses \union {"DELETED"} :
            /\ SetStatus(d, s)
            /\ \/ docs[d].status = "DRAFT" /\ s = "PENDING" /\ "send" \in Moves
               \/ docs[d].status = "PENDING" /\ s \in Final
               \/ docs[d].status = "DRAFT" /\ s = "DELETED"
      BY <1>7, <2>2 DEF NativeMove, Moved, NativeStatuses, Final
    <3> QED BY <1>0, <3>1, StatusAllowed
  <2> QED BY <2>1, <2>2
<1>8. ASSUME \/ \E p \in lateCreate : LateCreateLost(p)
             \/ \E d \in Docs : ReceiveWebhook(d) \/ IgnoreHook(d)
             \/ UNCHANGED vars
      PROVE  Goal
  BY <1>3, <1>8 DEF LateCreateLost, ReceiveWebhook, IgnoreHook, native, vars
<1> QED BY <1>4, <1>5, <1>6, <1>7, <1>8, Split DEF Environment, NativeDuplicate

LEMMA NextKeeps ==
  ASSUME "duplicate" \notin Moves, AllInv, OnceInv', [Next]_vars
  PROVE  [Contract!Next]_(Contract!vars)
<1>1. PICK p \in Parts : Allowed(p) /\ \A q \in Parts \ {p} : Keep(q)
  BY LeasedAllowed, UnleasedAllowed
<1> QED BY <1>1, Pointwise DEF AllInv, BaseInv, TypeInv

LEMMA InitKeeps == Init => Contract!Init
<1> SUFFICES ASSUME Init PROVE Contract!Init
  OBVIOUS
<1>1. ASSUME NEW p \in Parts
      PROVE  /\ Stage(p) = "prepared" /\ NativeStatus(p) = "none" /\ db[p].proj = "none"
             /\ Announcements(p) = {} /\ (posted[p] > 0) = FALSE
  <2>1. db[p].op = "prepared" /\ db[p].proj = "none" /\ (posted[p] > 0) = FALSE
    BY DEF Init, NewRow
  <2>2. NativeStatus(p) = "none"
    BY StatusNone DEF Init, Named, Stored, Absent
  <2>3. Announcements(p) = {}
    BY DEF Init, Announcements
  <2> QED BY <2>1, <2>2, <2>3, StageIs
<1> QED BY <1>1, Zenon DEF Contract!Init

\* AllInv is an invariant: the sum of the invariants above.
LEMMA AllHold ==
  ASSUME "duplicate" \notin Moves
  PROVE  Spec => []AllInv
<1>0. Init => SendInv /\ AnnouncedInv
  BY DEF Init, SendInv, SentMarked, SendSound, Undecided, AnnouncedInv, Told, NewRow, NoRows
<1>1. Spec => []SendInv /\ []AnnouncedInv
  BY <1>0, Base, NextSend, NextAnnounced, PTL DEF Spec
<1>2. /\ BaseInv /\ OnceInv /\ AnnouncedInv /\ LinkInv /\ StrandInv /\ SendInv
      /\ ProjectionInv /\ ContractInv
      => AllInv
  BY DEF AllInv
<1> QED BY <1>1, <1>2, Base, Once, Linked, Strand, Projected, Contracted, PTL

\* Every part keeps the contract: its document is created once, refused and
\* given up only when there is none to lose, its signers are mailed once and
\* from the draft that was shown, whichever calls run, die or come too late,
\* unless people copy documents.
THEOREM PartsKeepContract ==
  ASSUME "duplicate" \notin Moves
  PROVE  Spec => KeepsContract
<1>1. Init => Contract!Init
  BY InitKeeps
<1>2. AllInv /\ OnceInv' /\ [Next]_vars => [Contract!Next]_(Contract!vars)
  BY NextKeeps
<1> QED BY <1>1, <1>2, AllHold, Once, PTL DEF Spec, KeepsContract, Contract!Spec
-----------------------------------------------------------------------------
(***************************************************************************)
(* What no call and no repetition resolves: a create that never arrived,   *)
(* and a draft that was deleted before its row was marked.                 *)
(***************************************************************************)
\* The row awaits a document that does not exist and will not come.
Lost(p) == db[p].op = "unknown" /\ Fresh(p)

\* The document is gone, and no call is left that would say so in the row.
HalfDeleted(p) ==
  /\ db[p].op = "linked" /\ docs[db[p].pid].status = "DELETED"
  /\ \A w \in Workers : pc[w] = "discard" => cur[w] # p

LEMMA LostStays ==
  ASSUME "duplicate" \notin Moves, AllInv, [Next]_vars, NEW p \in Parts, Lost(p)
  PROVE  Lost(p)'
<1>0. BaseInv /\ TypeInv /\ LinkInv /\ StrandInv /\ ContractInv
  BY DEF AllInv, BaseInv
<1>1. ASSUME NEW w \in Workers, Leased(w) PROVE Lost(p)'
  <2>1. pc[w] = "post" => cur[w] # p
    BY <1>0 DEF StrandInv, StrandSound, Lost
  <2>2. Fresh(p)'
    BY <1>0, <1>1, <2>1, LeasedFresh DEF Lost
  <2>3. CASE cur[w] # p
    BY <1>0, <1>1, <2>2, <2>3, LeasedRows DEF RowsKept, Lost
  <2>4. CASE cur[w] = p
    <3>1. ~(SaveId(w) \/ SaveFound(w) \/ HookLink(w))
      <4>1. ~Named(found[w], p)
        BY DEF Lost, Fresh, Named, Stored
      <4> QED BY <1>0, <2>4, <4>1 DEF SaveId, SaveFound, HookLink, LinkInv, HoldsFound
    <3>2. SaveFailure(w) => pc[w] = "saveUnknown"
      BY <1>0, <2>4 DEF SaveFailure, ContractInv, StandSound, Unsaved, Lost
    <3>3. ~DiscardLocal(w)
      <4>1. Scanning(w) /\ job[w] \in {"discard", "close"} => rows[w][p] = db[p]
        BY <1>0, <2>4 DEF BaseInv, RowsAhead, Ahead, Held, Scanning
      <4> QED BY <2>4, <4>1 DEF DiscardLocal, Row, Lost
    <3>4. ~Discard(w)
      BY <1>0, <2>4 DEF Discard, ContractInv, StandSound, Synced, Lost
    <3>5. ~Commits(w)
      <4>1. pc[w] \in {"commit", "commit2"} =>
              rows[w][p].pid \in Docs /\ rows[w][p].pid # NoDoc
        BY <1>0, <2>4 DEF TypeInv, CallsSound, Sound, OnDocument
      <4>2. pc[w] \notin {"commit", "commit2"}
        BY <1>0, <4>1 DEF LinkInv, Names, Named, Stored, Lost, Fresh
      <4> QED BY <1>0, <4>2, CommitFields
    <3>6. db'[p].op = "unknown"
      BY <1>0, <1>1, <2>4, <3>1, <3>2, <3>3, <3>4, <3>5, LeasedOps DEF Lost
    <3> QED BY <2>2, <3>6 DEF Lost
  <2> QED BY <2>3, <2>4
<1>2. CASE \A w \in Workers : ~Leased(w)
  BY <1>0, <1>2, Unleased, UnleasedFresh DEF Lost
<1> QED BY <1>1, <1>2

LEMMA HalfDeletedStays ==
  ASSUME "duplicate" \notin Moves, AllInv, AllInv', [Next]_vars, NEW p \in Parts, HalfDeleted(p)
  PROVE  HalfDeleted(p)'
<1>0. BaseInv /\ TypeInv /\ OnceInv /\ LinkInv /\ StrandInv /\ ContractInv
  BY DEF AllInv, BaseInv
<1>1. db[p].pid # NoDoc /\ db[p].pid \in Docs /\ Named(db[p].pid, p)
  BY <1>0 DEF LinkInv, StateAgrees, Names, Named, Stored, HalfDeleted
<1>2. db'[p].pid = db[p].pid
  BY <1>0, <1>1, LinkKept DEF AllInv
<1>3. docs'[db[p].pid].status = "DELETED"
  BY <1>0, <1>1, StatusLater DEF HalfDeleted, Later, NativeStatuses, Final
<1>4. ASSUME NEW w \in Workers, Leased(w) PROVE HalfDeleted(p)'
  <2>1. ~DeleteAccepted(w) \/ cur[w] # p
    <3>1. ASSUME DeleteAccepted(w), cur[w] = p PROVE FALSE
      <4>1. Live(rows[w][p].pid) /\ Named(rows[w][p].pid, p)
        BY <1>0, <3>1 DEF DeleteAccepted, Row, Live, LinkInv, Names
      <4>2. rows[w][p].pid = db[p].pid
        BY <1>0, <1>1, <4>1, OneNamed
      <4> QED BY <4>1, <4>2 DEF Live, HalfDeleted, NativeStatuses
    <3> QED BY <3>1
  <2>2. \A v \in Workers : pc'[v] = "discard" => cur'[v] # p
    <3>1. ASSUME NEW v \in Workers \ {w} PROVE pc'[v] # "discard"
      BY <1>0, <1>4, LeasedOwns, Alone DEF BaseInv, Own, Held
    <3>2. pc'[w] = "discard" => DeleteAccepted(w) /\ cur'[w] = cur[w]
      BY <1>0, <1>4, LeasedOwns, LeasedVia DEF Via, Own, Held
    <3> QED BY <2>1, <3>1, <3>2
  <2>3. CASE cur[w] # p
    BY <1>0, <1>1, <1>2, <1>3, <1>4, <2>2, <2>3, LeasedRows DEF RowsKept, HalfDeleted
  <2>4. CASE cur[w] = p
    <3>1. ~MarkCreating(w)
      <4>1. Scanning(w) /\ job[w] = "process" => rows[w][p] = db[p]
        BY <1>0, <2>4 DEF BaseInv, RowsAhead, Ahead, Held, Scanning
      <4> QED BY <2>4, <4>1 DEF MarkCreating, Row, HalfDeleted
    <3>2. ~DiscardLocal(w)
      <4>1. Scanning(w) /\ job[w] \in {"discard", "close"} => rows[w][p] = db[p]
        BY <1>0, <2>4 DEF BaseInv, RowsAhead, Ahead, Held, Scanning
      <4> QED BY <2>4, <4>1 DEF DiscardLocal, Row, HalfDeleted
    <3>3. ~Discard(w)
      BY <2>4 DEF Discard, HalfDeleted
    <3>4. db'[p].op = "linked"
      BY <1>0, <1>1, <1>4, <2>4, <3>1, <3>2, <3>3, LeasedOps DEF HalfDeleted
    <3> QED BY <1>2, <1>3, <2>2, <3>4 DEF HalfDeleted
  <2> QED BY <2>3, <2>4
<1>5. CASE \A w \in Workers : ~Leased(w)
  <2>1. UNCHANGED db
    BY <1>0, <1>5, Unleased
  <2>2. \A w \in Workers : pc'[w] = "discard" => pc[w] = "discard" /\ cur'[w] = cur[w]
    BY <1>0, <1>5, Unleased DEF Held
  <2> QED BY <1>3, <2>1, <2>2 DEF HalfDeleted
<1> QED BY <1>4, <1>5

\* Whatever calls are repeated, a part whose create was lost stays 'unknown',
\* and a part whose draft is gone without a mark stays 'linked': no operation
\* leads out, unless people copy documents.
THEOREM StuckForGood ==
  ASSUME "duplicate" \notin Moves, NEW p \in Parts
  PROVE  Spec => [](Lost(p) => []Lost(p)) /\ [](HalfDeleted(p) => []HalfDeleted(p))
<1>1. AllInv /\ AllInv' /\ [Next]_vars => (Lost(p) => Lost(p)')
  BY LostStays
<1>2. AllInv /\ AllInv' /\ [Next]_vars => (HalfDeleted(p) => HalfDeleted(p)')
  BY HalfDeletedStays
<1>3. Spec => []AllInv
  BY AllHold
<1> QED BY <1>1, <1>2, <1>3, PTL DEF Spec
=============================================================================
