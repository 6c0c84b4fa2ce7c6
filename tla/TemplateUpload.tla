--------------------------- MODULE TemplateUpload ---------------------------
(***************************************************************************)
(* uploadTemplate(): an administrator uploads the PDFs of a template under *)
(* an upload id, and repeats the call with that id until it is answered.   *)
(* The template is created once; each file is then converted for a try in  *)
(* a draft without recipients, which is deleted again.  One upload id is   *)
(* modelled, since the calls of different ids share neither row nor lease. *)
(***************************************************************************)
EXTENDS Naturals, FiniteSets

CONSTANTS
  Callers,    \* concurrent calls, over all bridge processes
  Inputs,     \* what may be uploaded under the id; request_hash tells them apart
  Plain,      \* inputs without a layout: not verified file by file
  Altered,    \* <<input, file>>: files whose bytes the native conversion changes
  FileCount,  \* files of an input with a layout
  Envelopes,  \* identities of native envelopes
  NoInput,
  NoEnvelope,
  NoCaller

ASSUME FileCountAssumption == FileCount \in Nat \ {0}
ASSUME InputsAssumption ==
  /\ Plain \subseteq Inputs /\ NoInput \notin Inputs
  /\ Altered \subseteq (Inputs \ Plain) \X (1..FileCount)
ASSUME NullAssumption == NoEnvelope \notin Envelopes /\ NoCaller \notin Callers

\* External ids of the upload: the template, and a preflight draft per file.
Template == 0
Files == 1..FileCount
Names == {Template} \union Files

UploadStates == {"prepared", "creating", "unknown", "ready", "failed"}
EnvelopeStates == {"absent", "live", "deleted"}
Row == [input : Inputs \union {NoInput},
        pid   : Envelopes \union {NoEnvelope},
        state : UploadStates]
NoRow == [input |-> NoInput, pid |-> NoEnvelope, state |-> "prepared"]
Envelope == [name : Names, input : Inputs \union {NoInput}, state : EnvelopeStates]
Absent == [name |-> Template, input |-> NoInput, state |-> "absent"]

Places == {"idle", "queued", "recover", "mark", "post", "refused", "uncertain",
           "save", "verify", "probe", "probePost", "probeCheck", "probeDelete",
           "ready"}

VARIABLES
  row,         \* the row of signing.template_uploads
  native,      \* Documenso's envelopes
  lateCreate,  \* <<name, input>> create POSTs that may still arrive
  lateDelete,  \* drafts whose delete POST may still arrive
  lease,       \* the call that holds the advisory lock
  pc,          \* where each call stands
  input,       \* what it uploads
  known,       \* state of the row as it read it
  held,        \* the template it works on
  probe,       \* the preflight draft it works on
  file,        \* the file it has come to
  answers      \* <<input, template>> of calls that were answered

vars == <<row, native, lateCreate, lateDelete, lease, pc, input, known, held,
          probe, file, answers>>
documenso == <<native, lateCreate, lateDelete>>
local == <<input, known, held, probe, file>>

TypeOK ==
  /\ row \in Row
  /\ native \in [Envelopes -> Envelope]
  /\ lateCreate \subseteq Names \X Inputs
  /\ lateDelete \subseteq Envelopes
  /\ lease \in Callers \union {NoCaller}
  /\ pc \in [Callers -> Places]
  /\ input \in [Callers -> Inputs \union {NoInput}]
  /\ known \in [Callers -> UploadStates]
  /\ held \in [Callers -> Envelopes \union {NoEnvelope}]
  /\ probe \in [Callers -> Envelopes \union {NoEnvelope}]
  /\ file \in [Callers -> Files]
  /\ answers \subseteq Inputs \X Envelopes

Init ==
  /\ row = NoRow
  /\ native = [e \in Envelopes |-> Absent]
  /\ lateCreate = {}
  /\ lateDelete = {}
  /\ lease = NoCaller
  /\ pc = [c \in Callers |-> "idle"]
  /\ input = [c \in Callers |-> NoInput]
  /\ known = [c \in Callers |-> "prepared"]
  /\ held = [c \in Callers |-> NoEnvelope]
  /\ probe = [c \in Callers |-> NoEnvelope]
  /\ file = [c \in Callers |-> 1]
  /\ answers = {}
-----------------------------------------------------------------------------
Live(e) == e \in Envelopes /\ native[e].state = "live"
Found(n) == {e \in Envelopes : Live(e) /\ native[e].name = n}
Deleted(e) == [native EXCEPT ![e].state = "deleted"]

Goto(c, l) == pc' = [pc EXCEPT ![c] = l] /\ UNCHANGED local

\* The call returns or throws; finally releases the lease.
Leave(c) ==
  /\ pc' = [pc EXCEPT ![c] = "idle"]
  /\ input' = [input EXCEPT ![c] = NoInput]
  /\ known' = [known EXCEPT ![c] = "prepared"]
  /\ held' = [held EXCEPT ![c] = NoEnvelope]
  /\ probe' = [probe EXCEPT ![c] = NoEnvelope]
  /\ file' = [file EXCEPT ![c] = 1]
Release(c) == Leave(c) /\ lease' = NoCaller

Keep(c, e, l) ==
  /\ pc' = [pc EXCEPT ![c] = l]
  /\ held' = [held EXCEPT ![c] = e]
  /\ UNCHANGED <<input, known, probe, file>>

Probe(c, e, l) ==
  /\ pc' = [pc EXCEPT ![c] = l]
  /\ probe' = [probe EXCEPT ![c] = e]
  /\ UNCHANGED <<input, known, held, file>>

\* The POSTs a call has on the wire.
Creating(c) == CASE pc[c] = "post" -> {<<Template, input[c]>>}
                 [] pc[c] = "probePost" -> {<<file[c], input[c]>>}
                 [] OTHER -> {}
Deleting(c) == IF pc[c] = "probeDelete" THEN {probe[c]} ELSE {}

NewEnvelope(e, n, i) ==
  /\ native[e].state = "absent"
  /\ native' = [native EXCEPT ![e] = [name |-> n, input |-> i, state |-> "live"]]
-----------------------------------------------------------------------------
\* INSERT ... ON CONFLICT(id) DO NOTHING, before the lease.
Call(c, i) ==
  /\ pc[c] = "idle"
  /\ row' = IF row.input = NoInput THEN [row EXCEPT !.input = i] ELSE row
  /\ pc' = [pc EXCEPT ![c] = "queued"]
  /\ input' = [input EXCEPT ![c] = i]
  /\ UNCHANGED <<documenso, lease, known, held, probe, file, answers>>

\* What the row asks for, once the lease is held.
Todo ==
  CASE row.pid # NoEnvelope -> "save"
    [] row.pid = NoEnvelope /\ row.state \in {"creating", "unknown"} -> "recover"
    [] OTHER -> "mark"

\* Mutant of Acquire: request_hash is not compared.
AcquireAny(c) ==
  /\ pc[c] = "queued" /\ lease = NoCaller
  /\ row.pid # NoEnvelope \/ row.state # "failed"
  /\ lease' = c
  /\ pc' = [pc EXCEPT ![c] = Todo]
  /\ known' = [known EXCEPT ![c] = row.state]
  /\ held' = [held EXCEPT ![c] = row.pid]
  /\ UNCHANGED <<row, documenso, input, probe, file, answers>>

\* The lease, the row and its hash; otherwise the call is refused (Refuse).
Acquire(c) ==
  /\ pc[c] = "queued" /\ lease = NoCaller
  /\ row.input = input[c]
  /\ row.pid # NoEnvelope \/ row.state # "failed"
  /\ lease' = c
  /\ pc' = [pc EXCEPT ![c] = Todo]
  /\ known' = [known EXCEPT ![c] = row.state]
  /\ held' = [held EXCEPT ![c] = row.pid]
  /\ UNCHANGED <<row, documenso, input, probe, file, answers>>

\* REQUEST_BUSY, IDEMPOTENCY_KEY_REUSED or TEMPLATE_UPLOAD_FAILED.
Refuse(c) ==
  /\ pc[c] = "queued"
  /\ Leave(c)
  /\ UNCHANGED <<row, documenso, lease, answers>>

\* Exactly one template has the external id; otherwise Throw.
Recover(c) ==
  /\ pc[c] = "recover"
  /\ \E e \in Envelopes : Found(Template) = {e} /\ Keep(c, e, "save")
  /\ UNCHANGED <<row, documenso, lease, answers>>

\* Mutant of Mark: the intent is not made durable.
MarkNothing(c) ==
  /\ pc[c] = "mark"
  /\ Goto(c, "post")
  /\ UNCHANGED <<row, documenso, lease, answers>>

Mark(c) ==
  /\ pc[c] = "mark"
  /\ row' = [row EXCEPT !.state = "creating"]
  /\ Goto(c, "post")
  /\ UNCHANGED <<documenso, lease, answers>>

PostAccepted(c, e) ==
  /\ pc[c] = "post"
  /\ NewEnvelope(e, Template, input[c])
  /\ Keep(c, e, "save")
  /\ UNCHANGED <<row, lateCreate, lateDelete, lease, answers>>

PostRefused(c) ==
  /\ pc[c] = "post"
  /\ Goto(c, "refused")
  /\ UNCHANGED <<row, documenso, lease, answers>>

\* No answer, a 5xx, or an answer that cannot be parsed.
PostUncertain(c) ==
  /\ pc[c] = "post"
  /\ lateCreate' = lateCreate \union Creating(c)
  /\ Goto(c, "uncertain")
  /\ UNCHANGED <<row, native, lateDelete, lease, answers>>

\* Mutant of SaveFailure: every failed create counts as refused.
SaveRefusal(c) ==
  /\ pc[c] \in {"refused", "uncertain"}
  /\ row' = [row EXCEPT !.state = "failed"]
  /\ Release(c)
  /\ UNCHANGED <<documenso, answers>>

SaveFailure(c) ==
  /\ pc[c] \in {"refused", "uncertain"}
  /\ row' = [row EXCEPT !.state = IF pc[c] = "refused" THEN "failed" ELSE "unknown"]
  /\ Release(c)
  /\ UNCHANGED <<documenso, answers>>

\* The id is stored before the template is looked at.
SaveId(c) ==
  /\ pc[c] = "save"
  /\ row' = [row EXCEPT !.pid = held[c]]
  /\ Goto(c, "verify")
  /\ UNCHANGED <<documenso, lease, answers>>

\* Mutant of Verify: a template that is known already is not tried again.
VerifyKnown(c) ==
  /\ pc[c] = "verify" /\ Live(held[c])
  /\ Goto(c, IF input[c] \in Plain \/ known[c] # "prepared" THEN "ready"
                                                          ELSE "probe")
  /\ UNCHANGED <<row, documenso, lease, answers>>

\* Owner, type and external id; with a layout its fields and the stored bytes,
\* and, unless the row was ready before, a preflight of every file.
Verify(c) ==
  /\ pc[c] = "verify" /\ Live(held[c])
  /\ Goto(c, IF input[c] \in Plain \/ known[c] = "ready" THEN "ready" ELSE "probe")
  /\ UNCHANGED <<row, documenso, lease, answers>>

Ready(c) ==
  /\ pc[c] = "ready"
  /\ row' = [row EXCEPT !.state = "ready"]
  /\ answers' = answers \union {<<input[c], held[c]>>}
  /\ Release(c)
  /\ UNCHANGED documenso
-----------------------------------------------------------------------------
(***************************************************************************)
(* verifyDocumentRoundTrip(), for one file.                                *)
(***************************************************************************)
\* A draft an earlier call left behind is used; two of them stop the upload.
ProbeList(c) ==
  /\ pc[c] = "probe"
  /\ \/ Found(file[c]) = {} /\ Goto(c, "probePost")
     \/ \E e \in Envelopes : Found(file[c]) = {e} /\ Probe(c, e, "probeCheck")
  /\ UNCHANGED <<row, documenso, lease, answers>>

ProbeAccepted(c, e) ==
  /\ pc[c] = "probePost"
  /\ NewEnvelope(e, file[c], input[c])
  /\ Probe(c, e, "probeCheck")
  /\ UNCHANGED <<row, lateCreate, lateDelete, lease, answers>>

\* The bytes are compared; finally the draft is deleted, whatever they were.
ProbeCheck(c) ==
  /\ pc[c] = "probeCheck" /\ Live(probe[c])
  /\ Goto(c, "probeDelete")
  /\ UNCHANGED <<row, documenso, lease, answers>>

\* The draft's bytes are the file's bytes.
Kept(c) == LET d == native[probe[c]]
           IN  <<d.input, d.name>> = <<input[c], file[c]>> /\ <<d.input, d.name>> \notin Altered

ProbeDelete(c) ==
  /\ pc[c] = "probeDelete" /\ Live(probe[c])
  /\ native' = Deleted(probe[c])
  /\ IF ~Kept(c) THEN Release(c)
     ELSE /\ pc' = [pc EXCEPT ![c] = IF file[c] = FileCount THEN "ready" ELSE "probe"]
          /\ probe' = [probe EXCEPT ![c] = NoEnvelope]
          /\ file' = [file EXCEPT ![c] = IF file[c] = FileCount THEN 1 ELSE file[c] + 1]
          /\ UNCHANGED <<input, known, held, lease>>
  /\ UNCHANGED <<row, lateCreate, lateDelete, answers>>
-----------------------------------------------------------------------------
\* An await fails, a check refuses, or the process dies: the lease is free, and
\* a POST that was on the wire may still arrive, or never.
Stop(c) ==
  /\ pc[c] \notin {"idle", "queued"}
  /\ lateCreate' \in {lateCreate, lateCreate \union Creating(c)}
  /\ lateDelete' \in {lateDelete, lateDelete \union Deleting(c)}
  /\ Release(c)
  /\ UNCHANGED <<row, native, answers>>

CreateArrives(m, e) ==
  /\ m \in lateCreate
  /\ lateCreate' = lateCreate \ {m}
  /\ NewEnvelope(e, m[1], m[2])
  /\ UNCHANGED <<row, lateDelete, lease, pc, local, answers>>

CreateLost(m) ==
  /\ m \in lateCreate
  /\ lateCreate' = lateCreate \ {m}
  /\ UNCHANGED <<row, native, lateDelete, lease, pc, local, answers>>

DeleteArrives(e) ==
  /\ e \in lateDelete
  /\ lateDelete' = lateDelete \ {e}
  /\ native' = IF Live(e) THEN Deleted(e) ELSE native
  /\ UNCHANGED <<row, lateCreate, lease, pc, local, answers>>

\* A native administrator deletes the template or a draft.
NativeDelete(e) ==
  /\ Live(e)
  /\ native' = Deleted(e)
  /\ UNCHANGED <<row, lateCreate, lateDelete, lease, pc, local, answers>>

Step(c) ==
  \/ Acquire(c) \/ Refuse(c) \/ Recover(c) \/ Mark(c) \/ PostRefused(c)
  \/ PostUncertain(c) \/ SaveFailure(c) \/ SaveId(c) \/ Verify(c) \/ Ready(c)
  \/ ProbeList(c) \/ ProbeCheck(c) \/ ProbeDelete(c) \/ Stop(c)
  \/ \E e \in Envelopes : PostAccepted(c, e) \/ ProbeAccepted(c, e)

Environment ==
  \/ \E m \in lateCreate : CreateLost(m) \/ \E e \in Envelopes : CreateArrives(m, e)
  \/ \E e \in Envelopes : DeleteArrives(e) \/ NativeDelete(e)

Next ==
  \/ \E c \in Callers : Step(c) \/ \E i \in Inputs : Call(c, i)
  \/ Environment

Spec == Init /\ [][Next]_vars

(***************************************************************************)
(* Every await is bounded.  The administrator repeats the upload with the  *)
(* same input, at times when no other call runs, and the requests succeed  *)
(* again and again.                                                        *)
(***************************************************************************)
Fairness ==
  /\ \A c \in Callers : WF_vars(Step(c))
  /\ SF_vars(\E c \in Callers, i \in Inputs :
               lease = NoCaller /\ row.input = i /\ Call(c, i))
  /\ SF_vars(\E c \in Callers : Acquire(c))
  /\ SF_vars(\E c \in Callers : Recover(c))
  /\ SF_vars(\E c \in Callers : SaveId(c))

FairSpec == Spec /\ Fairness
-----------------------------------------------------------------------------
Stored(n) == {e \in Envelopes : native[e].state # "absent" /\ native[e].name = n}

\* An upload id never gets two templates, whatever was lost or repeated
\* (COMPANY_PACKAGES.md:17).
AtMostOneTemplate == \A d, e \in Stored(Template) : d = e

\* 'failed' is stored only if no template exists and none can come.
FailedHasNone ==
  row.state = "failed" => Stored(Template) = {} /\ \A m \in lateCreate : m[1] # Template

\* A template becomes ready only if the native conversion keeps every file.
ReadyIsVerified ==
  row.state = "ready" =>
    row.pid # NoEnvelope /\ \A f \in Files : <<row.input, f>> \notin Altered

\* "Successful replay uses the same template; changed layout or bytes under an
\* existing upload ID are rejected" (company-template-layouts.md:26): the promise
\* of POST /v1/requests, with the template's external id as the only key.
Upload(i) == [key |-> Template, ref |-> i]
Templates == [e \in Envelopes |->
                Upload(IF e \in Stored(Template) THEN native[e].input ELSE NoInput)]
Answered == {<<Upload(a[1]), a[2]>> : a \in answers}

Promise == INSTANCE IdempotentCreate WITH
  Ids <- Envelopes,
  Inputs <- {Upload(i) : i \in Inputs},
  NoInput <- Upload(NoInput),
  table <- Templates,
  answers <- Answered
KeepsPromise == Promise!Spec

\* A template that was created is found by a repeated upload, unless people
\* delete it first.
EventuallyKnown ==
  \A e \in Envelopes : e \in Found(Template) ~> (row.pid = e \/ ~Live(e))
=============================================================================
