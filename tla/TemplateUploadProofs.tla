------------------------ MODULE TemplateUploadProofs ------------------------
(***************************************************************************)
(* For any calls, inputs, files and envelopes: an upload id has at most    *)
(* one template, 'failed' means that there is none, a ready template       *)
(* passed the conversion of every file, and the uploads under one id are   *)
(* an idempotent create.                                                   *)
(***************************************************************************)
EXTENDS TemplateUpload, TLAPS

Working == Places \ {"idle", "queued"}
Probing == {"probe", "probePost", "probeCheck", "probeDelete"}
After == {"verify", "ready"} \union Probing
Holding == {"save"} \union After

\* No template exists, and none is on its way.
Untouched ==
  /\ \A e \in Envelopes : native[e].state # "absent" => native[e].name # Template
  /\ \A m \in lateCreate : m[1] # Template

Intact == \A f \in Files : <<row.input, f>> \notin Altered

\* What a call has read under the lease is still so.
Sound(c) ==
  /\ pc[c] # "idle" => input[c] \in Inputs /\ row.input # NoInput
  /\ pc[c] \in Working =>
       /\ lease = c /\ input[c] = row.input
       /\ known[c] = "ready" => row.state = "ready"
  /\ pc[c] = "recover" => row.pid = NoEnvelope /\ row.state \in {"creating", "unknown"}
  /\ pc[c] = "mark" => row.state = "prepared"
  /\ pc[c] \in {"post", "refused", "uncertain"} =>
       row.pid = NoEnvelope /\ row.state = "creating"
  /\ pc[c] \in {"post", "refused"} => Untouched
  /\ pc[c] \in Holding =>
       row.state \notin {"prepared", "failed"} /\ held[c] \in Envelopes
  /\ pc[c] = "save" => row.pid \in {NoEnvelope, held[c]}
  /\ pc[c] \in After => row.pid = held[c]
  /\ pc[c] \in Working =>
       \A f \in Files : f < file[c] => <<row.input, f>> \notin Altered
  /\ pc[c] \notin Probing => file[c] = 1
  /\ pc[c] = "ready" => Intact
  /\ pc[c] = "probeDelete" => probe[c] \in Envelopes

CallsSound == \A c \in Callers : Sound(c)

RowSound ==
  /\ row.input = NoInput => row.state = "prepared"
  /\ row.state \in {"prepared", "failed"} => row.pid = NoEnvelope /\ Untouched
  /\ row.state = "ready" => row.pid # NoEnvelope /\ Intact

\* Every envelope is of the input the row was made for, and of templates there
\* is at most one, the one that exists or the one that may still come.
NativeSound ==
  /\ \A e \in Envelopes : native[e].state # "absent" =>
       native[e].input = row.input /\ row.input # NoInput
  /\ \A m \in lateCreate : m[2] = row.input
  /\ \A m \in lateCreate : m[1] = Template => Stored(Template) = {}

AnswersSound == \A a \in answers : a[2] = row.pid /\ a[1] = row.input

UploadInv ==
  /\ TypeOK /\ CallsSound /\ RowSound /\ NativeSound
  /\ AtMostOneTemplate /\ AnswersSound

USE FileCountAssumption, InputsAssumption, NullAssumption
-----------------------------------------------------------------------------
(***************************************************************************)
(* What the common parts of the actions do.                                *)
(***************************************************************************)
\* Only call c moves.
Others(c) ==
  \A b \in Callers \ {c} :
    /\ pc'[b] = pc[b] /\ input'[b] = input[b]
    /\ known'[b] = known[b] /\ held'[b] = held[b]
    /\ probe'[b] = probe[b] /\ file'[b] = file[b]

CallsTyped ==
  /\ pc \in [Callers -> Places]
  /\ input \in [Callers -> Inputs \union {NoInput}]
  /\ known \in [Callers -> UploadStates]
  /\ held \in [Callers -> Envelopes \union {NoEnvelope}]
  /\ probe \in [Callers -> Envelopes \union {NoEnvelope}]
  /\ file \in [Callers -> Files]

SharedTyped ==
  /\ row \in Row
  /\ native \in [Envelopes -> Envelope]
  /\ lateCreate \subseteq Names \X Inputs
  /\ lateDelete \subseteq Envelopes
  /\ lease \in Callers \union {NoCaller}
  /\ answers \subseteq Inputs \X Envelopes

LEMMA TypesMeet == TypeOK <=> SharedTyped /\ CallsTyped
  BY DEF TypeOK, SharedTyped, CallsTyped

LEMMA GotoFacts ==
  ASSUME CallsTyped, NEW c \in Callers, NEW l \in Places, Goto(c, l)
  PROVE  /\ CallsTyped' /\ Others(c) /\ pc'[c] = l
         /\ input'[c] = input[c] /\ known'[c] = known[c] /\ held'[c] = held[c]
         /\ probe'[c] = probe[c] /\ file'[c] = file[c]
  BY DEF CallsTyped, Goto, local, Others

LEMMA KeepFacts ==
  ASSUME CallsTyped, NEW c \in Callers, NEW l \in Places, NEW e \in Envelopes,
         Keep(c, e, l)
  PROVE  /\ CallsTyped' /\ Others(c) /\ pc'[c] = l
         /\ input'[c] = input[c] /\ known'[c] = known[c] /\ held'[c] = e
         /\ probe'[c] = probe[c] /\ file'[c] = file[c]
  BY DEF CallsTyped, Keep, Others

LEMMA ProbeFacts ==
  ASSUME CallsTyped, NEW c \in Callers, NEW l \in Places, NEW e \in Envelopes,
         Probe(c, e, l)
  PROVE  /\ CallsTyped' /\ Others(c) /\ pc'[c] = l
         /\ input'[c] = input[c] /\ known'[c] = known[c] /\ held'[c] = held[c]
         /\ probe'[c] = e /\ file'[c] = file[c]
  BY DEF CallsTyped, Probe, Others

LEMMA LeaveFacts ==
  ASSUME CallsTyped, NEW c \in Callers, Leave(c)
  PROVE  CallsTyped' /\ Others(c) /\ pc'[c] = "idle" /\ file'[c] = 1
<1>1. 1 \in Files
  BY DEF Files
<1>2. pc' \in [Callers -> Places] /\ known' \in [Callers -> UploadStates]
  BY DEF CallsTyped, Leave, Places, UploadStates
<1>3. CallsTyped'
  BY <1>1, <1>2 DEF CallsTyped, Leave
<1>4. Others(c) /\ pc'[c] = "idle" /\ file'[c] = 1
  BY DEF CallsTyped, Leave, Others
<1> QED BY <1>3, <1>4

\* While a call works, every other one is outside the lease.
Alone(c) == \A b \in Callers \ {c} : pc[b] \notin Working

LEMMA WorksAlone ==
  ASSUME UploadInv, NEW c \in Callers, pc[c] \in Working \/ lease = NoCaller
  PROVE  Alone(c)
  BY DEF UploadInv, CallsSound, Intact, Sound, Alone

LEMMA OthersSound ==
  ASSUME UploadInv, NEW c \in Callers, Alone(c), Others(c), row'.input = row.input
  PROVE  \A b \in Callers \ {c} : Sound(b)'
<1> SUFFICES ASSUME NEW b \in Callers \ {c} PROVE Sound(b)'
  OBVIOUS
<1>1. /\ pc'[b] = pc[b] /\ input'[b] = input[b] /\ pc[b] \notin Working
      /\ pc[b] \in Places /\ Sound(b)
  BY DEF Alone, Others, UploadInv, CallsSound, TypeOK
<1>2. pc'[b] \in {"idle", "queued"}
  BY <1>1 DEF Working
<1>3. pc'[b] # "idle" => input'[b] \in Inputs /\ row'.input # NoInput
  BY <1>1 DEF Intact, Sound
<1>4. file'[b] = 1
  BY <1>1, <1>2 DEF Others, Sound, Probing
<1> QED BY <1>2, <1>3, <1>4 DEF Intact, Sound, Working, Holding, After, Probing

\* A call that keeps its own part and what it writes keeps the invariant.
LEMMA StepKeeps ==
  ASSUME UploadInv, NEW c \in Callers, Alone(c), Others(c), row'.input = row.input,
         CallsTyped', SharedTyped', Sound(c)', RowSound', NativeSound',
         AtMostOneTemplate', AnswersSound'
  PROVE  UploadInv'
<1>1. CallsSound'
  BY OthersSound DEF CallsSound
<1>2. TypeOK'
  BY TypesMeet DEF TypeOK, SharedTyped, CallsTyped
<1> QED BY <1>1, <1>2 DEF UploadInv

LEMMA QuietKeeps ==
  ASSUME UploadInv, UNCHANGED <<row, native, lateCreate, answers>>
  PROVE  RowSound' /\ NativeSound' /\ AtMostOneTemplate' /\ AnswersSound'
<1>1. RowSound /\ NativeSound /\ AtMostOneTemplate /\ AnswersSound
  BY DEF UploadInv
<1> QED BY <1>1 DEF Intact, RowSound, Untouched, NativeSound, AtMostOneTemplate, Stored,
                    AnswersSound
\* A step under the lease that only reads.
LEMMA ReadKeeps ==
  ASSUME UploadInv, NEW c \in Callers, Alone(c), Others(c), CallsTyped',
         UNCHANGED <<row, native, lateCreate, lateDelete, answers>>,
         lease' \in Callers \union {NoCaller}, Sound(c)'
  PROVE  UploadInv'
<1>1. SharedTyped'
  BY DEF UploadInv, TypeOK, SharedTyped
<1>2. RowSound' /\ NativeSound' /\ AtMostOneTemplate' /\ AnswersSound'
  BY QuietKeeps
<1> QED BY <1>1, <1>2, StepKeeps

LEMMA CallsTypedNow == UploadInv => CallsTyped /\ SharedTyped
  BY TypesMeet DEF UploadInv
-----------------------------------------------------------------------------
(***************************************************************************)
(* The calls, action by action.                                            *)
(***************************************************************************)
LEMMA InitUploadInv == Init => UploadInv
<1> SUFFICES ASSUME Init PROVE UploadInv
  OBVIOUS
<1>1. NoRow \in Row /\ Absent \in Envelope
  BY DEF NoRow, Row, UploadStates, Absent, Envelope, Names, EnvelopeStates
<1>2. 1 \in Files
  BY DEF Files
<1>3. TypeOK
  BY <1>1, <1>2 DEF Init, TypeOK, Places, UploadStates
<1>4. Untouched
  BY DEF Init, Untouched, Absent
<1>5. CallsSound
  BY DEF Init, CallsSound, Intact, Sound, Working, Holding, After, Probing
<1>6. RowSound
  BY <1>4 DEF Init, Intact, RowSound, NoRow
<1>7. NativeSound
  BY DEF Init, NativeSound, Absent
<1>8. AtMostOneTemplate
  BY DEF Init, AtMostOneTemplate, Stored, Absent
<1>9. AnswersSound
  BY DEF Init, AnswersSound
<1> QED BY <1>3, <1>5, <1>6, <1>7, <1>8, <1>9 DEF UploadInv

LEMMA CallKeeps ==
  ASSUME UploadInv, NEW c \in Callers, NEW i \in Inputs, Call(c, i)
  PROVE  UploadInv'
<1>1. /\ TypeOK /\ CallsSound /\ RowSound /\ NativeSound
      /\ AtMostOneTemplate /\ AnswersSound
  BY DEF UploadInv
<1>2. /\ native' = native /\ lateCreate' = lateCreate /\ lateDelete' = lateDelete
      /\ lease' = lease /\ answers' = answers /\ known' = known /\ held' = held
      /\ probe' = probe /\ file' = file
      /\ pc' = [pc EXCEPT ![c] = "queued"] /\ input' = [input EXCEPT ![c] = i]
  BY DEF Call, documenso
<1>3. /\ row' \in Row /\ row'.input # NoInput
      /\ row'.state = row.state /\ row'.pid = row.pid
      /\ row.input # NoInput => row' = row
  BY <1>1 DEF Call, TypeOK, Row
<1>4. "queued" \in Places
  BY DEF Places
<1>5. TypeOK'
  BY <1>1, <1>2, <1>3, <1>4 DEF TypeOK
<1>6. Untouched' <=> Untouched
  BY <1>2 DEF Untouched
<1>7. RowSound'
  BY <1>1, <1>3, <1>6 DEF Intact, RowSound
<1>8. row.input = NoInput => lateCreate = {} /\ answers = {}
  BY <1>1 DEF TypeOK, NativeSound, AnswersSound
<1>9. NativeSound'
  <2>1. CASE row.input # NoInput
    BY <2>1, <1>1, <1>2, <1>3 DEF NativeSound, Stored
  <2>2. CASE row.input = NoInput
    BY <2>2, <1>1, <1>2, <1>3, <1>8 DEF NativeSound
  <2> QED BY <2>1, <2>2
<1>10. AtMostOneTemplate'
  BY <1>1, <1>2 DEF AtMostOneTemplate, Stored
<1>11. AnswersSound'
  BY <1>1, <1>2, <1>3, <1>8 DEF AnswersSound
<1>12. CallsSound'
  <2> SUFFICES ASSUME NEW b \in Callers PROVE Sound(b)'
    BY DEF CallsSound
  <2>1. Sound(b)
    BY <1>1 DEF CallsSound
  <2>2. CASE b = c
    <3>1. pc'[b] = "queued" /\ input'[b] = i /\ file'[b] = 1
      BY <2>1, <2>2, <1>1, <1>2 DEF TypeOK, Call, Sound, Probing
    <3> QED BY <3>1, <1>3 DEF Intact, Sound, Working, Holding, After, Probing
  <2>3. CASE b # c
    <3>1. pc'[b] = pc[b] /\ input'[b] = input[b]
      BY <2>3, <1>1, <1>2 DEF TypeOK
    <3>2. CASE pc[b] = "idle"
      BY <2>1, <3>1, <3>2, <1>2 DEF Intact, Sound, Working, Holding, After, Probing
    <3>3. CASE pc[b] # "idle"
      <4>1. row' = row
        BY <2>1, <3>3, <1>3 DEF Intact, Sound
      <4> QED BY <4>1, <3>1, <2>1, <1>2, <1>6 DEF Intact, Sound
    <3> QED BY <3>2, <3>3
  <2> QED BY <2>2, <2>3
<1> QED BY <1>5, <1>7, <1>9, <1>10, <1>11, <1>12 DEF UploadInv

LEMMA RefuseKeeps ==
  ASSUME UploadInv, NEW c \in Callers, Refuse(c)
  PROVE  UploadInv'
<1>1. UNCHANGED <<row, native, lateCreate, lateDelete, lease, answers>> /\ Leave(c)
  BY DEF Refuse, documenso
<1>2. CallsTyped' /\ Others(c) /\ pc'[c] = "idle" /\ file'[c] = 1
  BY <1>1, CallsTypedNow, LeaveFacts
<1>3. SharedTyped'
  BY <1>1, CallsTypedNow DEF SharedTyped
<1>4. TypeOK'
  BY <1>2, <1>3, TypesMeet DEF TypeOK, SharedTyped, CallsTyped
<1>5. RowSound' /\ NativeSound' /\ AtMostOneTemplate' /\ AnswersSound'
  BY <1>1, QuietKeeps
<1>6. Untouched' <=> Untouched
  BY <1>1 DEF Untouched
<1>7. ASSUME NEW b \in Callers PROVE Sound(b)'
  <2>1. CASE b = c
    BY <2>1, <1>2 DEF Intact, Sound, Working, Holding, After, Probing
  <2>2. CASE b # c
    <3>1. Sound(b)
      BY DEF UploadInv, CallsSound
    <3> QED BY <2>2, <3>1, <1>1, <1>2, <1>6 DEF Others, Intact, Sound
  <2> QED BY <2>1, <2>2
<1> QED BY <1>4, <1>5, <1>7 DEF UploadInv, CallsSound

LEMMA AcquireKeeps ==
  ASSUME UploadInv, NEW c \in Callers, Acquire(c)
  PROVE  UploadInv'
<1>1. TypeOK /\ Sound(c) /\ RowSound /\ Alone(c)
  BY WorksAlone DEF UploadInv, CallsSound, Acquire
<1>2. row.pid \in Envelopes \union {NoEnvelope} /\ row.state \in UploadStates
  BY <1>1 DEF TypeOK, Row
<1>3. Todo \in {"save", "recover", "mark"}
  BY DEF Todo
<1>4. UNCHANGED <<row, native, lateCreate, lateDelete, answers>> /\ lease' = c
  BY DEF Acquire, documenso
<1>5. /\ pc' = [pc EXCEPT ![c] = Todo] /\ known' = [known EXCEPT ![c] = row.state]
      /\ held' = [held EXCEPT ![c] = row.pid]
      /\ UNCHANGED <<input, probe, file>>
  BY DEF Acquire
<1>6. Todo \in Places
  BY <1>3 DEF Places
<1>7. CallsTyped'
  BY <1>1, <1>2, <1>5, <1>6 DEF TypeOK, CallsTyped
<1>8. Others(c) /\ pc'[c] = Todo /\ input'[c] = input[c] /\ known'[c] = row.state
      /\ held'[c] = row.pid
  BY <1>1, <1>5 DEF TypeOK, Others
<1>9. /\ row.input = input[c] /\ input[c] \in Inputs /\ pc[c] = "queued"
      /\ file'[c] = 1
  BY <1>1, <1>5 DEF Acquire, Intact, Sound, Probing
<1>10. Sound(c)'
  <2>0. \A f \in Files : ~(f < file'[c])
    BY <1>9 DEF Files
  <2>1. CASE Todo = "save"
    <3>1. row.pid \in Envelopes /\ row.state \notin {"prepared", "failed"}
      BY <2>1, <1>1, <1>2 DEF Todo, Intact, RowSound
    <3> QED BY <2>0, <2>1, <3>1, <1>4, <1>8, <1>9
            DEF Intact, Sound, Working, Holding, After, Probing, Places
  <2>2. CASE Todo = "recover"
    <3>1. row.pid = NoEnvelope /\ row.state \in {"creating", "unknown"}
      BY <2>2 DEF Todo
    <3> QED BY <2>0, <2>2, <3>1, <1>4, <1>8, <1>9
            DEF Intact, Sound, Working, Holding, After, Probing, Places
  <2>3. CASE Todo = "mark"
    <3>1. row.pid = NoEnvelope /\ row.state \notin {"creating", "unknown"}
      BY <2>3 DEF Todo
    <3>2. row.state = "prepared"
      BY <3>1, <1>1, <1>2 DEF Acquire, Intact, RowSound, UploadStates
    <3> QED BY <2>0, <2>3, <3>2, <1>4, <1>8, <1>9
            DEF Intact, Sound, Working, Holding, After, Probing, Places
  <2> QED BY <1>3, <2>1, <2>2, <2>3
<1> QED BY <1>1, <1>4, <1>7, <1>8, <1>10, ReadKeeps

LEMMA RecoverKeeps ==
  ASSUME UploadInv, NEW c \in Callers, Recover(c)
  PROVE  UploadInv'
<1>1. PICK e \in Envelopes : Keep(c, e, "save")
  BY DEF Recover
<1>2. UNCHANGED <<row, native, lateCreate, lateDelete, lease, answers>>
  BY DEF Recover, documenso
<1>3. TypeOK /\ Sound(c) /\ Alone(c) /\ pc[c] = "recover"
  BY WorksAlone DEF UploadInv, CallsSound, Recover, Working, Places
<1>4. "save" \in Places /\ "recover" \in Working
  BY DEF Places, Working
<1>5. /\ CallsTyped' /\ Others(c) /\ pc'[c] = "save"
      /\ input'[c] = input[c] /\ known'[c] = known[c] /\ held'[c] = e
      /\ file'[c] = file[c]
  BY <1>1, <1>4, CallsTypedNow, KeepFacts
<1>6. row.pid = NoEnvelope /\ row.state \in {"creating", "unknown"}
  BY <1>3 DEF Intact, Sound
<1>7. known[c] # "ready"
  BY <1>3, <1>4, <1>6 DEF Intact, Sound
<1>8. Sound(c)'
  BY <1>2, <1>3, <1>4, <1>5, <1>6, <1>7
     DEF Intact, Sound, Working, Holding, After, Probing
<1>9. lease' \in Callers \union {NoCaller}
  BY <1>2, <1>3 DEF TypeOK
<1> QED BY <1>2, <1>3, <1>5, <1>8, <1>9, ReadKeeps

LEMMA MarkKeeps ==
  ASSUME UploadInv, NEW c \in Callers, Mark(c)
  PROVE  UploadInv'
<1>1. /\ TypeOK /\ Sound(c) /\ RowSound /\ NativeSound /\ AtMostOneTemplate
      /\ AnswersSound /\ Alone(c) /\ pc[c] = "mark"
  BY WorksAlone DEF UploadInv, CallsSound, Mark, Working, Places
<1>2. /\ UNCHANGED <<native, lateCreate, lateDelete, lease, answers>>
      /\ row' = [row EXCEPT !.state = "creating"] /\ Goto(c, "post")
  BY DEF Mark, documenso
<1>3. "post" \in Places /\ "mark" \in Working
  BY DEF Places, Working
<1>4. /\ CallsTyped' /\ Others(c) /\ pc'[c] = "post"
      /\ input'[c] = input[c] /\ known'[c] = known[c] /\ held'[c] = held[c]
      /\ file'[c] = file[c]
  BY <1>2, <1>3, CallsTypedNow, GotoFacts
<1>5. row.state = "prepared" /\ row.pid = NoEnvelope /\ Untouched
  BY <1>1 DEF Intact, Sound, RowSound
<1>6. /\ row' \in Row /\ row'.state = "creating" /\ row'.pid = row.pid
      /\ row'.input = row.input
  BY <1>1, <1>2 DEF TypeOK, Row, UploadStates
<1>7. SharedTyped'
  BY <1>1, <1>2, <1>6 DEF TypeOK, SharedTyped
<1>8. Untouched'
  BY <1>2, <1>5 DEF Untouched
<1>9. row.input # NoInput
  BY <1>1 DEF Intact, Sound
<1>10. Sound(c)'
  BY <1>1, <1>2, <1>3, <1>4, <1>5, <1>6, <1>8
     DEF Intact, Sound, Working, Holding, After, Probing
<1>11. RowSound'
  BY <1>6, <1>9 DEF Intact, RowSound
<1>12. NativeSound' /\ AtMostOneTemplate' /\ AnswersSound'
  BY <1>1, <1>2, <1>6 DEF NativeSound, AtMostOneTemplate, Stored, AnswersSound
<1> QED BY <1>1, <1>4, <1>6, <1>7, <1>10, <1>11, <1>12, StepKeeps

\* The template is created while none exists and none is on its way.
LEMMA PostAcceptedKeeps ==
  ASSUME UploadInv, NEW c \in Callers, NEW e \in Envelopes, PostAccepted(c, e)
  PROVE  UploadInv'
<1>1. /\ TypeOK /\ Sound(c) /\ RowSound /\ NativeSound /\ AtMostOneTemplate
      /\ AnswersSound /\ Alone(c) /\ pc[c] = "post"
  BY WorksAlone DEF UploadInv, CallsSound, PostAccepted, Working, Places
<1>2. /\ UNCHANGED <<row, lateCreate, lateDelete, lease, answers>>
      /\ NewEnvelope(e, Template, input[c]) /\ Keep(c, e, "save")
  BY DEF PostAccepted
<1>3. "save" \in Places /\ "post" \in Working
  BY DEF Places, Working
<1>4. /\ CallsTyped' /\ Others(c) /\ pc'[c] = "save"
      /\ input'[c] = input[c] /\ known'[c] = known[c] /\ held'[c] = e
      /\ file'[c] = file[c]
  BY <1>2, <1>3, CallsTypedNow, KeepFacts
<1>5. row.state = "creating" /\ row.pid = NoEnvelope /\ Untouched
  BY <1>1 DEF Intact, Sound
<1>6. input[c] = row.input /\ input[c] \in Inputs /\ lease = c
  BY <1>1, <1>3 DEF Intact, Sound
<1>7. [name |-> Template, input |-> input[c], state |-> "live"] \in Envelope
  BY <1>6 DEF Envelope, Names, EnvelopeStates
<1>8. native' \in [Envelopes -> Envelope]
  BY <1>1, <1>2, <1>7 DEF NewEnvelope, TypeOK
<1>9. SharedTyped'
  BY <1>1, <1>2, <1>8 DEF TypeOK, SharedTyped
<1>10. /\ native'[e] = [name |-> Template, input |-> input[c], state |-> "live"]
       /\ \A d \in Envelopes \ {e} : native'[d] = native[d]
  BY <1>1, <1>2 DEF NewEnvelope, TypeOK
<1>11. NativeSound'
  <2>1. \A d \in Envelopes : native'[d].state # "absent" =>
          native'[d].input = row'.input /\ row'.input # NoInput
    BY <1>1, <1>2, <1>6, <1>10 DEF NativeSound
  <2>2. \A m \in lateCreate' : m[2] = row'.input /\ m[1] # Template
    BY <1>1, <1>2, <1>5 DEF NativeSound, Untouched
  <2> QED BY <2>1, <2>2 DEF NativeSound
<1>12. AtMostOneTemplate'
  BY <1>5, <1>10 DEF AtMostOneTemplate, Stored, Untouched
<1>13. AnswersSound' /\ RowSound'
  BY <1>1, <1>2, <1>5, <1>6 DEF AnswersSound, Intact, RowSound
<1>14. known[c] # "ready"
  BY <1>1, <1>3, <1>5 DEF Intact, Sound
<1>15. file'[c] = 1 /\ \A f \in Files : ~(f < file'[c])
  BY <1>1, <1>4 DEF Sound, Probing, Files
<1>16. Sound(c)'
  BY <1>2, <1>3, <1>4, <1>5, <1>6, <1>14, <1>15 DEF Intact, Sound, Working, Holding, After, Probing
<1> QED BY <1>1, <1>2, <1>4, <1>9, <1>11, <1>12, <1>13, <1>16, StepKeeps

LEMMA PostRefusedKeeps ==
  ASSUME UploadInv, NEW c \in Callers, PostRefused(c)
  PROVE  UploadInv'
<1>1. TypeOK /\ Sound(c) /\ Alone(c) /\ pc[c] = "post"
  BY WorksAlone DEF UploadInv, CallsSound, PostRefused, Working, Places
<1>2. UNCHANGED <<row, native, lateCreate, lateDelete, lease, answers>> /\ Goto(c, "refused")
  BY DEF PostRefused, documenso
<1>3. "refused" \in Places /\ "post" \in Working
  BY DEF Places, Working
<1>4. /\ CallsTyped' /\ Others(c) /\ pc'[c] = "refused"
      /\ input'[c] = input[c] /\ known'[c] = known[c] /\ held'[c] = held[c]
      /\ file'[c] = file[c]
  BY <1>2, <1>3, CallsTypedNow, GotoFacts
<1>5. Untouched'
  BY <1>1, <1>2 DEF Intact, Sound, Untouched
<1>6. Sound(c)'
  BY <1>1, <1>2, <1>3, <1>4, <1>5 DEF Intact, Sound, Working, Holding, After, Probing
<1>7. lease' \in Callers \union {NoCaller}
  BY <1>1, <1>2 DEF TypeOK
<1> QED BY <1>1, <1>2, <1>4, <1>6, <1>7, ReadKeeps

LEMMA PostUncertainKeeps ==
  ASSUME UploadInv, NEW c \in Callers, PostUncertain(c)
  PROVE  UploadInv'
<1>1. /\ TypeOK /\ Sound(c) /\ RowSound /\ NativeSound /\ AtMostOneTemplate
      /\ AnswersSound /\ Alone(c) /\ pc[c] = "post"
  BY WorksAlone DEF UploadInv, CallsSound, PostUncertain, Working, Places
<1>2. /\ UNCHANGED <<row, native, lateDelete, lease, answers>> /\ Goto(c, "uncertain")
      /\ lateCreate' = lateCreate \union {<<Template, input[c]>>}
  BY <1>1 DEF PostUncertain, Creating
<1>3. "uncertain" \in Places /\ "post" \in Working
  BY DEF Places, Working
<1>4. /\ CallsTyped' /\ Others(c) /\ pc'[c] = "uncertain"
      /\ input'[c] = input[c] /\ known'[c] = known[c] /\ held'[c] = held[c]
      /\ file'[c] = file[c]
  BY <1>2, <1>3, CallsTypedNow, GotoFacts
<1>5. row.state = "creating" /\ Untouched /\ input[c] = row.input /\ input[c] \in Inputs
  BY <1>1, <1>3 DEF Intact, Sound
<1>6. SharedTyped'
  BY <1>1, <1>2, <1>5 DEF TypeOK, SharedTyped, Names
<1>7. Sound(c)'
  BY <1>1, <1>2, <1>3, <1>4, <1>5 DEF Intact, Sound, Working, Holding, After, Probing
<1>8. RowSound'
  BY <1>1, <1>2, <1>5 DEF Intact, RowSound
<1>9. NativeSound'
  BY <1>1, <1>2, <1>5 DEF NativeSound, Stored, Untouched
<1>10. AtMostOneTemplate' /\ AnswersSound'
  BY <1>1, <1>2 DEF AtMostOneTemplate, Stored, AnswersSound
<1> QED BY <1>1, <1>2, <1>4, <1>6, <1>7, <1>8, <1>9, <1>10, StepKeeps

\* 'failed' is stored after a refusal only, and a refused create leaves nothing.
LEMMA SaveFailureKeeps ==
  ASSUME UploadInv, NEW c \in Callers, SaveFailure(c)
  PROVE  UploadInv'
<1>1. /\ TypeOK /\ Sound(c) /\ RowSound /\ NativeSound /\ AtMostOneTemplate
      /\ AnswersSound /\ Alone(c) /\ pc[c] \in {"refused", "uncertain"}
  BY WorksAlone DEF UploadInv, CallsSound, SaveFailure, Working, Places
<1>2. /\ UNCHANGED <<native, lateCreate, lateDelete, answers>> /\ Leave(c)
      /\ lease' = NoCaller
      /\ row' = [row EXCEPT !.state = IF pc[c] = "refused" THEN "failed" ELSE "unknown"]
  BY DEF SaveFailure, documenso, Release
<1>3. CallsTyped' /\ Others(c) /\ pc'[c] = "idle" /\ file'[c] = 1
  BY <1>2, CallsTypedNow, LeaveFacts
<1>4. /\ row' \in Row /\ row'.input = row.input /\ row'.pid = row.pid
      /\ row'.state = IF pc[c] = "refused" THEN "failed" ELSE "unknown"
  BY <1>1, <1>2 DEF TypeOK, Row, UploadStates
<1>5. row.pid = NoEnvelope /\ row.input # NoInput
  BY <1>1 DEF Intact, Sound
<1>6. row'.state = "failed" => Untouched'
  BY <1>1, <1>2, <1>4 DEF Intact, Sound, Untouched
<1>7. SharedTyped'
  BY <1>1, <1>2, <1>4 DEF TypeOK, SharedTyped
<1>8. Sound(c)'
  BY <1>3 DEF Intact, Sound, Working, Holding, After, Probing
<1>9. RowSound'
  BY <1>4, <1>5, <1>6 DEF Intact, RowSound
<1>10. NativeSound' /\ AtMostOneTemplate' /\ AnswersSound'
  BY <1>1, <1>2, <1>4 DEF NativeSound, AtMostOneTemplate, Stored, AnswersSound
<1> QED BY <1>1, <1>3, <1>4, <1>7, <1>8, <1>9, <1>10, StepKeeps

LEMMA SaveIdKeeps ==
  ASSUME UploadInv, NEW c \in Callers, SaveId(c)
  PROVE  UploadInv'
<1>1. /\ TypeOK /\ Sound(c) /\ RowSound /\ NativeSound /\ AtMostOneTemplate
      /\ AnswersSound /\ Alone(c) /\ pc[c] = "save"
  BY WorksAlone DEF UploadInv, CallsSound, SaveId, Working, Places
<1>2. /\ UNCHANGED <<native, lateCreate, lateDelete, lease, answers>>
      /\ row' = [row EXCEPT !.pid = held[c]] /\ Goto(c, "verify")
  BY DEF SaveId, documenso
<1>3. "verify" \in Places /\ "save" \in Working
  BY DEF Places, Working
<1>4. /\ CallsTyped' /\ Others(c) /\ pc'[c] = "verify"
      /\ input'[c] = input[c] /\ known'[c] = known[c] /\ held'[c] = held[c]
      /\ file'[c] = file[c]
  BY <1>2, <1>3, CallsTypedNow, GotoFacts
<1>5. /\ held[c] \in Envelopes /\ row.pid \in {NoEnvelope, held[c]}
      /\ row.state \notin {"prepared", "failed"} /\ row.input # NoInput
  BY <1>1, <1>3 DEF Intact, Sound, Holding
<1>6. /\ row' \in Row /\ row'.input = row.input /\ row'.pid = held[c]
      /\ row'.state = row.state
  BY <1>1, <1>2, <1>5 DEF TypeOK, Row
<1>7. SharedTyped'
  BY <1>1, <1>2, <1>6 DEF TypeOK, SharedTyped
<1>8. Sound(c)'
  BY <1>1, <1>2, <1>3, <1>4, <1>5, <1>6 DEF Intact, Sound, Working, Holding, After, Probing
<1>9. RowSound'
  BY <1>1, <1>5, <1>6 DEF Intact, RowSound
<1>10. \A a \in answers : a[2] \in Envelopes
  BY <1>1 DEF TypeOK
<1>11. AnswersSound'
  BY <1>1, <1>2, <1>5, <1>6, <1>10 DEF AnswersSound
<1>12. NativeSound' /\ AtMostOneTemplate'
  BY <1>1, <1>2, <1>6 DEF NativeSound, AtMostOneTemplate, Stored
<1> QED BY <1>1, <1>4, <1>6, <1>7, <1>8, <1>9, <1>11, <1>12, StepKeeps

LEMMA VerifyKeeps ==
  ASSUME UploadInv, NEW c \in Callers, Verify(c)
  PROVE  UploadInv'
<1>1. TypeOK /\ Sound(c) /\ RowSound /\ Alone(c) /\ pc[c] = "verify"
  BY WorksAlone DEF UploadInv, CallsSound, Verify, Working, Places
<1> DEFINE l == IF input[c] \in Plain \/ known[c] = "ready" THEN "ready" ELSE "probe"
<1>2. UNCHANGED <<row, native, lateCreate, lateDelete, lease, answers>> /\ Goto(c, l)
  BY DEF Verify, documenso
<1>3. l \in {"ready", "probe"} /\ l \in Places /\ "verify" \in Working
  BY DEF Places, Working
<1> HIDE DEF l
<1>4. /\ CallsTyped' /\ Others(c) /\ pc'[c] = l
      /\ input'[c] = input[c] /\ known'[c] = known[c] /\ held'[c] = held[c]
      /\ file'[c] = file[c]
  BY <1>2, <1>3, CallsTypedNow, GotoFacts
<1>5. l = "ready" => Intact
  BY <1>1, <1>3 DEF l, Intact, Sound, RowSound
<1>6. Sound(c)'
  BY <1>1, <1>2, <1>3, <1>4, <1>5 DEF Intact, Sound, Working, Holding, After, Probing
<1>7. lease' \in Callers \union {NoCaller}
  BY <1>1, <1>2 DEF TypeOK
<1> QED BY <1>1, <1>2, <1>4, <1>6, <1>7, ReadKeeps

LEMMA ReadyKeeps ==
  ASSUME UploadInv, NEW c \in Callers, Ready(c)
  PROVE  UploadInv'
<1>1. /\ TypeOK /\ Sound(c) /\ RowSound /\ NativeSound /\ AtMostOneTemplate
      /\ AnswersSound /\ Alone(c) /\ pc[c] = "ready"
  BY WorksAlone DEF UploadInv, CallsSound, Ready, Working, Places
<1>2. /\ UNCHANGED <<native, lateCreate, lateDelete>> /\ Leave(c)
      /\ lease' = NoCaller /\ row' = [row EXCEPT !.state = "ready"]
      /\ answers' = answers \union {<<input[c], held[c]>>}
  BY DEF Ready, documenso, Release
<1>3. CallsTyped' /\ Others(c) /\ pc'[c] = "idle" /\ file'[c] = 1
  BY <1>2, CallsTypedNow, LeaveFacts
<1>4. /\ row' \in Row /\ row'.input = row.input /\ row'.pid = row.pid
      /\ row'.state = "ready"
  BY <1>1, <1>2 DEF TypeOK, Row, UploadStates
<1>5. "ready" \in Working /\ "ready" \in Holding /\ "ready" \in After
  BY DEF Working, Holding, After, Places
<1>6. /\ row.pid = held[c] /\ held[c] \in Envelopes /\ row.input = input[c]
      /\ input[c] \in Inputs /\ Intact /\ row.input # NoInput
  BY <1>1, <1>5 DEF Intact, Sound
<1>7. SharedTyped'
  BY <1>1, <1>2, <1>4, <1>6 DEF TypeOK, SharedTyped
<1>8. Sound(c)'
  BY <1>3 DEF Intact, Sound, Working, Holding, After, Probing
<1>9. RowSound' /\ AnswersSound'
  BY <1>1, <1>2, <1>4, <1>6 DEF Intact, RowSound, AnswersSound
<1>10. NativeSound' /\ AtMostOneTemplate'
  BY <1>1, <1>2, <1>4 DEF NativeSound, AtMostOneTemplate, Stored
<1> QED BY <1>1, <1>3, <1>4, <1>7, <1>8, <1>9, <1>10, StepKeeps

LEMMA ProbeListKeeps ==
  ASSUME UploadInv, NEW c \in Callers, ProbeList(c)
  PROVE  UploadInv'
<1>1. TypeOK /\ Sound(c) /\ Alone(c) /\ pc[c] = "probe"
  BY WorksAlone DEF UploadInv, CallsSound, ProbeList, Working, Places
<1>2. /\ UNCHANGED <<row, native, lateCreate, lateDelete, lease, answers>>
      /\ \/ Goto(c, "probePost")
         \/ \E e \in Envelopes : Probe(c, e, "probeCheck")
  BY DEF ProbeList, documenso
<1>3. {"probePost", "probeCheck"} \subseteq Places
  BY DEF Places
<1>4. /\ CallsTyped' /\ Others(c) /\ pc'[c] \in {"probePost", "probeCheck"}
      /\ input'[c] = input[c] /\ known'[c] = known[c] /\ held'[c] = held[c]
      /\ file'[c] = file[c]
  BY <1>2, <1>3, CallsTypedNow, GotoFacts, ProbeFacts
<1>5. Sound(c)'
  BY <1>1, <1>2, <1>4 DEF Intact, Sound, Working, Places, Holding, After, Probing
<1>6. lease' \in Callers \union {NoCaller}
  BY <1>1, <1>2 DEF TypeOK
<1> QED BY <1>1, <1>2, <1>4, <1>5, <1>6, ReadKeeps

\* A draft is no template, so its creation leaves the template's facts alone.
LEMMA ProbeAcceptedKeeps ==
  ASSUME UploadInv, NEW c \in Callers, NEW e \in Envelopes, ProbeAccepted(c, e)
  PROVE  UploadInv'
<1>1. /\ TypeOK /\ Sound(c) /\ RowSound /\ NativeSound /\ AtMostOneTemplate
      /\ AnswersSound /\ Alone(c) /\ pc[c] = "probePost"
  BY WorksAlone DEF UploadInv, CallsSound, ProbeAccepted, Working, Places
<1> DEFINE new == [name |-> file[c], input |-> input[c], state |-> "live"]
<1>2. /\ UNCHANGED <<row, lateCreate, lateDelete, lease, answers>>
      /\ native[e].state = "absent" /\ native' = [native EXCEPT ![e] = new]
      /\ Probe(c, e, "probeCheck")
  BY DEF ProbeAccepted, NewEnvelope
<1>3. "probeCheck" \in Places /\ "probePost" \in Working /\ "probePost" \in Holding
  BY DEF Places, Working, Holding, After, Probing
<1>4. /\ CallsTyped' /\ Others(c) /\ pc'[c] = "probeCheck"
      /\ input'[c] = input[c] /\ known'[c] = known[c] /\ held'[c] = held[c]
      /\ file'[c] = file[c]
  BY <1>2, <1>3, CallsTypedNow, ProbeFacts
<1>5. /\ input[c] = row.input /\ input[c] \in Inputs /\ row.input # NoInput
      /\ row.state \notin {"prepared", "failed"}
  BY <1>1, <1>3 DEF Intact, Sound
<1>6. file[c] \in Files /\ file[c] # Template
  BY <1>1 DEF TypeOK, Files, Template
<1>7. new \in Envelope
  BY <1>5, <1>6 DEF Envelope, Names, EnvelopeStates
<1>8. native' \in [Envelopes -> Envelope]
  BY <1>1, <1>2, <1>7 DEF TypeOK
<1>9. SharedTyped'
  BY <1>1, <1>2, <1>8 DEF TypeOK, SharedTyped
<1>10. /\ native'[e].name = file[c] /\ native'[e].input = input[c]
       /\ \A d \in Envelopes \ {e} : native'[d] = native[d]
  BY <1>1, <1>2 DEF TypeOK
<1>11. Stored(Template)' \subseteq Stored(Template)
  BY <1>6, <1>10 DEF Stored
<1>12. AtMostOneTemplate'
  BY <1>1, <1>11 DEF AtMostOneTemplate
<1>13. NativeSound'
  BY <1>1, <1>2, <1>5, <1>10, <1>11 DEF NativeSound
<1>14. RowSound' /\ AnswersSound'
  BY <1>1, <1>2, <1>5 DEF Intact, RowSound, AnswersSound
<1>15. Sound(c)'
  BY <1>1, <1>2, <1>4 DEF Intact, Sound, Working, Places, Holding, After, Probing
<1> QED BY <1>1, <1>2, <1>4, <1>9, <1>12, <1>13, <1>14, <1>15, StepKeeps

LEMMA ProbeCheckKeeps ==
  ASSUME UploadInv, NEW c \in Callers, ProbeCheck(c)
  PROVE  UploadInv'
<1>1. TypeOK /\ Sound(c) /\ Alone(c) /\ pc[c] = "probeCheck" /\ probe[c] \in Envelopes
  BY WorksAlone DEF Live, UploadInv, CallsSound, ProbeCheck, Working, Places
<1>2. /\ UNCHANGED <<row, native, lateCreate, lateDelete, lease, answers>>
      /\ Goto(c, "probeDelete")
  BY DEF ProbeCheck, documenso
<1>3. "probeDelete" \in Places
  BY DEF Places
<1>4. /\ CallsTyped' /\ Others(c) /\ pc'[c] = "probeDelete" /\ probe' = probe
      /\ input'[c] = input[c] /\ known'[c] = known[c] /\ held'[c] = held[c]
      /\ file'[c] = file[c]
  BY <1>2, <1>3, CallsTypedNow, GotoFacts DEF Goto, local
<1>5. Sound(c)'
  BY <1>1, <1>2, <1>4 DEF Intact, Sound, Working, Places, Holding, After, Probing
<1>6. lease' \in Callers \union {NoCaller}
  BY <1>1, <1>2 DEF TypeOK
<1> QED BY <1>1, <1>2, <1>4, <1>5, <1>6, ReadKeeps

\* Deletion keeps the external id and the input of every envelope.
LEMMA DeletedFacts ==
  ASSUME TypeOK, NEW e \in Envelopes, native[e].state = "live", native' = Deleted(e)
  PROVE  /\ native' \in [Envelopes -> Envelope]
         /\ \A d \in Envelopes :
              /\ native'[d].input = native[d].input /\ native'[d].name = native[d].name
              /\ native'[d].state = "absent" <=> native[d].state = "absent"
         /\ Stored(Template)' = Stored(Template)
<1>1. native' \in [Envelopes -> Envelope]
  BY DEF TypeOK, Deleted, Envelope, EnvelopeStates
<1>2. \A d \in Envelopes :
        /\ native'[d].input = native[d].input /\ native'[d].name = native[d].name
        /\ native'[d].state = "absent" <=> native[d].state = "absent"
  BY DEF TypeOK, Deleted, Envelope
<1> QED BY <1>1, <1>2 DEF Stored

\* A file is passed only by a draft that holds this very file.
LEMMA ProbeDeleteKeeps ==
  ASSUME UploadInv, NEW c \in Callers, ProbeDelete(c)
  PROVE  UploadInv'
<1>1. /\ TypeOK /\ Sound(c) /\ RowSound /\ NativeSound /\ AtMostOneTemplate
      /\ AnswersSound /\ Alone(c) /\ pc[c] = "probeDelete"
  BY WorksAlone DEF UploadInv, CallsSound, ProbeDelete, Working, Places
<1>2. /\ probe[c] \in Envelopes /\ native[probe[c]].state = "live"
      /\ native' = Deleted(probe[c])
      /\ UNCHANGED <<row, lateCreate, lateDelete, answers>>
  BY DEF ProbeDelete, Live
<1>3. /\ native' \in [Envelopes -> Envelope]
      /\ \A d \in Envelopes :
           /\ native'[d].input = native[d].input /\ native'[d].name = native[d].name
           /\ native'[d].state = "absent" <=> native[d].state = "absent"
      /\ Stored(Template)' = Stored(Template)
  BY <1>1, <1>2, DeletedFacts
<1>4. AtMostOneTemplate' /\ NativeSound'
  BY <1>1, <1>2, <1>3 DEF AtMostOneTemplate, NativeSound
<1>5. Untouched' <=> Untouched
  BY <1>2, <1>3 DEF Untouched
<1>6. RowSound' /\ AnswersSound'
  BY <1>1, <1>2, <1>5 DEF Intact, RowSound, AnswersSound
<1>8. CASE ~Kept(c)
  <2>1. Leave(c) /\ lease' = NoCaller
    BY <1>8 DEF ProbeDelete, Release
  <2>2. CallsTyped' /\ Others(c) /\ pc'[c] = "idle" /\ file'[c] = 1
    BY <2>1, CallsTypedNow, LeaveFacts
  <2>3. Sound(c)'
    BY <2>2 DEF Intact, Sound, Working, Holding, After, Probing
  <2>4. SharedTyped'
    BY <1>1, <1>2, <1>3, <2>1 DEF TypeOK, SharedTyped
  <2> QED BY <1>1, <1>2, <1>4, <1>6, <2>2, <2>3, <2>4, StepKeeps
<1>9. CASE Kept(c)
  <2> DEFINE l == IF file[c] = FileCount THEN "ready" ELSE "probe"
             f == IF file[c] = FileCount THEN 1 ELSE file[c] + 1
  <2>1. /\ pc' = [pc EXCEPT ![c] = l] /\ probe' = [probe EXCEPT ![c] = NoEnvelope]
        /\ file' = [file EXCEPT ![c] = f] /\ UNCHANGED <<input, known, held, lease>>
    BY <1>9 DEF ProbeDelete
  <2>2. l \in {"ready", "probe"} /\ l \in Places
    BY DEF Places
  <2>3. f \in Files
    BY <1>1 DEF TypeOK, Files
  <2> HIDE DEF l, f
  <2>4. CallsTyped'
    BY <1>1, <2>1, <2>2, <2>3 DEF TypeOK, CallsTyped
  <2>5. Others(c) /\ pc'[c] = l
    BY <1>1, <2>1 DEF TypeOK, Others
  <2>6. SharedTyped'
    BY <1>1, <1>2, <1>3, <2>1 DEF TypeOK, SharedTyped
  <2>7. /\ \A g \in Files : g < file[c] => <<row.input, g>> \notin Altered
        /\ <<row.input, file[c]>> \notin Altered
        /\ file[c] \in Files /\ file'[c] = f
    BY <1>1, <1>9, <2>1 DEF Kept, Sound, Working, Places, TypeOK
  <2>8. IF file[c] = FileCount THEN Intact
        ELSE \A g \in Files : g < file'[c] => <<row.input, g>> \notin Altered
    BY <2>7 DEF Intact, Files, f
  <2>9. l = "ready" => file[c] = FileCount /\ file'[c] = 1
    BY <2>7 DEF l, f
  <2>10. l = "ready" => \A g \in Files : ~(g < file'[c])
    BY <2>9 DEF Files
  <2>11. l = "probe" => file[c] # FileCount
    BY DEF l
  <2>12. Intact' <=> Intact
    BY <1>2 DEF Intact
  <2>13. Sound(c)'
    BY <1>1, <1>2, <2>1, <2>2, <2>5, <2>8, <2>9, <2>10, <2>11, <2>12
       DEF Sound, Working, Places, Holding, After, Probing
  <2> QED BY <1>1, <1>2, <1>4, <1>6, <2>4, <2>5, <2>6, <2>13, StepKeeps
<1> QED BY <1>8, <1>9

\* A POST that was on the wire is the only one of its kind.
LEMMA StopKeeps ==
  ASSUME UploadInv, NEW c \in Callers, Stop(c)
  PROVE  UploadInv'
<1>1. /\ TypeOK /\ Sound(c) /\ RowSound /\ NativeSound /\ AtMostOneTemplate
      /\ AnswersSound /\ pc[c] \in Working
  BY DEF UploadInv, CallsSound, Stop, Working, TypeOK
<1>2. /\ UNCHANGED <<row, native, answers>> /\ Leave(c) /\ lease' = NoCaller
      /\ lateCreate' \in {lateCreate, lateCreate \union Creating(c)}
      /\ lateDelete' \in {lateDelete, lateDelete \union Deleting(c)}
  BY DEF Stop, Release
<1>3. Alone(c)
  BY <1>1, WorksAlone
<1>4. CallsTyped' /\ Others(c) /\ pc'[c] = "idle" /\ file'[c] = 1
  BY <1>2, CallsTypedNow, LeaveFacts
<1>5. Sound(c)'
  BY <1>4 DEF Intact, Sound, Working, Holding, After, Probing
<1>6. pc[c] = "probeDelete" => probe[c] \in Envelopes
  BY <1>1 DEF Intact, Sound
<1>7. input[c] \in Inputs /\ input[c] = row.input /\ file[c] \in Files
  BY <1>1 DEF Intact, Sound, Working, TypeOK
<1>8. lateCreate' \subseteq Names \X Inputs /\ lateDelete' \subseteq Envelopes
  BY <1>1, <1>2, <1>6, <1>7 DEF Creating, Deleting, TypeOK, Names
<1>9. SharedTyped'
  BY <1>1, <1>2, <1>8 DEF TypeOK, SharedTyped
<1>10. /\ \A m \in lateCreate' : m[2] = row.input
       /\ \A m \in lateCreate' : m[1] = Template => Stored(Template) = {}
       /\ row.state \in {"prepared", "failed"} => lateCreate' = lateCreate
  <2>1. CASE pc[c] = "post"
    <3>1. Creating(c) = {<<Template, input[c]>>}
      BY <2>1 DEF Creating
    <3>2. Stored(Template) = {} /\ row.state = "creating"
      BY <2>1, <1>1 DEF Intact, Sound, Untouched, Stored
    <3> QED BY <3>1, <3>2, <1>1, <1>2, <1>7 DEF NativeSound
  <2>2. CASE pc[c] = "probePost"
    <3>1. Creating(c) = {<<file[c], input[c]>>} /\ file[c] # Template
      BY <2>2, <1>7 DEF Creating, Files, Template
    <3>2. row.state \notin {"prepared", "failed"}
      BY <2>2, <1>1 DEF Intact, Sound, Holding, After, Probing
    <3> QED BY <3>1, <3>2, <1>1, <1>2, <1>7 DEF NativeSound
  <2>3. CASE pc[c] \notin {"post", "probePost"}
    <3>1. lateCreate' = lateCreate
      BY <2>3, <1>2 DEF Creating
    <3> QED BY <3>1, <1>1 DEF NativeSound
  <2> QED BY <2>1, <2>2, <2>3
<1>11. NativeSound' /\ AtMostOneTemplate'
  BY <1>1, <1>2, <1>10 DEF NativeSound, AtMostOneTemplate, Stored
<1>12. RowSound' /\ AnswersSound'
  BY <1>1, <1>2, <1>10 DEF Intact, RowSound, AnswersSound, Untouched
<1> QED BY <1>2, <1>3, <1>4, <1>5, <1>9, <1>11, <1>12, StepKeeps
-----------------------------------------------------------------------------
(***************************************************************************)
(* What happens while no call moves.                                       *)
(***************************************************************************)
LEMMA OutsideKeeps ==
  ASSUME UploadInv, UNCHANGED <<row, lease, pc, local, answers>>, SharedTyped',
         NativeSound', AtMostOneTemplate', Untouched => Untouched'
  PROVE  UploadInv'
<1>1. CallsTyped'
  BY CallsTypedNow DEF CallsTyped, local
<1>2. TypeOK'
  BY <1>1, TypesMeet DEF TypeOK, SharedTyped, CallsTyped
<1>3. CallsSound'
  BY DEF UploadInv, CallsSound, Intact, Sound, local
<1>4. RowSound' /\ AnswersSound'
  BY DEF UploadInv, Intact, RowSound, AnswersSound
<1> QED BY <1>2, <1>3, <1>4 DEF UploadInv

\* Two creates of the template under way would be the same message.
LEMMA CreateArrivesKeeps ==
  ASSUME UploadInv, NEW m \in lateCreate, NEW e \in Envelopes, CreateArrives(m, e)
  PROVE  UploadInv'
<1>1. TypeOK /\ NativeSound /\ AtMostOneTemplate
  BY DEF UploadInv
<1> DEFINE new == [name |-> m[1], input |-> m[2], state |-> "live"]
<1>2. /\ UNCHANGED <<row, lateDelete, lease, pc, local, answers>>
      /\ lateCreate' = lateCreate \ {m}
      /\ native[e].state = "absent" /\ native' = [native EXCEPT ![e] = new]
  BY DEF CreateArrives, NewEnvelope
<1>3. m[1] \in Names /\ m[2] \in Inputs /\ m[2] = row.input
  BY <1>1 DEF TypeOK, NativeSound
<1>4. new \in Envelope
  BY <1>3 DEF Envelope, EnvelopeStates
<1>5. native' \in [Envelopes -> Envelope] /\ lateCreate' \subseteq Names \X Inputs
  BY <1>1, <1>2, <1>4 DEF TypeOK
<1>6. SharedTyped'
  BY <1>1, <1>2, <1>5 DEF TypeOK, SharedTyped
<1>7. /\ native'[e].name = m[1] /\ native'[e].input = m[2]
      /\ \A d \in Envelopes \ {e} : native'[d] = native[d]
  BY <1>1, <1>2 DEF TypeOK
<1>8. ASSUME NEW n \in lateCreate', n[1] = Template PROVE m[1] # Template
  <2>1. n # m /\ n \in Names \X Inputs /\ m \in Names \X Inputs /\ n[2] = m[2]
    BY <1>1, <1>2, <1>3 DEF TypeOK, NativeSound
  <2> QED BY <2>1, <1>8
<1>9. m[1] # Template => Stored(Template)' \subseteq Stored(Template)
  BY <1>7 DEF Stored
<1>10. m[1] = Template => Stored(Template)' \subseteq {e}
  BY <1>1, <1>7 DEF Stored, NativeSound
<1>11. NativeSound'
  <2>1. \A d \in Envelopes : native'[d].state # "absent" =>
          native'[d].input = row'.input /\ row'.input # NoInput
    BY <1>1, <1>2, <1>3, <1>7 DEF NativeSound
  <2>2. \A n \in lateCreate' : n[2] = row'.input
    BY <1>1, <1>2 DEF NativeSound
  <2>3. ASSUME NEW n \in lateCreate', n[1] = Template PROVE Stored(Template)' = {}
    BY <2>3, <1>1, <1>2, <1>8, <1>9 DEF NativeSound
  <2> QED BY <2>1, <2>2, <2>3 DEF NativeSound
<1>12. AtMostOneTemplate'
  BY <1>1, <1>9, <1>10 DEF AtMostOneTemplate
<1>13. Untouched => Untouched'
  BY <1>2, <1>7 DEF Untouched
<1> QED BY <1>2, <1>6, <1>11, <1>12, <1>13, OutsideKeeps

LEMMA CreateLostKeeps ==
  ASSUME UploadInv, NEW m \in lateCreate, CreateLost(m)
  PROVE  UploadInv'
<1>1. /\ UNCHANGED <<row, native, lateDelete, lease, pc, local, answers>>
      /\ lateCreate' \subseteq lateCreate
  BY DEF CreateLost
<1>2. SharedTyped'
  BY <1>1 DEF UploadInv, TypeOK, SharedTyped
<1>3. NativeSound' /\ AtMostOneTemplate'
  BY <1>1 DEF UploadInv, NativeSound, AtMostOneTemplate, Stored
<1>4. Untouched => Untouched'
  BY <1>1 DEF Untouched
<1> QED BY <1>1, <1>2, <1>3, <1>4, OutsideKeeps

LEMMA DeletionKeeps ==
  ASSUME UploadInv, NEW e \in Envelopes, DeleteArrives(e) \/ NativeDelete(e)
  PROVE  UploadInv'
<1>1. TypeOK /\ NativeSound /\ AtMostOneTemplate
  BY DEF UploadInv
<1>2. /\ UNCHANGED <<row, lateCreate, lease, pc, local, answers>>
      /\ lateDelete' \subseteq lateDelete
      /\ \/ native' = native
         \/ native[e].state = "live" /\ native' = Deleted(e)
  BY DEF DeleteArrives, NativeDelete, Live
<1>3. /\ native' \in [Envelopes -> Envelope]
      /\ \A d \in Envelopes :
           /\ native'[d].input = native[d].input /\ native'[d].name = native[d].name
           /\ native'[d].state = "absent" <=> native[d].state = "absent"
  BY <1>1, <1>2, DeletedFacts DEF TypeOK
<1>4. Stored(Template)' = Stored(Template)
  BY <1>3 DEF Stored
<1>5. SharedTyped'
  BY <1>1, <1>2, <1>3 DEF TypeOK, SharedTyped
<1>6. AtMostOneTemplate' /\ NativeSound'
  BY <1>1, <1>2, <1>3, <1>4 DEF AtMostOneTemplate, NativeSound
<1>7. Untouched => Untouched'
  BY <1>2, <1>3 DEF Untouched
<1> QED BY <1>2, <1>5, <1>6, <1>7, OutsideKeeps

LEMMA NextUploadInv ==
  ASSUME UploadInv, [Next]_vars
  PROVE  UploadInv'
<1>1. ASSUME NEW c \in Callers, Step(c) PROVE UploadInv'
  <2>1. CASE Acquire(c) \/ Refuse(c) \/ Recover(c) \/ Mark(c)
    BY <2>1, AcquireKeeps, RefuseKeeps, RecoverKeeps, MarkKeeps
  <2>2. CASE PostRefused(c) \/ PostUncertain(c) \/ SaveFailure(c) \/ SaveId(c)
    BY <2>2, PostRefusedKeeps, PostUncertainKeeps, SaveFailureKeeps, SaveIdKeeps
  <2>3. CASE Verify(c) \/ Ready(c) \/ Stop(c)
    BY <2>3, VerifyKeeps, ReadyKeeps, StopKeeps
  <2>4. CASE ProbeList(c) \/ ProbeCheck(c) \/ ProbeDelete(c)
    BY <2>4, ProbeListKeeps, ProbeCheckKeeps, ProbeDeleteKeeps
  <2>5. CASE \E e \in Envelopes : PostAccepted(c, e) \/ ProbeAccepted(c, e)
    BY <2>5, PostAcceptedKeeps, ProbeAcceptedKeeps
  <2> QED BY <1>1, <2>1, <2>2, <2>3, <2>4, <2>5 DEF Step
<1>2. ASSUME Environment PROVE UploadInv'
  BY <1>2, CreateArrivesKeeps, CreateLostKeeps, DeletionKeeps DEF Environment
<1>3. CASE UNCHANGED vars
  <2>1. UNCHANGED <<row, native, lateCreate, lateDelete, lease, pc, local, answers>>
    BY <1>3 DEF vars, local
  <2>2. SharedTyped'
    BY <2>1 DEF UploadInv, TypeOK, SharedTyped
  <2>3. NativeSound' /\ AtMostOneTemplate'
    BY <2>1, QuietKeeps
  <2> QED BY <2>1, <2>2, <2>3, OutsideKeeps DEF Untouched
<1> QED BY <1>1, <1>2, <1>3, CallKeeps DEF Next

LEMMA UploadInvariant == Spec => []UploadInv
  BY InitUploadInv, NextUploadInv, PTL DEF Spec
-----------------------------------------------------------------------------
\* Every variable of the calls, the row and Documenso keeps its type.
THEOREM UploadTyped == Spec => []TypeOK
<1>1. UploadInv => TypeOK
  BY DEF UploadInv
<1> QED BY <1>1, UploadInvariant, PTL

\* However many calls, losses and late arrivals there are, no upload id ever
\* gets a second template (uploadTemplate() creates only from 'prepared').
THEOREM OneTemplatePerUpload == Spec => []AtMostOneTemplate
<1>1. UploadInv => AtMostOneTemplate
  BY DEF UploadInv
<1> QED BY <1>1, UploadInvariant, PTL

\* An upload that was stored as failed has no template, now or later.
THEOREM FailedUploadHasNone == Spec => []FailedHasNone
<1>1. UploadInv => FailedHasNone
  BY DEF UploadInv, Intact, RowSound, Untouched, FailedHasNone, Stored
<1> QED BY <1>1, UploadInvariant, PTL

\* For any number of files: a template is ready only after the conversion of
\* each of them was tried and kept its bytes.
THEOREM ReadyPassedConversion == Spec => []ReadyIsVerified
<1>1. UploadInv => ReadyIsVerified
  BY DEF UploadInv, Intact, RowSound, ReadyIsVerified
<1> QED BY <1>1, UploadInvariant, PTL

\* What was promised of one id: all calls that are answered name the same input
\* and the same template.
OneAnswer == \A a, b \in answers : a = b

\* However the calls meet, no two of them are answered differently.
THEOREM SameAnswer == Spec => []OneAnswer
<1>1. UploadInv => OneAnswer
  BY DEF UploadInv, TypeOK, AnswersSound, OneAnswer
<1> QED BY <1>1, UploadInvariant, PTL
-----------------------------------------------------------------------------
(***************************************************************************)
(* An upload keeps the promise of an idempotent create: the create is the  *)
(* arrival of the template in Documenso, the answer the row's 'ready'.     *)
(* Who answers holds a template that exists: the row names one, and so     *)
(* does a call that is about to write the row.                             *)
(***************************************************************************)
HeldInv ==
  /\ row.pid # NoEnvelope => row.pid \in Stored(Template)
  /\ \A c \in Callers : pc[c] = "save" => held[c] \in Stored(Template)

\* What a step may do to the envelopes without touching a template.
SameNative ==
  \/ native' = native
  \/ \E e \in Envelopes : native[e].state = "live" /\ native' = Deleted(e)
  \/ \E e \in Envelopes, n \in Files, i \in Inputs : NewEnvelope(e, n, i)

LEMMA SameTemplates ==
  ASSUME TypeOK, SameNative
  PROVE  Templates' = Templates /\ Stored(Template)' = Stored(Template)
<1>1. ASSUME NEW e \in Envelopes, native[e].state = "live", native' = Deleted(e)
      PROVE  Templates' = Templates /\ Stored(Template)' = Stored(Template)
  <2>1. /\ Stored(Template)' = Stored(Template)
        /\ \A d \in Envelopes : native'[d].input = native[d].input
    BY <1>1, DeletedFacts
  <2> QED BY <2>1 DEF Templates
<1>2. ASSUME NEW e \in Envelopes, NEW n \in Files, NEW i \in Inputs, NewEnvelope(e, n, i)
      PROVE  Templates' = Templates /\ Stored(Template)' = Stored(Template)
  <2>1. n # Template
    BY DEF Files, Template
  <2>2. /\ native[e].state = "absent" /\ native'[e].name = n
        /\ \A d \in Envelopes \ {e} : native'[d] = native[d]
    BY <1>2 DEF NewEnvelope, TypeOK
  <2>3. Stored(Template)' = Stored(Template)
    BY <2>1, <2>2 DEF Stored
  <2>4. \A d \in Envelopes :
          (IF d \in Stored(Template) THEN native[d].input ELSE NoInput)
            = (IF d \in Stored(Template)' THEN native'[d].input ELSE NoInput)
    BY <2>1, <2>2, <2>3 DEF Stored
  <2> QED BY <2>3, <2>4 DEF Templates
<1>3. native' = native => Templates' = Templates /\ Stored(Template)' = Stored(Template)
  BY DEF Templates, Stored
<1> QED BY <1>1, <1>2, <1>3 DEF SameNative

\* The one step that brings a template about.
LEMMA TemplateComes ==
  ASSUME UploadInv, NEW e \in Envelopes, NEW i \in Inputs, NewEnvelope(e, Template, i),
         Stored(Template) = {}
  PROVE  /\ Templates' = [Templates EXCEPT ![e] = Upload(i)]
         /\ \A d \in Envelopes : Templates[d] = Upload(NoInput)
         /\ Stored(Template)' = {e}
<1>1. native'[e].name = Template /\ native'[e].input = i /\ native'[e].state = "live"
      /\ \A d \in Envelopes \ {e} : native'[d] = native[d]
  BY DEF NewEnvelope, UploadInv, TypeOK
<1>2. Stored(Template)' = {e}
  BY <1>1 DEF Stored
<1>3. \A d \in Envelopes : Templates[d] = Upload(NoInput)
  BY DEF Templates
<1>4. \A d \in Envelopes :
        Templates'[d] = IF d = e THEN Upload(i) ELSE Upload(NoInput)
  BY <1>1, <1>2 DEF Templates
<1> QED BY <1>2, <1>3, <1>4 DEF Templates

\* What each step of a call does to what the callers can tell.
LEMMA CallEffect ==
  ASSUME UploadInv, NEW c \in Callers, Step(c)
  PROVE  \/ \E e \in Envelopes : PostAccepted(c, e)
         \/ Ready(c)
         \/ SameNative /\ answers' = answers
<1>1. CASE Acquire(c) \/ Refuse(c) \/ Recover(c) \/ Mark(c) \/ PostRefused(c)
  BY <1>1 DEF Acquire, Refuse, Recover, Mark, PostRefused, documenso, SameNative
<1>2. CASE PostUncertain(c) \/ SaveFailure(c) \/ SaveId(c) \/ Verify(c) \/ ProbeList(c)
           \/ ProbeCheck(c) \/ Stop(c)
  BY <1>2 DEF PostUncertain, SaveFailure, SaveId, Verify, ProbeList, ProbeCheck, Stop,
              documenso, SameNative
<1>3. CASE ProbeDelete(c)
  BY <1>3 DEF ProbeDelete, Live, SameNative
<1>4. ASSUME NEW e \in Envelopes, ProbeAccepted(c, e)
      PROVE  SameNative /\ answers' = answers
  <2>1. pc[c] = "probePost" /\ input[c] \in Inputs /\ file[c] \in Files
    BY <1>4 DEF ProbeAccepted, UploadInv, CallsSound, Sound, TypeOK
  <2> QED BY <1>4, <2>1 DEF ProbeAccepted, SameNative
<1> QED BY <1>1, <1>2, <1>3, <1>4 DEF Step

LEMMA OutsideEffect ==
  ASSUME UploadInv, Environment
  PROVE  /\ UNCHANGED <<row, pc, held, answers>>
         /\ \/ SameNative
            \/ \E e \in Envelopes, i \in Inputs :
                 NewEnvelope(e, Template, i) /\ Stored(Template) = {}
<1>1. ASSUME NEW m \in lateCreate, NEW e \in Envelopes, CreateArrives(m, e)
      PROVE  \/ SameNative
             \/ NewEnvelope(e, Template, m[2]) /\ m[2] \in Inputs /\ Stored(Template) = {}
  <2>1. m[1] \in Names /\ m[2] \in Inputs
    BY DEF UploadInv, TypeOK
  <2>2. NewEnvelope(e, m[1], m[2])
    BY <1>1 DEF CreateArrives
  <2>3. m[1] = Template => Stored(Template) = {}
    BY DEF UploadInv, NativeSound
  <2> QED BY <2>1, <2>2, <2>3 DEF SameNative, Names
<1>2. ASSUME NEW e \in Envelopes, DeleteArrives(e) \/ NativeDelete(e) PROVE SameNative
  BY <1>2 DEF DeleteArrives, NativeDelete, Live, SameNative
<1>3. (\E m \in lateCreate : CreateLost(m)) => SameNative
  BY DEF CreateLost, SameNative
<1>4. UNCHANGED <<row, pc, held, answers>>
  BY DEF Environment, CreateLost, CreateArrives, DeleteArrives, NativeDelete, local
<1> QED BY <1>1, <1>2, <1>3, <1>4 DEF Environment

LEMMA NextHeld ==
  ASSUME UploadInv, HeldInv, [Next]_vars
  PROVE  HeldInv'
<1>0. TypeOK /\ row.pid \in Envelopes \union {NoEnvelope}
      /\ \A c \in Callers : pc[c] \in {"save", "verify"} => held[c] \in Envelopes
  BY DEF UploadInv, TypeOK, Row, CallsSound, Sound, Holding, After
<1>1. ASSUME Stored(Template) \subseteq Stored(Template)', row'.pid = row.pid,
             \A c \in Callers : pc'[c] = "save" => pc[c] = "save" /\ held'[c] = held[c]
      PROVE  HeldInv'
  BY <1>1 DEF HeldInv
<1>2. ASSUME NEW c \in Callers, Step(c) PROVE HeldInv'
  <2>1. CASE \E e \in Envelopes : PostAccepted(c, e)
    <3>1. PICK e \in Envelopes : PostAccepted(c, e)
      BY <2>1
    <3>2. Stored(Template) = {} /\ input[c] \in Inputs /\ row.pid = NoEnvelope
      BY <3>1 DEF PostAccepted, UploadInv, CallsSound, Sound, Untouched, Stored
    <3>3. Stored(Template)' = {e}
      BY <3>1, <3>2, TemplateComes DEF PostAccepted
    <3>4. \A b \in Callers : pc[b] # "save"
      BY <3>2 DEF HeldInv
    <3>5. row' = row /\ \A b \in Callers : pc'[b] = "save" => b = c /\ held'[b] = e
      BY <1>0, <3>1, <3>4 DEF PostAccepted, Keep, TypeOK
    <3> QED BY <3>2, <3>3, <3>5 DEF HeldInv
  <2>2. CASE SameNative \/ Ready(c)
    <3>0. Stored(Template)' = Stored(Template)
      BY <1>0, <2>2, SameTemplates DEF Ready, documenso, SameNative
    <3>1. CASE Acquire(c)
      <4>1. row' = row /\ pc' = [pc EXCEPT ![c] = Todo] /\ held' = [held EXCEPT ![c] = row.pid]
        BY <3>1 DEF Acquire
      <4>2. Todo = "save" => row.pid # NoEnvelope
        BY DEF Todo
      <4> QED BY <1>0, <3>0, <4>1, <4>2 DEF HeldInv, TypeOK
    <3>2. CASE Recover(c)
      <4>1. PICK e \in Envelopes : Found(Template) = {e} /\ Keep(c, e, "save")
        BY <3>2 DEF Recover
      <4>2. e \in Stored(Template) /\ row' = row
        BY <3>2, <4>1 DEF Found, Live, Stored, Recover
      <4> QED BY <1>0, <3>0, <4>1, <4>2 DEF HeldInv, Keep, TypeOK
    <3>3. CASE SaveId(c)
      <4>1. /\ pc[c] = "save" /\ row'.pid = held[c] /\ held' = held
            /\ pc' = [pc EXCEPT ![c] = "verify"]
        BY <1>0, <3>3 DEF SaveId, Goto, local, TypeOK, Row
      <4> QED BY <1>0, <3>0, <4>1 DEF HeldInv, TypeOK
    <3>4. CASE ~(Acquire(c) \/ Recover(c) \/ SaveId(c) \/ \E e \in Envelopes : PostAccepted(c, e))
      <4>1. row'.pid = row.pid
        BY <1>0, <1>2, <3>4 DEF Step, Refuse, Mark, PostRefused, PostUncertain, SaveFailure,
           Verify, Ready, ProbeList, ProbeCheck, ProbeDelete, Stop, ProbeAccepted, TypeOK, Row
      <4>2. /\ \A b \in Callers \ {c} : pc'[b] = pc[b] /\ held'[b] = held[b]
            /\ pc'[c] # "save"
        <5>1. \A l \in Places \ {"save"} : Goto(c, l) =>
                /\ \A b \in Callers \ {c} : pc'[b] = pc[b] /\ held'[b] = held[b]
                /\ pc'[c] # "save"
          BY <1>0 DEF Goto, local, TypeOK
        <5>2. Leave(c) => /\ \A b \in Callers \ {c} : pc'[b] = pc[b] /\ held'[b] = held[b]
                          /\ pc'[c] # "save"
          BY <1>0 DEF Leave, TypeOK
        <5>3. \A e : Probe(c, e, "probeCheck") =>
                /\ \A b \in Callers \ {c} : pc'[b] = pc[b] /\ held'[b] = held[b]
                /\ pc'[c] # "save"
          BY <1>0 DEF Probe, TypeOK
        <5>4. CASE ProbeDelete(c) /\ Kept(c)
          BY <1>0, <5>4 DEF ProbeDelete, TypeOK
        <5>5. CASE ProbeDelete(c) /\ ~Kept(c)
          BY <5>2, <5>5 DEF ProbeDelete, Release
        <5>6. CASE Refuse(c) \/ SaveFailure(c) \/ Ready(c) \/ Stop(c)
          BY <5>2, <5>6 DEF Refuse, SaveFailure, Ready, Stop, Release
        <5>7. CASE Mark(c) \/ PostRefused(c) \/ PostUncertain(c) \/ ProbeCheck(c)
          BY <5>1, <5>7 DEF Mark, PostRefused, PostUncertain, ProbeCheck, Places
        <5>8. CASE Verify(c)
          BY <5>1, <5>8 DEF Verify, Places
        <5>9. CASE ProbeList(c) \/ \E e \in Envelopes : ProbeAccepted(c, e)
          BY <5>1, <5>3, <5>9 DEF ProbeList, ProbeAccepted, Places
        <5> QED BY <1>2, <3>4, <5>4, <5>5, <5>6, <5>7, <5>8, <5>9 DEF Step
      <4> QED BY <1>1, <3>0, <4>1, <4>2
    <3> QED BY <2>1, <3>1, <3>2, <3>3, <3>4
  <2> QED BY <1>2, <2>1, <2>2, CallEffect
<1>3. ASSUME NEW c \in Callers, NEW i \in Inputs, Call(c, i) PROVE HeldInv'
  <2>1. /\ native' = native /\ row'.pid = row.pid
        /\ pc' = [pc EXCEPT ![c] = "queued"] /\ held' = held
    BY <1>0, <1>3 DEF Call, documenso, TypeOK, Row
  <2> QED BY <1>0, <1>1, <2>1 DEF Stored, TypeOK
<1>4. CASE Environment
  <2>1. Stored(Template) \subseteq Stored(Template)'
    BY <1>0, <1>4, OutsideEffect, SameTemplates
  <2> QED BY <1>1, <1>4, <2>1, OutsideEffect
<1>5. CASE UNCHANGED vars
  BY <1>1, <1>5 DEF vars, Stored
<1> QED BY <1>2, <1>3, <1>4, <1>5 DEF Next

LEMMA InitHeld == Init => HeldInv
  BY DEF Init, HeldInv, NoRow

\* Creating the only template is the Create of the promise.
LEMMA CreateMaps ==
  ASSUME UploadInv, NEW e \in Envelopes, NEW i \in Inputs, NewEnvelope(e, Template, i),
         Stored(Template) = {}, answers' = answers
  PROVE  Promise!Next
<1>1. /\ Templates' = [Templates EXCEPT ![e] = Upload(i)]
      /\ \A d \in Envelopes : Templates[d] = Upload(NoInput)
  BY TemplateComes
<1>2. Promise!Rows = {}
  BY <1>1 DEF Promise!Rows
<1>3. Promise!Create(e, Upload(i))
  BY <1>1, <1>2 DEF Promise!Create, Answered
<1> QED BY <1>3 DEF Promise!Next

\* 'ready' answers the input that the template was created of.
LEMMA ReadyMaps ==
  ASSUME UploadInv, HeldInv, NEW c \in Callers, Ready(c)
  PROVE  Promise!Next
<1>1. /\ pc[c] = "ready" /\ input[c] \in Inputs /\ input[c] = row.input
      /\ held[c] \in Envelopes /\ held[c] = row.pid
  BY DEF Ready, UploadInv, CallsSound, Sound, Working, Places, Holding, After
<1>2. held[c] \in Stored(Template) /\ native[held[c]].input = input[c]
  BY <1>1 DEF HeldInv, UploadInv, NativeSound, Stored
<1>3. Templates[held[c]] = Upload(input[c]) /\ Templates' = Templates
  BY <1>1, <1>2 DEF Templates, Ready, documenso, Stored
<1> DEFINE x == <<input[c], held[c]>>
<1>4. Answered' = Answered \union {<<Upload(input[c]), held[c]>>}
  <2>1. answers' = answers \union {x} /\ x[1] = input[c] /\ x[2] = held[c]
    BY DEF Ready
  <2> HIDE DEF x
  <2> QED BY <2>1 DEF Answered
<1>5. PICK e \in Envelopes, i \in Inputs : e = held[c] /\ i = input[c]
  BY <1>1
<1>6. Promise!Answer(e, Upload(i))
  BY <1>3, <1>4, <1>5 DEF Promise!Answer
<1> QED BY <1>6 DEF Promise!Next

LEMMA NextPromise ==
  ASSUME UploadInv, HeldInv, [Next]_vars
  PROVE  [Promise!Next]_(<<Templates, Answered>>)
<1>0. TypeOK
  BY DEF UploadInv
<1>1. ASSUME SameNative, answers' = answers
      PROVE  [Promise!Next]_(<<Templates, Answered>>)
  BY <1>0, <1>1, SameTemplates DEF Answered
<1>2. ASSUME NEW c \in Callers, Step(c)
      PROVE  [Promise!Next]_(<<Templates, Answered>>)
  <2>1. ASSUME NEW e \in Envelopes, PostAccepted(c, e) PROVE Promise!Next
    <3>1. Stored(Template) = {} /\ input[c] \in Inputs
      BY <2>1 DEF PostAccepted, UploadInv, CallsSound, Sound, Untouched, Stored
    <3> QED BY <2>1, <3>1, CreateMaps DEF PostAccepted
  <2> QED BY <1>1, <1>2, <2>1, CallEffect, ReadyMaps
<1>3. ASSUME NEW c \in Callers, NEW i \in Inputs, Call(c, i)
      PROVE  SameNative /\ answers' = answers
  BY <1>3 DEF Call, documenso, SameNative
<1>4. ASSUME Environment
      PROVE  [Promise!Next]_(<<Templates, Answered>>)
  BY <1>1, <1>4, OutsideEffect, CreateMaps
<1>5. UNCHANGED vars => SameNative /\ answers' = answers
  BY DEF vars, SameNative
<1> QED BY <1>1, <1>2, <1>3, <1>4, <1>5 DEF Next

LEMMA InitPromise == Init => Promise!Init
<1> SUFFICES ASSUME Init PROVE Promise!Init
  OBVIOUS
<1>1. Stored(Template) = {}
  BY DEF Init, Stored, Absent
<1> QED BY <1>1 DEF Init, Templates, Answered, Promise!Init

\* Uploads under one id are an idempotent create: whatever is lost, late or
\* repeated, one template comes to be, in one step, and whoever is answered sent
\* the input it was made of.
THEOREM UploadKeepsPromise == Spec => KeepsPromise
<1>1. Init => Promise!Init
  BY InitPromise
<1>2. UploadInv /\ HeldInv /\ [Next]_vars =>
        [Promise!Next]_(<<Templates, Answered>>)
  BY NextPromise
<1>3. Spec => []HeldInv
  BY UploadInvariant, InitHeld, NextHeld, PTL DEF Spec
<1> QED BY <1>1, <1>2, <1>3, UploadInvariant, PTL DEF Spec, KeepsPromise, Promise!Spec
=============================================================================
