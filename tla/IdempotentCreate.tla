-------------------------- MODULE IdempotentCreate --------------------------
(***************************************************************************)
(* What a create with an idempotency key promises its callers, that of a   *)
(* request and that of a template: it happens at most once per key and per *)
(* reference, in one step, and whoever is answered is answered what was    *)
(* created of the very input sent.                                         *)
(***************************************************************************)
CONSTANTS
  Ids,      \* ids of what is created
  Inputs,   \* records with the fields key and ref
  NoInput

VARIABLES
  table,    \* the input each id was created with
  answers   \* <<input, id>> pairs that callers were given

Init == table = [id \in Ids |-> NoInput] /\ answers = {}

Rows == {id \in Ids : table[id] # NoInput}

Create(id, i) ==
  /\ table[id] = NoInput
  /\ \A r \in Rows : table[r].key # i.key /\ table[r].ref # i.ref
  /\ table' = [table EXCEPT ![id] = i]
  /\ UNCHANGED answers

Answer(id, i) ==
  /\ table[id] = i
  /\ answers' = answers \union {<<i, id>>}
  /\ UNCHANGED table

Next == \E id \in Ids, i \in Inputs : Create(id, i) \/ Answer(id, i)

Spec == Init /\ [][Next]_<<table, answers>>
=============================================================================
