------------------------ MODULE RequestCreationProofs ------------------------
(***************************************************************************)
(* For any calls, keys, references and earlier requests: create() keeps    *)
(* the API's promise, its callers never clash on a key, and replacements   *)
(* stand beside requests that are over.                                    *)
(***************************************************************************)
EXTENDS RequestCreation, TLAPS

\* Calls that hold an id nobody else has; that are past reissueSeed(); that hold
\* the lock; that found no row under their key.
Preparing == {"locking", "repeat", "insert", "commit"}
Seeded == {"prepare"} \union Preparing
Locked == {"repeat", "insert", "commit"}
Unmatched == {"insert", "commit"}

CallSound ==
  \A c \in Callers :
    /\ pc[c] # "idle" => input[c] \in Inputs
    /\ pc[c] \in Preparing => mine[c] \in Ids /\ table[mine[c]] = NoInput
    /\ pc[c] = "process" => mine[c] \in Ids /\ table[mine[c]] = input[c]

OwnIds ==
  \A b, c \in Callers :
    pc[b] \in Preparing /\ pc[c] \in Preparing /\ mine[b] = mine[c] => b = c

LockSound ==
  \A c \in Callers : pc[c] \in Locked => lock[input[c].key] = c

\* Under the lock no row appears under the key that was looked up.
KeyFree ==
  \A c \in Callers, id \in Ids :
    pc[c] \in Unmatched /\ table[id] # NoInput => table[id].key # input[c].key

\* An inserted row keeps others with its reference from being inserted.
RefFree ==
  \A c \in Callers : pc[c] = "commit" =>
    /\ \A id \in Ids : table[id] # NoInput => table[id].ref # input[c].ref
    /\ \A b \in Callers : pc[b] = "commit" /\ input[b].ref = input[c].ref => b = c

SeedSound ==
  \A c \in Callers : pc[c] \in Seeded /\ input[c].prior # NoPrior =>
    priors[input[c].prior] = "over"

CreateInv ==
  /\ TypeOK /\ CallSound /\ OwnIds /\ LockSound /\ KeyFree /\ RefFree
  /\ SeedSound /\ ReplacesFinished /\ NoClash

USE NullAssumption, NoInputAssumption
-----------------------------------------------------------------------------
(***************************************************************************)
(* What the common parts of the actions do.                                *)
(***************************************************************************)
\* Only call c moves.
Others(c) ==
  \A b \in Callers \ {c} :
    pc'[b] = pc[b] /\ input'[b] = input[b] /\ mine'[b] = mine[b]

CallsTyped ==
  /\ pc \in [Callers -> Places]
  /\ input \in [Callers -> Inputs \union {NoInput}]
  /\ mine \in [Callers -> Ids \union {NoId}]

LEMMA GotoFacts ==
  ASSUME TypeOK, NEW c \in Callers, NEW l \in Places, Goto(c, l)
  PROVE  CallsTyped' /\ Others(c) /\ pc'[c] = l
         /\ input'[c] = input[c] /\ mine'[c] = mine[c]
  BY DEF TypeOK, CallsTyped, Goto, Others

LEMMA TakeFacts ==
  ASSUME TypeOK, NEW c \in Callers, NEW l \in Places, NEW id \in Ids,
         Take(c, l, id)
  PROVE  CallsTyped' /\ Others(c) /\ pc'[c] = l
         /\ input'[c] = input[c] /\ mine'[c] = id
  BY DEF TypeOK, CallsTyped, Take, Others

LEMMA LeaveFacts ==
  ASSUME TypeOK, NEW c \in Callers, Leave(c)
  PROVE  CallsTyped' /\ Others(c) /\ pc'[c] = "idle"
<1>1. CallsTyped'
  BY DEF TypeOK, CallsTyped, Leave, Places
<1>2. Others(c) /\ pc'[c] = "idle"
  BY DEF TypeOK, Leave, Others
<1> QED BY <1>1, <1>2

LEMMA UnlockFacts ==
  ASSUME TypeOK, NEW c \in Callers, Unlock(c)
  PROVE  /\ lock' \in [Keys -> Callers \union {NoCaller}]
         /\ \A k \in Keys : lock[k] # c => lock'[k] = lock[k]
  BY DEF TypeOK, Unlock
-----------------------------------------------------------------------------
(***************************************************************************)
(* The invariant.                                                          *)
(***************************************************************************)
LEMMA InitCreateInv == Init => CreateInv
<1> SUFFICES ASSUME Init PROVE CreateInv
  OBVIOUS
<1>1. TypeOK
  BY DEF Init, TypeOK, PriorStates, Places
<1>2. CallSound /\ OwnIds /\ LockSound /\ KeyFree /\ RefFree /\ SeedSound
  BY DEF Init, CallSound, OwnIds, LockSound, KeyFree, RefFree, SeedSound,
         Preparing, Seeded, Locked, Unmatched
<1>3. ReplacesFinished /\ NoClash
  BY DEF Init, ReplacesFinished, Rows, NoClash
<1> QED BY <1>1, <1>2, <1>3 DEF CreateInv

\* What is to be shown of the call that moves.
MovesSoundly(c) ==
  /\ pc'[c] # "idle" => input'[c] \in Inputs
  /\ pc'[c] \in Preparing =>
       /\ mine'[c] \in Ids /\ table'[mine'[c]] = NoInput
       /\ \A b \in Callers \ {c} : pc[b] \in Preparing => mine[b] # mine'[c]
  /\ pc'[c] = "process" => mine'[c] \in Ids /\ table'[mine'[c]] = input'[c]
  /\ pc'[c] \in Locked => lock'[input'[c].key] = c
  /\ pc'[c] \in Unmatched =>
       \A id \in Ids : table'[id] # NoInput => table'[id].key # input'[c].key
  /\ pc'[c] = "commit" =>
       /\ \A id \in Ids : table'[id] # NoInput => table'[id].ref # input'[c].ref
       /\ \A b \in Callers \ {c} : pc[b] = "commit" => input[b].ref # input'[c].ref
  /\ pc'[c] \in Seeded /\ input'[c].prior # NoPrior =>
       priors[input'[c].prior] = "over"

\* A call that keeps its own part of the invariant keeps all of it: it writes
\* nothing but its own row, and frees nobody's lock but its own.
LEMMA StepKeeps ==
  ASSUME CreateInv, NEW c \in Callers, CallsTyped', Others(c), MovesSoundly(c),
         UNCHANGED <<priors, clashes>>,
         answers' \subseteq Inputs \X Ids,
         table' \in [Ids -> Inputs \union {NoInput}],
         \A id \in Ids : table'[id] # table[id] =>
           pc[c] = "commit" /\ id = mine[c] /\ table'[id] = input[c],
         lock' \in [Keys -> Callers \union {NoCaller}],
         \A k \in Keys : lock[k] \notin {c, NoCaller} => lock'[k] = lock[k]
  PROVE  CreateInv'
<1>0. /\ TypeOK /\ CallsTyped' /\ CallSound /\ OwnIds /\ LockSound /\ KeyFree
      /\ RefFree /\ SeedSound /\ ReplacesFinished /\ NoClash
  BY DEF CreateInv
<1>1. TypeOK'
  BY <1>0 DEF TypeOK, CallsTyped
<1>2. \A b \in Callers \ {c} :
        pc'[b] = pc[b] /\ input'[b] = input[b] /\ mine'[b] = mine[b]
  BY DEF Others
<1>3. ASSUME pc[c] = "commit"
      PROVE  /\ mine[c] \in Ids /\ table[mine[c]] = NoInput /\ input[c] \in Inputs
             /\ lock[input[c].key] = c
             /\ input[c].prior # NoPrior => priors[input[c].prior] = "over"
  BY <1>0, <1>3 DEF CallSound, LockSound, SeedSound, Preparing, Locked, Seeded
<1>4. CallSound'
  <2>1. ASSUME NEW b \in Callers \ {c}, pc[b] \in Preparing
        PROVE  mine[b] \in Ids /\ table'[mine[b]] = NoInput
    <3>1. mine[b] \in Ids /\ table[mine[b]] = NoInput
      BY <1>0, <2>1 DEF CallSound
    <3>2. pc[c] = "commit" => mine[b] # mine[c]
      BY <1>0, <2>1 DEF OwnIds, Preparing
    <3> QED BY <3>1, <3>2
  <2>2. ASSUME NEW b \in Callers \ {c}, pc[b] = "process"
        PROVE  mine[b] \in Ids /\ table'[mine[b]] = input[b]
    <3>1. mine[b] \in Ids /\ table[mine[b]] = input[b] /\ input[b] \in Inputs
      BY <1>0, <2>2 DEF CallSound
    <3> QED BY <1>3, <3>1
  <2>3. \A b \in Callers \ {c} : pc[b] # "idle" => input[b] \in Inputs
    BY <1>0 DEF CallSound
  <2> QED BY <1>2, <2>1, <2>2, <2>3 DEF CallSound, MovesSoundly
<1>5. OwnIds'
  BY <1>0, <1>2 DEF OwnIds, MovesSoundly
<1>6. LockSound'
  <2>1. ASSUME NEW b \in Callers \ {c}, pc[b] \in Locked
        PROVE  lock'[input[b].key] = b
    <3>1. input[b] \in Inputs /\ lock[input[b].key] = b
      BY <1>0, <2>1 DEF CallSound, LockSound, Locked
    <3>2. input[b].key \in Keys
      BY <3>1 DEF Inputs
    <3> QED BY <3>1, <3>2
  <2> QED BY <1>2, <2>1 DEF LockSound, MovesSoundly
<1>7. KeyFree'
  <2>1. ASSUME NEW b \in Callers \ {c}, NEW id \in Ids,
               pc[b] \in Unmatched, table'[id] # NoInput
        PROVE  table'[id].key # input[b].key
    <3>1. CASE table'[id] = table[id]
      BY <1>0, <2>1, <3>1 DEF KeyFree
    <3>2. CASE table'[id] # table[id]
      <4>1. table'[id] = input[c] /\ lock[input[c].key] = c
        BY <1>3, <3>2
      <4>2. lock[input[b].key] = b
        BY <1>0, <2>1 DEF LockSound, Locked, Unmatched
      <4> QED BY <4>1, <4>2
    <3> QED BY <3>1, <3>2
  <2> QED BY <1>2, <2>1 DEF KeyFree, MovesSoundly
<1>8. RefFree'
  <2>1. ASSUME NEW b \in Callers \ {c}, NEW id \in Ids,
               pc[b] = "commit", table'[id] # NoInput
        PROVE  table'[id].ref # input[b].ref
    <3>1. CASE table'[id] = table[id]
      BY <1>0, <2>1, <3>1 DEF RefFree
    <3>2. CASE table'[id] # table[id]
      BY <1>0, <2>1, <3>2 DEF RefFree
    <3> QED BY <3>1, <3>2
  <2>2. \A a, b \in Callers \ {c} :
          pc[a] = "commit" /\ pc[b] = "commit" /\ input[a].ref = input[b].ref
          => a = b
    BY <1>0 DEF RefFree
  <2>3. ASSUME NEW a \in Callers, NEW b \in Callers, pc'[a] = "commit",
               pc'[b] = "commit", input'[b].ref = input'[a].ref
        PROVE  a = b
    BY <1>2, <2>2, <2>3 DEF MovesSoundly
  <2>4. ASSUME NEW b \in Callers, pc'[b] = "commit", NEW id \in Ids,
               table'[id] # NoInput
        PROVE  table'[id].ref # input'[b].ref
    BY <1>2, <2>1, <2>4 DEF MovesSoundly
  <2> QED BY <2>3, <2>4 DEF RefFree
<1>9. SeedSound'
  BY <1>0, <1>2 DEF SeedSound, MovesSoundly
<1>10. ReplacesFinished'
  <2>1. ASSUME NEW id \in Ids, table'[id] # NoInput, table'[id].prior # NoPrior
        PROVE  priors[table'[id].prior] = "over"
    <3>1. CASE table'[id] = table[id]
      BY <1>0, <2>1, <3>1 DEF ReplacesFinished, Rows
    <3>2. CASE table'[id] # table[id]
      BY <1>3, <2>1, <3>2
    <3> QED BY <3>1, <3>2
  <2> QED BY <2>1 DEF ReplacesFinished, Rows
<1>11. NoClash'
  BY <1>0 DEF NoClash
<1> QED BY <1>1, <1>4, <1>5, <1>6, <1>7, <1>8, <1>9, <1>10, <1>11 DEF CreateInv

\* Steps that leave tables and locks alone.
LEMMA MoveKeeps ==
  ASSUME CreateInv, NEW c \in Callers, CallsTyped', Others(c), MovesSoundly(c),
         UNCHANGED <<table, answers, priors, lock, clashes>>
  PROVE  CreateInv'
<1>1. answers \subseteq Inputs \X Ids /\ table \in [Ids -> Inputs \union {NoInput}]
      /\ lock \in [Keys -> Callers \union {NoCaller}]
  BY DEF CreateInv, TypeOK
<1> QED BY <1>1, StepKeeps

LEMMA CallKeeps ==
  ASSUME CreateInv, NEW c \in Callers, NEW i \in Inputs, Call(c, i)
  PROVE  CreateInv'
<1>1. /\ pc[c] = "idle"
      /\ pc' = [pc EXCEPT ![c] = "lookup"] /\ input' = [input EXCEPT ![c] = i]
      /\ UNCHANGED <<table, answers, priors, mine, lock, clashes>>
  BY DEF Call
<1>2. CallsTyped' /\ Others(c) /\ pc'[c] = "lookup" /\ input'[c] = i
  BY <1>1 DEF CreateInv, TypeOK, CallsTyped, Others, Places
<1>3. MovesSoundly(c)
  BY <1>2 DEF MovesSoundly, Preparing, Locked, Unmatched, Seeded
<1> QED BY <1>1, <1>2, <1>3, MoveKeeps

LEMMA LookupKeeps ==
  ASSUME CreateInv, NEW c \in Callers, Lookup(c)
  PROVE  CreateInv'
<1>0. TypeOK /\ pc[c] = "lookup" /\ input[c] \in Inputs
  BY DEF Lookup, CreateInv, CallSound
<1>1. UNCHANGED <<table, answers, priors, lock, clashes>>
  BY DEF Lookup
<1>2. CASE WithKey(input[c].key) # {}
  <2>1. PICK id \in WithKey(input[c].key) :
          table[id] = input[c] /\ Take(c, "process", id)
    BY <1>2 DEF Lookup
  <2>2. id \in Ids /\ "process" \in Places
    BY DEF WithKey, Rows, Places
  <2>3. CallsTyped' /\ Others(c) /\ pc'[c] = "process"
        /\ input'[c] = input[c] /\ mine'[c] = id
    BY <1>0, <2>1, <2>2, TakeFacts
  <2>4. MovesSoundly(c)
    BY <1>0, <1>1, <2>1, <2>2, <2>3
       DEF MovesSoundly, Preparing, Locked, Unmatched, Seeded
  <2> QED BY <1>1, <2>3, <2>4, MoveKeeps
<1>3. CASE WithKey(input[c].key) = {}
  <2> DEFINE l == IF input[c].prior = NoPrior THEN "prepare" ELSE "seed"
  <2>1. Goto(c, l) /\ l \in Places
    BY <1>3 DEF Lookup, Places
  <2>2. l \in {"prepare", "seed"} /\ (l = "prepare" => input[c].prior = NoPrior)
    OBVIOUS
  <2> HIDE DEF l
  <2>3. CallsTyped' /\ Others(c) /\ pc'[c] = l /\ input'[c] = input[c]
    BY <1>0, <2>1, GotoFacts
  <2>4. MovesSoundly(c)
    BY <1>0, <2>2, <2>3 DEF MovesSoundly, Preparing, Locked, Unmatched, Seeded
  <2> QED BY <1>1, <2>3, <2>4, MoveKeeps
<1> QED BY <1>2, <1>3

LEMMA SeedKeeps ==
  ASSUME CreateInv, NEW c \in Callers, Seed(c)
  PROVE  CreateInv'
<1>0. /\ TypeOK /\ pc[c] = "seed" /\ input[c] \in Inputs /\ "prepare" \in Places
      /\ priors[input[c].prior] = "over" /\ Goto(c, "prepare")
      /\ UNCHANGED <<table, answers, priors, lock, clashes>>
  BY DEF Seed, CreateInv, CallSound, Places
<1>1. CallsTyped' /\ Others(c) /\ pc'[c] = "prepare" /\ input'[c] = input[c]
  BY <1>0, GotoFacts
<1>2. MovesSoundly(c)
  BY <1>0, <1>1 DEF MovesSoundly, Preparing, Locked, Unmatched, Seeded
<1> QED BY <1>0, <1>1, <1>2, MoveKeeps

LEMMA PrepareKeeps ==
  ASSUME CreateInv, NEW c \in Callers, NEW id \in Ids, Prepare(c, id)
  PROVE  CreateInv'
<1>0. /\ TypeOK /\ pc[c] = "prepare" /\ input[c] \in Inputs
      /\ "locking" \in Places /\ Take(c, "locking", id)
      /\ table[id] = NoInput /\ \A b \in Callers : mine[b] # id
      /\ UNCHANGED <<table, answers, priors, lock, clashes>>
  BY DEF Prepare, CreateInv, CallSound, Places
<1>1. CallsTyped' /\ Others(c) /\ pc'[c] = "locking"
      /\ input'[c] = input[c] /\ mine'[c] = id
  BY <1>0, TakeFacts
<1>2. input[c].prior # NoPrior => priors[input[c].prior] = "over"
  BY <1>0 DEF CreateInv, SeedSound, Seeded
<1>3. MovesSoundly(c)
  BY <1>0, <1>1, <1>2 DEF MovesSoundly, Preparing, Locked, Unmatched, Seeded
<1> QED BY <1>0, <1>1, <1>3, MoveKeeps

\* What a call between prepare() and its commit knows.
LEMMA PreparingFacts ==
  ASSUME CreateInv, NEW c \in Callers, pc[c] \in Preparing
  PROVE  /\ TypeOK /\ input[c] \in Inputs /\ input[c].key \in Keys
         /\ mine[c] \in Ids /\ table[mine[c]] = NoInput
         /\ \A b \in Callers \ {c} : pc[b] \in Preparing => mine[b] # mine[c]
         /\ input[c].prior # NoPrior => priors[input[c].prior] = "over"
<1>1. input[c] \in Inputs /\ mine[c] \in Ids /\ table[mine[c]] = NoInput
  BY DEF CreateInv, CallSound, Preparing
<1>2. \A b \in Callers \ {c} : pc[b] \in Preparing => mine[b] # mine[c]
  BY DEF CreateInv, OwnIds
<1>3. input[c].prior # NoPrior => priors[input[c].prior] = "over"
  BY DEF CreateInv, SeedSound, Seeded
<1> QED BY <1>1, <1>2, <1>3 DEF Inputs, CreateInv

LEMMA LockKeyKeeps ==
  ASSUME CreateInv, NEW c \in Callers, LockKey(c)
  PROVE  CreateInv'
<1>0. /\ pc[c] \in Preparing /\ "repeat" \in Places /\ Goto(c, "repeat")
      /\ lock[input[c].key] = NoCaller
      /\ lock' = [lock EXCEPT ![input[c].key] = c]
      /\ UNCHANGED <<table, answers, priors, clashes>>
  BY DEF LockKey, Preparing, Places
<1>1. /\ TypeOK /\ input[c] \in Inputs /\ input[c].key \in Keys
      /\ mine[c] \in Ids /\ table[mine[c]] = NoInput
      /\ \A b \in Callers \ {c} : pc[b] \in Preparing => mine[b] # mine[c]
      /\ input[c].prior # NoPrior => priors[input[c].prior] = "over"
  BY <1>0, PreparingFacts
<1>2. CallsTyped' /\ Others(c) /\ pc'[c] = "repeat"
      /\ input'[c] = input[c] /\ mine'[c] = mine[c]
  BY <1>0, <1>1, GotoFacts
<1>3. /\ lock' \in [Keys -> Callers \union {NoCaller}]
      /\ lock'[input[c].key] = c
      /\ \A k \in Keys : lock[k] \notin {c, NoCaller} => lock'[k] = lock[k]
  BY <1>0, <1>1 DEF TypeOK
<1>4. MovesSoundly(c)
  BY <1>0, <1>1, <1>2, <1>3 DEF MovesSoundly, Preparing, Locked, Unmatched, Seeded
<1>5. answers' \subseteq Inputs \X Ids /\ table' \in [Ids -> Inputs \union {NoInput}]
  BY <1>0, <1>1 DEF TypeOK
<1> QED BY <1>0, <1>2, <1>3, <1>4, <1>5, StepKeeps

LEMMA RepeatKeeps ==
  ASSUME CreateInv, NEW c \in Callers, Repeat(c)
  PROVE  CreateInv'
<1>0. /\ pc[c] \in Preparing /\ pc[c] = "repeat"
      /\ UNCHANGED <<table, answers, priors, clashes>>
  BY DEF Repeat, Preparing
<1>1. /\ TypeOK /\ input[c] \in Inputs /\ input[c].key \in Keys
      /\ mine[c] \in Ids /\ table[mine[c]] = NoInput
      /\ \A b \in Callers \ {c} : pc[b] \in Preparing => mine[b] # mine[c]
      /\ input[c].prior # NoPrior => priors[input[c].prior] = "over"
  BY <1>0, PreparingFacts
<1>2. answers' \subseteq Inputs \X Ids /\ table' \in [Ids -> Inputs \union {NoInput}]
  BY <1>0, <1>1 DEF TypeOK
<1>3. CASE WithKey(input[c].key) # {}
  <2>1. PICK id \in WithKey(input[c].key) :
          table[id] = input[c] /\ Take(c, "process", id)
    BY <1>3 DEF Repeat
  <2>2. id \in Ids /\ "process" \in Places
    BY DEF WithKey, Rows, Places
  <2>3. CallsTyped' /\ Others(c) /\ pc'[c] = "process"
        /\ input'[c] = input[c] /\ mine'[c] = id
    BY <1>1, <2>1, <2>2, TakeFacts
  <2>4. MovesSoundly(c)
    BY <1>0, <1>1, <2>1, <2>2, <2>3
       DEF MovesSoundly, Preparing, Locked, Unmatched, Seeded
  <2>5. /\ lock' \in [Keys -> Callers \union {NoCaller}]
        /\ \A k \in Keys : lock[k] # c => lock'[k] = lock[k]
    BY <1>1, <1>3, UnlockFacts DEF Repeat
  <2> QED BY <1>0, <1>2, <2>3, <2>4, <2>5, StepKeeps
<1>4. CASE WithKey(input[c].key) = {}
  <2>1. Goto(c, "insert") /\ UNCHANGED lock /\ "insert" \in Places
    BY <1>4 DEF Repeat, Places
  <2>2. CallsTyped' /\ Others(c) /\ pc'[c] = "insert"
        /\ input'[c] = input[c] /\ mine'[c] = mine[c]
    BY <1>1, <2>1, GotoFacts
  <2>3. \A id \in Ids : table[id] # NoInput => table[id].key # input[c].key
    BY <1>4 DEF WithKey, Rows
  <2>4. lock[input[c].key] = c
    BY <1>0 DEF CreateInv, LockSound, Locked
  <2>5. MovesSoundly(c)
    BY <1>0, <1>1, <2>1, <2>2, <2>3, <2>4
       DEF MovesSoundly, Preparing, Locked, Unmatched, Seeded
  <2> QED BY <1>0, <2>1, <2>2, <2>5, MoveKeeps
<1> QED BY <1>3, <1>4

LEMMA InsertKeeps ==
  ASSUME CreateInv, NEW c \in Callers, Insert(c)
  PROVE  CreateInv'
<1>0. /\ pc[c] \in Preparing /\ pc[c] = "insert"
      /\ "commit" \in Places /\ Goto(c, "commit")
      /\ UNCHANGED <<table, answers, priors, lock, clashes>>
  BY DEF Insert, Preparing, Places
<1>1. /\ TypeOK /\ input[c] \in Inputs /\ input[c].key \in Keys
      /\ mine[c] \in Ids /\ table[mine[c]] = NoInput
      /\ \A b \in Callers \ {c} : pc[b] \in Preparing => mine[b] # mine[c]
      /\ input[c].prior # NoPrior => priors[input[c].prior] = "over"
  BY <1>0, PreparingFacts
<1>2. CallsTyped' /\ Others(c) /\ pc'[c] = "commit"
      /\ input'[c] = input[c] /\ mine'[c] = mine[c]
  BY <1>0, <1>1, GotoFacts
<1>3. /\ \A id \in Ids : table[id] # NoInput =>
           table[id].key # input[c].key /\ table[id].ref # input[c].ref
      /\ \A b \in Callers \ {c} : pc[b] = "commit" => input[b].ref # input[c].ref
  BY DEF Insert, WithKey, WithRef, Rows, Pending
<1>4. lock[input[c].key] = c
  BY <1>0 DEF CreateInv, LockSound, Locked
<1>5. MovesSoundly(c)
  BY <1>0, <1>1, <1>2, <1>3, <1>4
     DEF MovesSoundly, Preparing, Locked, Unmatched, Seeded
<1> QED BY <1>0, <1>2, <1>5, MoveKeeps

\* The lookup under the lock makes the constraint on the key unreachable.
LEMMA InsertClashesKeeps ==
  ASSUME CreateInv, NEW c \in Callers, InsertClashes(c)
  PROVE  CreateInv'
<1>0. /\ pc[c] = "insert" /\ TypeOK /\ Leave(c) /\ Unlock(c)
      /\ UNCHANGED <<table, answers, priors>>
  BY DEF InsertClashes, CreateInv
<1>1. WithKey(input[c].key) = {}
  BY <1>0 DEF CreateInv, KeyFree, Unmatched, WithKey, Rows
<1>2. UNCHANGED clashes
  BY <1>1 DEF InsertClashes
<1>3. CallsTyped' /\ Others(c) /\ pc'[c] = "idle"
  BY <1>0, LeaveFacts
<1>4. MovesSoundly(c)
  BY <1>3 DEF MovesSoundly, Preparing, Locked, Unmatched, Seeded
<1>5. /\ lock' \in [Keys -> Callers \union {NoCaller}]
      /\ \A k \in Keys : lock[k] # c => lock'[k] = lock[k]
  BY <1>0, UnlockFacts
<1>6. answers' \subseteq Inputs \X Ids /\ table' \in [Ids -> Inputs \union {NoInput}]
  BY <1>0 DEF TypeOK
<1> QED BY <1>0, <1>2, <1>3, <1>4, <1>5, <1>6, StepKeeps

LEMMA CommitKeeps ==
  ASSUME CreateInv, NEW c \in Callers, Commit(c)
  PROVE  CreateInv'
<1>0. /\ pc[c] \in Preparing /\ pc[c] = "commit" /\ "process" \in Places
      /\ table' = [table EXCEPT ![mine[c]] = input[c]]
      /\ Goto(c, "process") /\ Unlock(c)
      /\ UNCHANGED <<answers, priors, clashes>>
  BY DEF Commit, Preparing, Places
<1>1. TypeOK /\ input[c] \in Inputs /\ mine[c] \in Ids
  BY <1>0, PreparingFacts
<1>2. CallsTyped' /\ Others(c) /\ pc'[c] = "process"
      /\ input'[c] = input[c] /\ mine'[c] = mine[c]
  BY <1>0, <1>1, GotoFacts
<1>3. /\ table' \in [Ids -> Inputs \union {NoInput}] /\ table'[mine[c]] = input[c]
      /\ \A id \in Ids : table'[id] # table[id] =>
           id = mine[c] /\ table'[id] = input[c]
      /\ answers' \subseteq Inputs \X Ids
  BY <1>0, <1>1 DEF TypeOK
<1>4. MovesSoundly(c)
  BY <1>1, <1>2, <1>3 DEF MovesSoundly, Preparing, Locked, Unmatched, Seeded
<1>5. /\ lock' \in [Keys -> Callers \union {NoCaller}]
      /\ \A k \in Keys : lock[k] # c => lock'[k] = lock[k]
  BY <1>0, <1>1, UnlockFacts
<1> QED BY <1>0, <1>2, <1>3, <1>4, <1>5, StepKeeps

LEMMA RespondKeeps ==
  ASSUME CreateInv, NEW c \in Callers, Respond(c)
  PROVE  CreateInv'
<1>0. /\ pc[c] = "process" /\ TypeOK /\ Leave(c)
      /\ answers' = answers \union {<<input[c], mine[c]>>}
      /\ UNCHANGED <<table, priors, lock, clashes>>
  BY DEF Respond, CreateInv
<1>1. input[c] \in Inputs /\ mine[c] \in Ids
  BY <1>0 DEF CreateInv, CallSound
<1>2. CallsTyped' /\ Others(c) /\ pc'[c] = "idle"
  BY <1>0, LeaveFacts
<1>3. MovesSoundly(c)
  BY <1>2 DEF MovesSoundly, Preparing, Locked, Unmatched, Seeded
<1>4. /\ answers' \subseteq Inputs \X Ids
      /\ table' \in [Ids -> Inputs \union {NoInput}]
      /\ lock' \in [Keys -> Callers \union {NoCaller}]
  BY <1>0, <1>1 DEF TypeOK
<1> QED BY <1>0, <1>2, <1>3, <1>4, StepKeeps

LEMMA RefuseKeeps ==
  ASSUME CreateInv, NEW c \in Callers, Refuse(c)
  PROVE  CreateInv'
<1>0. /\ TypeOK /\ Leave(c) /\ Unlock(c)
      /\ UNCHANGED <<table, answers, priors, clashes>>
  BY DEF Refuse, CreateInv
<1>1. CallsTyped' /\ Others(c) /\ pc'[c] = "idle"
  BY <1>0, LeaveFacts
<1>2. MovesSoundly(c)
  BY <1>1 DEF MovesSoundly, Preparing, Locked, Unmatched, Seeded
<1>3. /\ lock' \in [Keys -> Callers \union {NoCaller}]
      /\ \A k \in Keys : lock[k] # c => lock'[k] = lock[k]
  BY <1>0, UnlockFacts
<1>4. answers' \subseteq Inputs \X Ids /\ table' \in [Ids -> Inputs \union {NoInput}]
  BY <1>0 DEF TypeOK
<1> QED BY <1>0, <1>1, <1>2, <1>3, <1>4, StepKeeps

\* A request that is over stays so.
LEMMA PriorKeeps ==
  ASSUME CreateInv, NEW p \in Priors, PriorMoves(p)
  PROVE  CreateInv'
<1>1. /\ TypeOK /\ priors[p] # "over"
      /\ \E s \in PriorStates : priors' = [priors EXCEPT ![p] = s]
      /\ UNCHANGED <<table, answers, pc, input, mine, lock, clashes>>
  BY DEF PriorMoves, CreateInv
<1>2. TypeOK'
  BY <1>1 DEF TypeOK
<1>3. \A q : priors[q] = "over" => priors'[q] = "over"
  BY <1>1 DEF TypeOK
<1>4. CallSound' /\ OwnIds' /\ LockSound' /\ KeyFree' /\ RefFree' /\ NoClash'
  BY <1>1 DEF CreateInv, CallSound, OwnIds, LockSound, KeyFree, RefFree, NoClash
<1>5. SeedSound' /\ ReplacesFinished'
  BY <1>1, <1>3 DEF CreateInv, SeedSound, ReplacesFinished, Rows
<1> QED BY <1>2, <1>4, <1>5 DEF CreateInv

LEMMA NextCreateInv == CreateInv /\ [Next]_vars => CreateInv'
<1> SUFFICES ASSUME CreateInv, [Next]_vars PROVE CreateInv'
  OBVIOUS
<1>1. CASE UNCHANGED vars
  BY <1>1 DEF vars, CreateInv, TypeOK, CallSound, OwnIds, LockSound, KeyFree,
              RefFree, SeedSound, ReplacesFinished, Rows, NoClash
<1> QED BY <1>1, CallKeeps, LookupKeeps, SeedKeeps, PrepareKeeps, LockKeyKeeps,
           RepeatKeeps, InsertKeeps, InsertClashesKeeps, CommitKeeps, RespondKeeps,
           RefuseKeeps, PriorKeeps DEF Next, Step
-----------------------------------------------------------------------------
(***************************************************************************)
(* The theorems.                                                           *)
(***************************************************************************)
\* Two concurrent calls with one key never meet in the unique constraint.
THEOREM KeysNeverClash == Spec => []NoClash
<1>1. CreateInv => NoClash
  BY DEF CreateInv
<1> QED BY <1>1, InitCreateInv, NextCreateInv, PTL DEF Spec

\* A replacement exists only beside a request that is over.
THEOREM ReplacementsWait == Spec => []ReplacesFinished
<1>1. CreateInv => ReplacesFinished
  BY DEF CreateInv
<1> QED BY <1>1, InitCreateInv, NextCreateInv, PTL DEF Spec

\* A commit is the API's atomic create.
LEMMA CommitCreates ==
  ASSUME CreateInv, NEW c \in Callers, Commit(c)
  PROVE  \E id \in Ids, i \in Inputs : Promise!Create(id, i)
<1>1. /\ pc[c] = "commit" /\ pc[c] \in Preparing /\ pc[c] \in Unmatched
      /\ table' = [table EXCEPT ![mine[c]] = input[c]] /\ UNCHANGED answers
  BY DEF Commit, Preparing, Unmatched
<1>2. input[c] \in Inputs /\ mine[c] \in Ids /\ table[mine[c]] = NoInput
  BY <1>1, PreparingFacts
<1>3. \A id \in Ids : table[id] # NoInput =>
        table[id].key # input[c].key /\ table[id].ref # input[c].ref
  BY <1>1 DEF CreateInv, KeyFree, RefFree
<1>4. Promise!Create(mine[c], input[c])
  BY <1>1, <1>2, <1>3 DEF Promise!Create, Promise!Rows
<1> QED BY <1>2, <1>4

\* create() implements the promise: every commit is an atomic create, every
\* answer is of the stored request, and all other steps are invisible.
THEOREM CreateKeepsPromise == Spec => KeepsPromise
<1>1. Init => Promise!Init
  BY DEF Init, Promise!Init
<1>2. CreateInv /\ [Next]_vars => [Promise!Next]_<<table, answers>>
  <2> SUFFICES ASSUME CreateInv, [Next]_vars
               PROVE  [Promise!Next]_<<table, answers>>
    OBVIOUS
  <2>1. ASSUME NEW c \in Callers, Commit(c) PROVE Promise!Next
    BY <2>1, CommitCreates DEF Promise!Next
  <2>2. ASSUME NEW c \in Callers, Respond(c) PROVE Promise!Next
    <3>1. pc[c] = "process" /\ UNCHANGED table
          /\ answers' = answers \union {<<input[c], mine[c]>>}
      BY <2>2 DEF Respond
    <3>2. input[c] \in Inputs /\ mine[c] \in Ids /\ table[mine[c]] = input[c]
      BY <3>1 DEF CreateInv, CallSound
    <3>3. Promise!Answer(mine[c], input[c])
      BY <3>1, <3>2 DEF Promise!Answer
    <3> QED BY <3>2, <3>3 DEF Promise!Next
  <2>3. CASE UNCHANGED <<table, answers>>
    BY <2>3
  <2>4. \/ \E c \in Callers : Commit(c) \/ Respond(c)
        \/ UNCHANGED <<table, answers>>
    BY DEF Next, Step, Call, Lookup, Seed, Prepare, LockKey, Repeat, Insert,
           InsertClashes, Refuse, PriorMoves, vars
  <2> QED BY <2>1, <2>2, <2>3, <2>4
<1> QED BY <1>1, <1>2, InitCreateInv, NextCreateInv, PTL
        DEF Spec, KeepsPromise, Promise!Spec
=============================================================================
