--------------------------- MODULE RequestCreation ---------------------------
(***************************************************************************)
(* create(): callers send the same input again when they lost the answer,  *)
(* at any time, also while the first call still runs.  A replacement of an *)
(* earlier request is created only when that request is over.              *)
(***************************************************************************)
EXTENDS FiniteSets

CONSTANTS
  Callers,  \* concurrent calls, over all bridge processes
  Ids,      \* randomUUID()
  Keys,     \* client, agent and idempotency_key
  Refs,     \* external_reference
  Priors,   \* earlier requests that may be replaced
  NoPrior,
  NoInput,
  NoId,
  NoCaller

ASSUME NullAssumption ==
  NoPrior \notin Priors /\ NoId \notin Ids /\ NoCaller \notin Callers

\* createInput; request_hash is a digest of it, key included.
Inputs == [key : Keys, ref : Refs, prior : Priors \union {NoPrior}]

ASSUME NoInputAssumption == NoInput \notin Inputs

\* An earlier request: open, ended with delivery_state 'unknown', or over.
PriorStates == {"open", "uncertain", "over"}

Places == {"idle", "lookup", "seed", "prepare", "locking", "repeat", "insert",
           "commit", "process"}

VARIABLES
  table,    \* signing.requests
  answers,  \* <<input, id>> pairs that callers were given
  priors,   \* the earlier requests
  pc,       \* where each call stands
  input,    \* what it was called with
  mine,     \* the id it generated, later the id it answers
  lock,     \* pg_advisory_xact_lock on the key
  clashes   \* inputs refused by UNIQUE(..., idempotency_key)

vars == <<table, answers, priors, pc, input, mine, lock, clashes>>

TypeOK ==
  /\ table \in [Ids -> Inputs \union {NoInput}]
  /\ answers \subseteq Inputs \X Ids
  /\ priors \in [Priors -> PriorStates]
  /\ pc \in [Callers -> Places]
  /\ input \in [Callers -> Inputs \union {NoInput}]
  /\ mine \in [Callers -> Ids \union {NoId}]
  /\ lock \in [Keys -> Callers \union {NoCaller}]
  /\ clashes \subseteq Inputs

Init ==
  /\ table = [id \in Ids |-> NoInput]
  /\ answers = {}
  /\ priors = [p \in Priors |-> "open"]
  /\ pc = [c \in Callers |-> "idle"]
  /\ input = [c \in Callers |-> NoInput]
  /\ mine = [c \in Callers |-> NoId]
  /\ lock = [k \in Keys |-> NoCaller]
  /\ clashes = {}
-----------------------------------------------------------------------------
Rows == {id \in Ids : table[id] # NoInput}
WithKey(k) == {id \in Rows : table[id].key = k}
WithRef(r) == {id \in Rows : table[id].ref = r}

Goto(c, l) == pc' = [pc EXCEPT ![c] = l] /\ UNCHANGED <<input, mine>>

\* The call goes on with the request id.
Take(c, l, id) ==
  /\ pc' = [pc EXCEPT ![c] = l]
  /\ mine' = [mine EXCEPT ![c] = id]
  /\ UNCHANGED input

\* The call is over; so is its transaction, which held the lock.
Leave(c) ==
  /\ pc' = [pc EXCEPT ![c] = "idle"]
  /\ input' = [input EXCEPT ![c] = NoInput]
  /\ mine' = [mine EXCEPT ![c] = NoId]
Unlock(c) == lock' = [k \in Keys |-> IF lock[k] = c THEN NoCaller ELSE lock[k]]

\* A row another transaction inserted and has not committed yet.
Pending(c, b) == b # c /\ pc[b] = "commit"

Call(c, i) ==
  /\ pc[c] = "idle"
  /\ pc' = [pc EXCEPT ![c] = "lookup"]
  /\ input' = [input EXCEPT ![c] = i]
  /\ UNCHANGED <<table, answers, priors, mine, lock, clashes>>

\* The key is looked up first; another input under it is refused (Refuse).
Lookup(c) ==
  /\ pc[c] = "lookup"
  /\ IF WithKey(input[c].key) # {}
     THEN \E id \in WithKey(input[c].key) :
            table[id] = input[c] /\ Take(c, "process", id)
     ELSE Goto(c, IF input[c].prior = NoPrior THEN "prepare" ELSE "seed")
  /\ UNCHANGED <<table, answers, priors, lock, clashes>>

\* Mutant of Seed: delivery_state is not looked at.
SeedUncertain(c) ==
  /\ pc[c] = "seed" /\ priors[input[c].prior] \in {"uncertain", "over"}
  /\ Goto(c, "prepare")
  /\ UNCHANGED <<table, answers, priors, lock, clashes>>

\* reissueSeed(): every part discarded, or ended with a certain delivery.
Seed(c) ==
  /\ pc[c] = "seed" /\ priors[input[c].prior] = "over"
  /\ Goto(c, "prepare")
  /\ UNCHANGED <<table, answers, priors, lock, clashes>>

\* prepare() reads the package and its templates; the id is generated.
Prepare(c, id) ==
  /\ pc[c] = "prepare"
  /\ table[id] = NoInput /\ \A b \in Callers : mine[b] # id
  /\ Take(c, "locking", id)
  /\ UNCHANGED <<table, answers, priors, lock, clashes>>

\* Mutant of LockKey: the transaction does not lock the key.
LockNothing(c) ==
  /\ pc[c] = "locking"
  /\ Goto(c, "repeat")
  /\ UNCHANGED <<table, answers, priors, lock, clashes>>

\* BEGIN and pg_advisory_xact_lock, which waits.
LockKey(c) ==
  /\ pc[c] = "locking" /\ lock[input[c].key] = NoCaller
  /\ lock' = [lock EXCEPT ![input[c].key] = c]
  /\ Goto(c, "repeat")
  /\ UNCHANGED <<table, answers, priors, clashes>>

\* Mutant of Repeat: the caller's new id is returned, not the one stored.
RepeatOwn(c) ==
  /\ pc[c] = "repeat"
  /\ IF WithKey(input[c].key) # {}
     THEN /\ \E id \in WithKey(input[c].key) : table[id] = input[c]
          /\ Goto(c, "process") /\ Unlock(c)
     ELSE Goto(c, "insert") /\ UNCHANGED lock
  /\ UNCHANGED <<table, answers, priors, clashes>>

\* The same lookup again, under the lock.
Repeat(c) ==
  /\ pc[c] = "repeat"
  /\ IF WithKey(input[c].key) # {}
     THEN /\ \E id \in WithKey(input[c].key) :
               table[id] = input[c] /\ Take(c, "process", id)
          /\ Unlock(c)
     ELSE Goto(c, "insert") /\ UNCHANGED lock
  /\ UNCHANGED <<table, answers, priors, clashes>>

\* INSERT waits for uncommitted rows that clash, and then fails if they stayed.
Insert(c) ==
  /\ pc[c] = "insert"
  /\ \A b \in Callers : Pending(c, b) =>
       input[b].key # input[c].key /\ input[b].ref # input[c].ref
  /\ WithKey(input[c].key) = {} /\ WithRef(input[c].ref) = {}
  /\ Goto(c, "commit")
  /\ UNCHANGED <<table, answers, priors, lock, clashes>>

InsertClashes(c) ==
  /\ pc[c] = "insert"
  /\ WithKey(input[c].key) \union WithRef(input[c].ref) # {}
  /\ clashes' = IF WithKey(input[c].key) # {} THEN clashes \union {input[c]}
                                              ELSE clashes
  /\ Leave(c) /\ Unlock(c)
  /\ UNCHANGED <<table, answers, priors>>

Commit(c) ==
  /\ pc[c] = "commit"
  /\ table' = [table EXCEPT ![mine[c]] = input[c]]
  /\ Unlock(c)
  /\ Goto(c, "process")
  /\ UNCHANGED <<answers, priors, clashes>>

\* processRequest() and detail(), then the answer.
Respond(c) ==
  /\ pc[c] = "process"
  /\ answers' = answers \union {<<input[c], mine[c]>>}
  /\ Leave(c)
  /\ UNCHANGED <<table, priors, lock, clashes>>

\* The call throws (a refusal, REQUEST_BUSY, a failed read), its process dies, or
\* its answer is lost.  An open transaction is rolled back.
Refuse(c) ==
  /\ pc[c] # "idle"
  /\ Leave(c) /\ Unlock(c)
  /\ UNCHANGED <<table, answers, priors, clashes>>

\* The earlier request goes on; what is over stays over.
PriorMoves(p) ==
  /\ priors[p] # "over"
  /\ \E s \in PriorStates \ {"open"} : priors' = [priors EXCEPT ![p] = s]
  /\ UNCHANGED <<table, answers, pc, input, mine, lock, clashes>>

Step(c) ==
  \/ Lookup(c) \/ Seed(c) \/ LockKey(c) \/ Repeat(c) \/ Insert(c)
  \/ InsertClashes(c) \/ Commit(c) \/ Respond(c) \/ Refuse(c)
  \/ \E id \in Ids : Prepare(c, id)

Next ==
  \/ \E c \in Callers : Step(c) \/ \E i \in Inputs : Call(c, i)
  \/ \E p \in Priors : PriorMoves(p)

Spec == Init /\ [][Next]_vars
-----------------------------------------------------------------------------
\* create() does what the API promises: one row per key and per reference, and
\* answers only of committed requests of the caller's own input.
Promise == INSTANCE IdempotentCreate WITH table <- table, answers <- answers
KeepsPromise == Promise!Spec

\* Two concurrent calls with one key never meet in UNIQUE(client_id,
\* owner_agent_id, idempotency_key): the second finds the first one's request.
NoClash == clashes = {}

\* A replacement exists only beside a request that is over, and so it stays,
\* though the check was made long before the insert.
ReplacesFinished ==
  \A id \in Rows : table[id].prior # NoPrior => priors[table[id].prior] = "over"
=============================================================================
