------------------------ MODULE ReconcileQueueProofs ------------------------
(***************************************************************************)
(* What holds of the turns in reconcile() for any requests, parts, limits, *)
(* delays, disturbances and numbers of requests that fail.                 *)
(***************************************************************************)
EXTENDS ReconcileQueue, FiniteSetTheorems, TLAPS

\* A waiting request is due longer than whatever had a turn meanwhile.
Overtakers ==
  \A r \in Requests : \A s \in overtook[r] :
    \E p \in DueParts(r) : \A q \in PartsOf(s) : parts[p].next < parts[q].next

StillWaiting == \A r \in Requests : overtook[r] # {} => Waiting(r)

QueueInv == TypeOK /\ StillWaiting /\ Overtakers
-----------------------------------------------------------------------------
LEMMA DelayPositive == \A n \in 0..MaxExponent : Delay(n) \in Nat \ {0}
  BY LimitAssumption, DoublingAssumption DEF Delay, Least

LEMMA LeastType ==
  ASSUME NEW n \in Nat, NEW m \in 0..n
  PROVE  Least(m + 1, n) \in 0..n /\ (m = n => Least(m + 1, n) = n)
  BY DEF Least

LEMMA Limits == MaxExponent \in Nat /\ FreshFor \in Nat /\ MaxMoves \in Nat
  BY LimitAssumption

\* Time keeps the order of what is due, and what is due stays due.
LEMMA LaterOrder ==
  ASSUME NEW all, IsFiniteSet(all), all \subseteq Int, NEW a \in all, NEW b \in all
  PROVE  /\ Later(a, all) \in Int
         /\ a <= 0 => Later(a, all) <= 0
         /\ a <= 0 /\ a < b => Later(a, all) < Later(b, all)
  <1> DEFINE A(x) == {n \in all : x < n /\ n <= 1}
  <1>1. IsFiniteSet(A(a)) /\ IsFiniteSet(A(b))
    BY FS_Subset
  <1>2. Cardinality(A(a)) \in Nat /\ Cardinality(A(b)) \in Nat
    BY <1>1, FS_CardinalityType
  <1>3. ASSUME a < b, b <= 1 PROVE Cardinality(A(b)) < Cardinality(A(a))
    <2>1. A(b) \subseteq A(a)
      <3> SUFFICES ASSUME NEW n \in A(b) PROVE n \in A(a)
        OBVIOUS
      <3>1. n \in Int /\ a \in Int /\ b \in Int /\ n \in all /\ b < n /\ n <= 1
        OBVIOUS
      <3>2. a < n
        BY <1>3, <3>1
      <3> QED BY <3>1, <3>2
    <2>2. b \in A(a) /\ b \notin A(b)
      BY <1>3
    <2>3. Cardinality(A(b)) <= Cardinality(A(a)) /\ Cardinality(A(b)) # Cardinality(A(a))
      BY <1>1, <2>1, <2>2, FS_Subset
    <2> QED BY <1>2, <2>3
  <1> HIDE DEF A
  <1>4. /\ Later(a, all) = IF a > 1 THEN a - 1 ELSE -Cardinality(A(a))
        /\ Later(b, all) = IF b > 1 THEN b - 1 ELSE -Cardinality(A(b))
    BY DEF Later, A
  <1> QED BY <1>2, <1>3, <1>4

LEMMA InitQueueInv == Init => QueueInv
  <1> SUFFICES ASSUME Init PROVE QueueInv
    OBVIOUS
  <1>1. Idle \in Pass
    BY DEF Idle, Pass
  <1>2. TypeOK
    BY <1>1, LimitAssumption DEF Init, TypeOK, Part, Event, Statuses
  <1>3. StillWaiting /\ Overtakers
    BY DEF Init, StillWaiting, Overtakers
  <1> QED BY <1>2, <1>3 DEF QueueInv

\* Turns() keeps the history's type, and that only waiting requests have one.
LEMMA TurnsKeep ==
  ASSUME QueueInv, NEW served, NEW taken \in SUBSET Requests, Turns(served, taken)
  PROVE  /\ overtook' \in [Requests -> SUBSET Requests]
         /\ StillWaiting'
         /\ \A r \in Requests : overtook'[r] # {} => r \notin served /\ Waiting(r)'
         /\ \A r \in Requests : overtook'[r] \subseteq overtook[r] \union taken
  BY DEF Turns, QueueInv, TypeOK, StillWaiting

\* A step that moves no turn keeps the order of all that waits and is not served.
LEMMA NobodyTaken ==
  ASSUME QueueInv, NEW served, Turns(served, {}),
         \A p \in Parts : parts'[p].next = parts[p].next,
         \A p \in Parts : RequestOf[p] \notin served => parts'[p] = parts[p]
  PROVE  /\ overtook' \in [Requests -> SUBSET Requests]
         /\ StillWaiting' /\ Overtakers'
  <1>1. /\ overtook' \in [Requests -> SUBSET Requests] /\ StillWaiting'
        /\ \A r \in Requests : overtook'[r] # {} => r \notin served
        /\ \A r \in Requests : overtook'[r] \subseteq overtook[r]
    BY TurnsKeep
  <1>2. ASSUME NEW r \in Requests, NEW s \in overtook'[r]
        PROVE  (\E p \in DueParts(r) : \A q \in PartsOf(s) : parts[p].next < parts[q].next)'
    <2>1. PICK p \in DueParts(r) : \A q \in PartsOf(s) : parts[p].next < parts[q].next
      BY <1>1, <1>2 DEF QueueInv, Overtakers
    <2>2. p \in DueParts(r)'
      BY <1>1, <1>2, <2>1 DEF DueParts, PartsOf
    <2>3. \A q \in PartsOf(s) : parts'[p].next < parts'[q].next
      BY <2>1 DEF DueParts, PartsOf
    <2> QED BY <2>2, <2>3 DEF PartsOf
  <1> QED BY <1>1, <1>2 DEF Overtakers

\* The steps that change rows of parts only as Results() or a discard would.
LEMMA ResultType ==
  ASSUME TypeOK, NEW p \in Parts, NEW q,
         \/ q \in Results(p) \/ q \in Syncs(p) \/ q = Errored(p)
         \/ q = [parts[p] EXCEPT !.status = "discarded", !.error = FALSE]
  PROVE  q \in Part /\ q.next = parts[p].next
  <1>1. parts[p] \in Part
    BY DEF TypeOK
  <1>2. \A s \in Statuses, e \in BOOLEAN, n \in 0..FreshFor :
          LET x == [parts[p] EXCEPT !.status = s, !.error = e, !.age = n]
          IN  x \in Part /\ x.next = parts[p].next
    BY <1>1 DEF Part
  <1>3. ASSUME q \in Syncs(p) PROVE q \in Part /\ q.next = parts[p].next
    <2>1. PICK s \in Statuses, e \in BOOLEAN :
            q = [parts[p] EXCEPT !.status = s, !.error = e, !.age = 0]
      BY <1>3 DEF Syncs, Statuses
    <2>2. 0 \in 0..FreshFor
      BY LimitAssumption
    <2>3. q \in Part
      BY <1>2, <2>1, <2>2
    <2>4. q.next = parts[p].next
      BY <1>1, <2>1 DEF Part
    <2> QED BY <2>3, <2>4
  <1>4. ASSUME q \in Results(p) \ Syncs(p)
        PROVE  q = parts[p] \/ q = Errored(p) \/ q = Refused(p)
    BY <1>4 DEF Results
  <1>5. /\ Errored(p) \in Part /\ Errored(p).next = parts[p].next
        /\ Refused(p) \in Part /\ Refused(p).next = parts[p].next
    BY <1>1 DEF Errored, Refused, Part, Statuses
  <1>6. LET x == [parts[p] EXCEPT !.status = "discarded", !.error = FALSE]
        IN  x \in Part /\ x.next = parts[p].next
    BY <1>1 DEF Part, Statuses
  <1> QED BY <1>1, <1>3, <1>4, <1>5, <1>6

LEMMA OnePart ==
  ASSUME QueueInv, NEW p \in Parts, NEW q, parts' = [parts EXCEPT ![p] = q],
         \/ q \in Results(p) \/ q \in Syncs(p)
         \/ q = [parts[p] EXCEPT !.status = "discarded", !.error = FALSE]
  PROVE  /\ parts' \in [Parts -> Part]
         /\ \A o \in Parts : parts'[o].next = parts[o].next
         /\ \A o \in Parts \ {p} : parts'[o] = parts[o]
  BY ResultType DEF QueueInv, TypeOK
-----------------------------------------------------------------------------
LEMMA StartStep ==
  ASSUME QueueInv, Start \/ Select \/ Lease \/ Abandon
  PROVE  QueueInv'
  <1>1. parts' = parts /\ Turns({}, {})
    BY DEF Start, Select, Lease, Abandon
  <1>2. pass' \in Pass
    <2>1. CASE Start
      <3>1. PICK b \in SUBSET Events : pass' = [Idle EXCEPT !.at = "inbox", !.rows = b]
        BY <2>1 DEF Start
      <3> QED BY <3>1 DEF Pass, Idle
    <2>4. CASE Abandon
      BY <2>4 DEF Abandon, Pass, Idle
    <2>2. CASE Select
      <3>1. pass \in Pass
        BY DEF QueueInv, TypeOK
      <3>2. PICK b \in SUBSET Requests : pass' = [pass EXCEPT !.at = "requests", !.batch = b]
        BY <2>2 DEF Select
      <3> QED BY <3>1, <3>2 DEF Pass
    <2>3. CASE Lease
      <3>1. pass \in Pass /\ PartsOf(pass.request) \subseteq Parts
        BY DEF QueueInv, TypeOK, PartsOf
      <3> QED BY <2>3, <3>1 DEF Lease, Pass
    <2> QED BY <2>1, <2>2, <2>3, <2>4
  <1>3. /\ inbox' = inbox /\ connection' = connection /\ busy' = busy
        /\ moves' \in 0..MaxMoves
    BY LimitAssumption DEF Start, Select, Lease, Abandon, QueueInv, TypeOK
  <1> QED BY <1>1, <1>2, <1>3, NobodyTaken DEF QueueInv, TypeOK

LEMMA TakeEventStep ==
  ASSUME QueueInv, NEW w \in Events, TakeEvent(w)
  PROVE  QueueInv'
  <1> DEFINE p == PartOf[w]
             r == RequestOf[p]
  <1>1. p \in Parts /\ r \in Requests
    BY QueueAssumption
  <1>2. Turns({r}, {}) /\ UNCHANGED <<connection, busy, moves>>
    BY DEF TakeEvent
  <1>3. /\ parts' \in [Parts -> Part]
        /\ \A o \in Parts : parts'[o].next = parts[o].next
        /\ \A o \in Parts \ {p} : parts'[o] = parts[o]
    <2>1. CASE parts' = parts
      BY <2>1 DEF QueueInv, TypeOK
    <2>2. CASE \E q \in Syncs(p) : parts' = [parts EXCEPT ![p] = q]
      BY <1>1, <2>2, OnePart
    <2> QED BY <2>1, <2>2 DEF TakeEvent
  <1>4. inbox' \in [Events -> Event]
    <2>1. inbox \in [Events -> Event] /\ inbox[w] \in Event
      BY DEF QueueInv, TypeOK
    <2>2. Deferred(w) \in Event
      <3>1. Delay(inbox[w].attempts) \in Int
        BY <2>1, DelayPositive DEF Event
      <3>2. Least(inbox[w].attempts + 1, MaxExponent) \in 0..MaxExponent
        BY <2>1, LeastType, Limits DEF Event
      <3> QED BY <2>1, <3>1, <3>2 DEF Deferred, Event
    <2> QED BY <2>1, <2>2 DEF TakeEvent, Event
  <1>5. pass' \in Pass
    BY DEF TakeEvent, QueueInv, TypeOK, Pass
  <1>6. overtook' \in [Requests -> SUBSET Requests] /\ StillWaiting' /\ Overtakers'
    BY <1>1, <1>2, <1>3, NobodyTaken
  <1> QED BY <1>2, <1>3, <1>4, <1>5, <1>6 DEF QueueInv, TypeOK

LEMMA TakeStep ==
  ASSUME QueueInv, NEW x \in Requests, Take(x)
  PROVE  QueueInv'
  <1>1. /\ Turns({x}, {x}) /\ UNCHANGED <<inbox, connection, busy, moves>>
        /\ pass' \in Pass
    BY DEF Take, QueueInv, TypeOK, Pass
  <1>2. \A p \in Parts :
          /\ parts'[p] \in Part
          /\ RequestOf[p] # x => parts'[p] = parts[p]
          /\ RequestOf[p] = x => parts'[p].next > 0
    <2> SUFFICES ASSUME NEW p \in Parts
                 PROVE  /\ parts'[p] \in Part
                        /\ RequestOf[p] # x => parts'[p] = parts[p]
                        /\ RequestOf[p] = x => parts'[p].next > 0
      OBVIOUS
    <2>1. parts[p] \in Part
      BY DEF QueueInv, TypeOK
    <2>2. Delay(parts[p].attempts) \in Nat \ {0}
      BY <2>1, DelayPositive DEF Part
    <2>3. Least(parts[p].attempts + 1, MaxExponent) \in 0..MaxExponent
      BY <2>1, LeastType, Limits DEF Part
    <2> DEFINE n == Least(parts[p].attempts + 1, MaxExponent)
               d == Delay(parts[p].attempts)
    <2>4. CASE RequestOf[p] = x
      <3>1. parts'[p] = [parts[p] EXCEPT !.attempts = n, !.next = d]
        BY <2>4 DEF Take
      <3>2. d \in Int /\ d > 0
        BY <2>2
      <3> HIDE DEF n, d
      <3>3. n \in 0..MaxExponent
        BY <2>3 DEF n
      <3>4. parts'[p] \in Part /\ parts'[p].next = d
        BY <2>1, <3>1, <3>2, <3>3 DEF Part
      <3> QED BY <2>4, <3>2, <3>4
    <2>5. CASE RequestOf[p] # x
      BY <2>1, <2>5 DEF Take
    <2> QED BY <2>4, <2>5
  <1>3. parts' \in [Parts -> Part]
    BY <1>2 DEF Take
  <1>4. /\ overtook' \in [Requests -> SUBSET Requests] /\ StillWaiting'
        /\ \A r \in Requests : overtook'[r] # {} => r # x /\ Waiting(r)'
        /\ \A r \in Requests : overtook'[r] \subseteq overtook[r] \union {x}
    BY <1>1, TurnsKeep
  <1>5. ASSUME NEW r \in Requests, NEW s \in overtook'[r]
        PROVE  (\E p \in DueParts(r) : \A q \in PartsOf(s) : parts[p].next < parts[q].next)'
    <2>1. r # x /\ DueParts(r)' # {}
      BY <1>4, <1>5 DEF Waiting
    <2>2. \A p \in DueParts(r)' :
            p \in Parts /\ RequestOf[p] = r /\ parts'[p].next <= 0 /\ parts'[p] = parts[p]
      BY <1>2, <2>1 DEF DueParts, PartsOf
    <2>3. CASE s = x
      BY <1>2, <1>3, <2>1, <2>2, <2>3 DEF PartsOf, Part
    <2>4. CASE s # x
      <3>1. PICK p \in DueParts(r) : \A q \in PartsOf(s) : parts[p].next < parts[q].next
        BY <1>4, <1>5, <2>4 DEF QueueInv, Overtakers
      <3>2. p \in DueParts(r)' /\ parts'[p] = parts[p]
        BY <1>2, <2>1, <3>1 DEF DueParts, PartsOf
      <3>3. \A q \in PartsOf(s) : parts'[q] = parts[q]
        BY <1>2, <2>4 DEF PartsOf
      <3> QED BY <3>1, <3>2, <3>3 DEF PartsOf
    <2> QED BY <2>3, <2>4
  <1> QED BY <1>1, <1>3, <1>4, <1>5 DEF QueueInv, TypeOK, Overtakers

LEMMA ProcessStep ==
  ASSUME QueueInv, NEW p \in Parts, Process(p)
  PROVE  QueueInv'
  <1>1. pass' \in Pass
    BY DEF Process, QueueInv, TypeOK, Pass
  <1>2. /\ parts' \in [Parts -> Part]
        /\ \A o \in Parts : parts'[o].next = parts[o].next
        /\ \A o \in Parts \ {p} : parts'[o] = parts[o]
    BY OnePart DEF Process
  <1>3. Turns({RequestOf[p]}, {}) /\ UNCHANGED <<inbox, connection, busy, moves>>
    BY DEF Process
  <1>4. overtook' \in [Requests -> SUBSET Requests] /\ StillWaiting' /\ Overtakers'
    BY <1>2, <1>3, NobodyTaken
  <1> QED BY <1>1, <1>2, <1>3, <1>4 DEF QueueInv, TypeOK

LEMMA QueryFailsStep ==
  ASSUME QueueInv, QueryFails
  PROVE  QueueInv'
  <1>1. pass' \in Pass /\ moves' \in 0..MaxMoves
    <2>1. pass \in Pass /\ moves \in 0..MaxMoves
      BY DEF QueueInv, TypeOK
    <2>2. pass' \in Pass
      BY <2>1 DEF QueryFails, Pass
    <2>3. moves' \in 0..MaxMoves
      BY <2>1, Limits DEF QueryFails
    <2> QED BY <2>2, <2>3
  <1>2. ASSUME NEW p \in Parts
        PROVE  /\ parts'[p] \in Part /\ parts'[p].next = parts[p].next
               /\ RequestOf[p] \notin {pass.request} => parts'[p] = parts[p]
    <2>1. parts'[p] \in {parts[p], Errored(p)} /\ parts[p] \in Part
      BY DEF QueryFails, QueueInv, TypeOK
    <2>2. Errored(p) \in Part /\ Errored(p).next = parts[p].next
      BY ResultType DEF QueueInv
    <2> QED BY <2>1, <2>2 DEF QueryFails
  <1>3. parts' \in [Parts -> Part]
    BY <1>2 DEF QueryFails
  <1>4. Turns({pass.request}, {}) /\ UNCHANGED <<inbox, connection, busy>>
    BY DEF QueryFails
  <1>5. overtook' \in [Requests -> SUBSET Requests] /\ StillWaiting' /\ Overtakers'
    BY <1>2, <1>4, NobodyTaken
  <1> QED BY <1>1, <1>3, <1>4, <1>5 DEF QueueInv, TypeOK

\* The reset reaches only parts that are not due, and puts them behind.
LEMMA FinishStep ==
  ASSUME QueueInv, Finish
  PROVE  QueueInv'
  <1>1. /\ Turns({}, {}) /\ UNCHANGED <<inbox, connection, busy, moves>>
        /\ pass' \in Pass
    BY DEF Finish, Idle, Pass
  <1>2. ASSUME NEW p \in Parts
        PROVE  /\ parts'[p] \in Part
               /\ parts[p].age = FreshFor => parts'[p] = parts[p]
               /\ parts'[p].next = parts[p].next \/ parts'[p].next > 0
               /\ parts'[p].age = parts[p].age
    <2>1. parts[p] \in Part /\ 0 \in 0..MaxExponent
      BY LimitAssumption DEF QueueInv, TypeOK
    <2>2. CASE parts[p].attempts > 0 /\ ~parts[p].error /\ parts[p].age < FreshFor
      <3>1. parts'[p] = [parts[p] EXCEPT !.attempts = 0, !.next = FreshFor - parts[p].age]
        BY <2>2 DEF Finish
      <3>2. FreshFor - parts[p].age \in Int /\ FreshFor - parts[p].age > 0
               /\ parts[p].age # FreshFor
        BY <2>1, <2>2, LimitAssumption DEF Part
      <3> QED BY <2>1, <3>1, <3>2 DEF Part
    <2>3. CASE ~(parts[p].attempts > 0 /\ ~parts[p].error /\ parts[p].age < FreshFor)
      BY <2>1, <2>3 DEF Finish
    <2> QED BY <2>2, <2>3
  <1>3. parts' \in [Parts -> Part]
    BY <1>2 DEF Finish
  <1>4. /\ overtook' \in [Requests -> SUBSET Requests] /\ StillWaiting'
        /\ \A r \in Requests : overtook'[r] \subseteq overtook[r]
    BY <1>1, TurnsKeep
  <1>5. ASSUME NEW r \in Requests, NEW s \in overtook'[r]
        PROVE  (\E p \in DueParts(r) : \A q \in PartsOf(s) : parts[p].next < parts[q].next)'
    <2>1. PICK p \in DueParts(r) : \A q \in PartsOf(s) : parts[p].next < parts[q].next
      BY <1>4, <1>5 DEF QueueInv, Overtakers
    <2>2. p \in Parts /\ parts'[p] = parts[p] /\ p \in DueParts(r)' /\ parts[p].next <= 0
      BY <1>2, <2>1 DEF DueParts, PartsOf
    <2>3. \A q \in PartsOf(s) : parts'[p].next < parts'[q].next
      <3> SUFFICES ASSUME NEW q \in PartsOf(s) PROVE parts'[p].next < parts'[q].next
        OBVIOUS
      <3>1. q \in Parts /\ parts[p].next \in Int /\ parts'[q].next \in Int
        BY <1>3, <2>2 DEF PartsOf, QueueInv, TypeOK, Part
      <3> QED BY <1>2, <2>1, <2>2, <3>1
    <2> QED BY <2>2, <2>3 DEF PartsOf
  <1> QED BY <1>1, <1>3, <1>4, <1>5 DEF QueueInv, TypeOK, Overtakers
-----------------------------------------------------------------------------
LEMMA OutsideStep ==
  ASSUME QueueInv,
         \/ \E r \in Requests : Call(r)
         \/ \E k \in Connections :
                 registerConnection(k) \/ rotateConnection(k) \/ revokeConnection(k)
  PROVE  QueueInv'
  <1>1. UNCHANGED <<parts, inbox, pass>> /\ Turns({}, {})
    BY DEF Call, Activate, registerConnection, rotateConnection, revokeConnection
  <1>2. /\ busy' \subseteq Requests /\ moves' \in 0..MaxMoves
        /\ connection' \in [Connections -> {"none", "active", "revoked"}]
    BY LimitAssumption DEF Call, Activate, registerConnection, rotateConnection,
                            revokeConnection, QueueInv, TypeOK
  <1>3. overtook' \in [Requests -> SUBSET Requests] /\ StillWaiting' /\ Overtakers'
    BY <1>1, NobodyTaken
  <1> QED BY <1>1, <1>2, <1>3 DEF QueueInv, TypeOK

LEMMA ReturnStep ==
  ASSUME QueueInv, NEW r \in Requests, Return(r)
  PROVE  QueueInv'
  <1>1. Turns({r}, {}) /\ UNCHANGED <<inbox, connection, pass, moves>> /\ busy' \subseteq Requests
    BY DEF Return, QueueInv, TypeOK
  <1>2. /\ parts' \in [Parts -> Part]
        /\ \A o \in Parts : parts'[o].next = parts[o].next
        /\ \A o \in Parts : RequestOf[o] \notin {r} => parts'[o] = parts[o]
    <2>1. CASE parts' = parts
      BY <2>1 DEF QueueInv, TypeOK
    <2>2. CASE \E p \in PartsOf(r), q \in UNION {Results(o) : o \in PartsOf(r)} :
                 q \in Results(p) /\ parts' = [parts EXCEPT ![p] = q]
      BY <2>2, OnePart DEF PartsOf
    <2>3. CASE \E p \in PartsOf(r) :
                 parts' = [parts EXCEPT ![p].status = "discarded", ![p].error = FALSE]
      <3>1. PICK p \in PartsOf(r) :
              parts' = [parts EXCEPT ![p].status = "discarded", ![p].error = FALSE]
        BY <2>3
      <3>2. parts' = [parts EXCEPT ![p] = [parts[p] EXCEPT !.status = "discarded", !.error = FALSE]]
        BY <3>1 DEF PartsOf, QueueInv, TypeOK, Part
      <3> QED BY <3>1, <3>2, OnePart DEF PartsOf
    <2> QED BY <2>1, <2>2, <2>3 DEF Return
  <1>3. overtook' \in [Requests -> SUBSET Requests] /\ StillWaiting' /\ Overtakers'
    BY <1>1, <1>2, NobodyTaken
  <1> QED BY <1>1, <1>2, <1>3 DEF QueueInv, TypeOK

LEMMA TickStep ==
  ASSUME QueueInv, Tick
  PROVE  QueueInv'
  <1> DEFINE nexts == {parts[q].next : q \in Parts}
             dates == {inbox[v].next : v \in Events}
  <1>1. IsFiniteSet(nexts) /\ nexts \subseteq Int
    <2> DEFINE f == [q \in Parts |-> parts[q].next]
    <2>1. f \in Surjection(Parts, nexts)
      BY DEF Surjection
    <2> QED BY <2>1, FS_Surjection, QueueAssumption DEF QueueInv, TypeOK, Part
  <1>2. IsFiniteSet(dates) /\ dates \subseteq Int
    <2> DEFINE f == [v \in Events |-> inbox[v].next]
    <2>1. f \in Surjection(Events, dates)
      BY DEF Surjection
    <2> QED BY <2>1, FS_Surjection, QueueAssumption DEF QueueInv, TypeOK, Event
  <1>3. ASSUME NEW p \in Parts
        PROVE  /\ parts'[p] = [parts[p] EXCEPT !.age = Least(parts[p].age + 1, FreshFor),
                                               !.next = Later(parts[p].next, nexts)]
               /\ parts[p] \in Part /\ parts[p].next \in nexts
               /\ Later(parts[p].next, nexts) \in Int
               /\ Least(parts[p].age + 1, FreshFor) \in 0..FreshFor
    <2>1. parts[p] \in Part /\ parts[p].next \in nexts
      BY DEF QueueInv, TypeOK
    <2>2. Later(parts[p].next, nexts) \in Int
      BY <1>1, <2>1, LaterOrder
    <2>3. Least(parts[p].age + 1, FreshFor) \in 0..FreshFor
      BY <2>1, LeastType, Limits DEF Part
    <2> QED BY <2>1, <2>2, <2>3 DEF Tick
  <1>4. parts' \in [Parts -> Part]
    BY <1>3 DEF Tick, Part
  <1>5. inbox' \in [Events -> Event]
    <2>1. ASSUME NEW w \in Events PROVE Later(inbox[w].next, dates) \in Int
      BY <1>2, LaterOrder
    <2> QED BY <2>1 DEF Tick, QueueInv, TypeOK, Event
  <1>6. Turns({}, {}) /\ UNCHANGED <<connection, pass, busy, moves>>
    BY DEF Tick
  <1>7. /\ overtook' \in [Requests -> SUBSET Requests] /\ StillWaiting'
        /\ \A r \in Requests : overtook'[r] \subseteq overtook[r]
    BY <1>6, TurnsKeep
  <1> HIDE DEF nexts
  <1>8. ASSUME NEW r \in Requests, NEW s \in overtook'[r]
        PROVE  (\E p \in DueParts(r) : \A q \in PartsOf(s) : parts[p].next < parts[q].next)'
    <2>1. PICK p \in DueParts(r) : \A q \in PartsOf(s) : parts[p].next < parts[q].next
      BY <1>7, <1>8 DEF QueueInv, Overtakers
    <2>2. p \in Parts /\ parts[p].next <= 0 /\ parts[p].age = FreshFor
      BY <2>1 DEF DueParts, PartsOf
    <2>3. parts'[p].next = Later(parts[p].next, nexts) /\ parts'[p].next <= 0
      <3>1. parts'[p].next = Later(parts[p].next, nexts)
        BY <1>3, <2>2 DEF Part
      <3>2. parts[p].next \in nexts
        BY <1>3, <2>2
      <3>3. Later(parts[p].next, nexts) <= 0
        BY <1>1, <2>2, <3>2, LaterOrder
      <3> QED BY <3>1, <3>3
    <2>4. /\ parts'[p].status = parts[p].status /\ parts'[p].error = parts[p].error
          /\ parts'[p].age = FreshFor
      <3>1. FreshFor \in 0..FreshFor /\ Least(FreshFor + 1, FreshFor) = FreshFor
        BY LeastType, Limits
      <3> QED BY <1>3, <2>2, <3>1 DEF Part
    <2>5. p \in DueParts(r)'
      BY <2>1, <2>3, <2>4 DEF DueParts, PartsOf
    <2>6. ASSUME NEW q \in PartsOf(s) PROVE parts'[p].next < parts'[q].next
      <3>1. q \in Parts /\ parts[p].next < parts[q].next
        BY <2>1 DEF PartsOf
      <3>2. parts'[q].next = Later(parts[q].next, nexts)
        BY <1>3, <3>1 DEF Part
      <3>3. Later(parts[p].next, nexts) < Later(parts[q].next, nexts)
        BY <1>1, <1>3, <2>2, <3>1, LaterOrder
      <3> QED BY <2>3, <3>2, <3>3
    <2> QED BY <2>5, <2>6 DEF PartsOf
  <1> QED BY <1>4, <1>5, <1>6, <1>7, <1>8 DEF QueueInv, TypeOK, Overtakers
-----------------------------------------------------------------------------
LEMMA NextQueueInv == QueueInv /\ [Next]_vars => QueueInv'
  <1> SUFFICES ASSUME QueueInv, [Next]_vars PROVE QueueInv'
    OBVIOUS
  <1>1. CASE UNCHANGED vars
    BY <1>1 DEF vars, QueueInv, TypeOK, StillWaiting, Waiting, Active, Overtakers, DueParts, PartsOf
  <1>2. CASE Step
    BY <1>2, StartStep, TakeEventStep, TakeStep, ProcessStep, FinishStep DEF Step
  <1>3. CASE Next /\ ~Step
    BY <1>3, StartStep, QueryFailsStep, TickStep, OutsideStep, ReturnStep DEF Next
  <1> QED BY <1>1, <1>2, <1>3

LEMMA QueueInvariant == Spec => []QueueInv
  BY InitQueueInv, NextQueueInv, PTL DEF Spec

\* Every row, the pass and the history keep their types.
THEOREM QueueTyped == Spec => []TypeOK
  <1>1. QueueInv => TypeOK
    BY DEF QueueInv
  <1> QED BY <1>1, QueueInvariant, PTL

\* Who waits and was overtaken comes first in ORDER BY MIN(next_reconcile_at).
LEMMA OvertakenFirst ==
  ASSUME QueueInv, Select, NEW r \in Requests, NEW s \in pass'.batch, s \in overtook[r]
  PROVE  r \in pass'.batch
  <1> DEFINE due == {x \in Requests : Waiting(x)}
             Ahead(x) == {y \in due : Before(y, x)}
  <1>1. /\ pass'.batch = {x \in due : Cardinality(Ahead(x)) < BatchLimit}
        /\ r \in due /\ s \in due
    <2>1. pass \in Pass
      BY DEF QueueInv, TypeOK
    <2>2. pass'.batch = {x \in due : Cardinality(Ahead(x)) < BatchLimit}
      BY <2>1 DEF Select, Pass
    <2> QED BY <2>2 DEF QueueInv, StillWaiting
  <1>2. \A p \in Parts : parts[p].next \in Int
    BY DEF QueueInv, TypeOK, Part
  <1>3. PICK p \in DueParts(r) : \A q \in DueParts(s) : parts[p].next < parts[q].next
    BY DEF QueueInv, Overtakers, DueParts
  <1>4. \A x \in Requests : DueParts(x) \subseteq Parts
    BY DEF DueParts, PartsOf
  <1>5. Before(r, s) /\ ~Before(r, r)
    BY <1>1, <1>2, <1>3, <1>4, QueueAssumption DEF Before
  <1>6. ASSUME NEW y \in due, Before(y, r) PROVE Before(y, s)
    <2>1. PICK o \in DueParts(y) : \A q \in DueParts(r) : parts[o].next <= parts[q].next
      BY <1>2, <1>4, <1>6 DEF Before
    <2>2. \A q \in DueParts(s) : parts[o].next < parts[q].next
      <3> SUFFICES ASSUME NEW q \in DueParts(s) PROVE parts[o].next < parts[q].next
        OBVIOUS
      <3>1. parts[o].next \in Int /\ parts[p].next \in Int /\ parts[q].next \in Int
        BY <1>1, <1>2, <1>4
      <3>2. parts[o].next <= parts[p].next /\ parts[p].next < parts[q].next
        BY <1>3, <2>1
      <3> QED BY <3>1, <3>2
    <2> QED BY <2>2 DEF Before
  <1>7. Ahead(r) \subseteq Ahead(s) /\ r \in Ahead(s) /\ r \notin Ahead(r)
    BY <1>1, <1>5, <1>6
  <1>8. IsFiniteSet(Ahead(s))
    BY FS_Subset, QueueAssumption
  <1>9. /\ Cardinality(Ahead(r)) \in Nat /\ Cardinality(Ahead(s)) \in Nat
        /\ Cardinality(Ahead(r)) <= Cardinality(Ahead(s))
    BY <1>7, <1>8, FS_Subset, FS_CardinalityType
  <1> QED BY <1>1, <1>9, LimitAssumption

\* No pass of reconcile() selects a request for a second turn and leaves out one
\* that has been waiting since before its first.
THEOREM FairTurns == Spec => NobodyIsPassedOver
  <1> DEFINE Chosen ==
        pass.at = "inbox" /\ pass'.at = "requests" =>
          \A r \in Requests, s \in pass'.batch : s \in overtook[r] => r \in pass'.batch
  <1>1. ASSUME QueueInv, [Next]_vars, pass.at = "inbox", pass'.at = "requests"
        PROVE  Select
    <2>1. pass \in Pass
      BY <1>1 DEF QueueInv, TypeOK
    <2>2. pass' # pass /\ pass'.at # "idle" /\ pass'.at # "inbox"
      BY <1>1
    <2>3. ~(\E w \in Events : TakeEvent(w))
      BY <1>1, <2>1 DEF TakeEvent, Pass
    <2>4. ~Start /\ ~Abandon /\ ~Finish
      BY <1>1 DEF Start, Abandon, Finish, Idle
    <2>5. ~Lease /\ ~QueryFails /\ ~(\E r \in Requests : Take(r)) /\ ~(\E p \in Parts : Process(p))
      BY <1>1 DEF Lease, QueryFails, Take, Process
    <2>6. ~Tick /\ ~(\E r \in Requests : Call(r) \/ Return(r)) /\ ~UNCHANGED vars
            /\ ~(\E k \in Connections :
                 registerConnection(k) \/ rotateConnection(k) \/ revokeConnection(k))
      BY <2>2 DEF Tick, Call, Return, Activate, registerConnection, rotateConnection,
                   revokeConnection, vars
    <2> QED BY <1>1, <2>3, <2>4, <2>5, <2>6 DEF Next, Step
  <1>2. QueueInv /\ [Next]_vars => [Chosen]_vars
    BY <1>1, OvertakenFirst
  <1> QED BY <1>2, QueueInvariant, PTL DEF Spec, NobodyIsPassedOver
=============================================================================
