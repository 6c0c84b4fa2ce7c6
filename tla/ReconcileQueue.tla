--------------------------- MODULE ReconcileQueue ---------------------------
(***************************************************************************)
(* Whose turn it is in reconcile(): the webhooks and the requests that are *)
(* due, a batch of each in every pass, while some of them keep failing,    *)
(* users hold the leases of others, administrators revoke and restore the  *)
(* company's connections, and passes die half-way.                         *)
(***************************************************************************)
EXTENDS Integers, FiniteSets

CONSTANTS
  Requests, Events,  \* numbers, in the order of their ids
  Parts,
  RequestOf,    \* the request of each part
  PartOf,       \* the part of each event
  Connections,  \* of one company of one client
  ConnectionOf, \* the connection of each request
  Good,         \* the parts whose native calls succeed; the others may fail at will
  BatchLimit, InboxLimit,
  FreshFor,     \* two minutes, in the units of MaxDelay
  MaxExponent, MaxDelay,
  MaxMoves      \* bound of what users, administrators and failures do

ASSUME QueueAssumption ==
  /\ Requests \subseteq Nat \ {0} /\ IsFiniteSet(Requests)
  /\ Events \subseteq Nat /\ IsFiniteSet(Events) /\ IsFiniteSet(Parts)
  /\ RequestOf \in [Parts -> Requests] /\ PartOf \in [Events -> Parts]
  /\ ConnectionOf \in [Requests -> Connections]
  /\ Good \subseteq Parts
ASSUME LimitAssumption ==
  /\ BatchLimit \in Nat \ {0} /\ InboxLimit \in Nat \ {0}
  /\ FreshFor \in Nat \ {0} /\ MaxExponent \in Nat \ {0} /\ MaxDelay \in Nat \ {0}
  /\ MaxMoves \in Nat
\* Arithmetic: the number of a doubling is never 0.
ASSUME DoublingAssumption == \A n \in 0..MaxExponent : 2 ^ n \in Nat \ {0}

VARIABLES
  parts,       \* the rows of signing.request_parts
  inbox,       \* the rows of signing.webhook_inbox
  connection,  \* the rows of signing.connections
  pass,        \* the run of reconcile()
  busy,        \* the requests whose lease a user's call holds
  overtook,    \* history: who had a turn while a request has been waiting
  moves

vars == <<parts, inbox, connection, pass, busy, overtook, moves>>

Statuses == {"prepared", "open", "final", "failed", "discarded"}

\* next is next_reconcile_at relative to now, and age the time since last_synced_at,
\* FreshFor for as long or never; attempts counts up to MaxExponent.
Part == [status : Statuses, error : BOOLEAN, age : 0..FreshFor, attempts : 0..MaxExponent,
         next : Int]
Event == [state : {"pending", "processed"}, attempts : 0..MaxExponent, next : Int]
Pass == [at : {"idle", "inbox", "requests", "turn", "parts"}, rows : SUBSET Events,
         batch : SUBSET Requests, request : Requests \union {0}, left : SUBSET Parts]
Idle == [at |-> "idle", rows |-> {}, batch |-> {}, request |-> 0, left |-> {}]

TypeOK ==
  /\ parts \in [Parts -> Part]
  /\ inbox \in [Events -> Event]
  /\ connection \in [Connections -> {"none", "active", "revoked"}]
  /\ pass \in Pass
  /\ busy \subseteq Requests
  /\ overtook \in [Requests -> SUBSET Requests]
  /\ moves \in 0..MaxMoves
-----------------------------------------------------------------------------
PartsOf(r) == {p \in Parts : RequestOf[p] = r}
Active(r) == connection[ConnectionOf[r]] = "active"
Least(m, n) == IF m < n THEN m ELSE n

\* Mutant of Delay: due again at once.
NoDelay(attempts) == 0
\* 30 seconds, doubled up to seven times, at most an hour.
Delay(attempts) == Least(MaxDelay, 2 ^ attempts)

\* The parts for whose sake the SELECT of reconcile() lists their request.
DueParts(r) == {p \in PartsOf(r) :
  /\ parts[p].next <= 0
  /\ parts[p].status \notin {"failed", "discarded"}
  /\ parts[p].age = FreshFor
  /\ parts[p].status # "final" \/ parts[p].error}
Waiting(r) == Active(r) /\ DueParts(r) # {}
WaitingEvent(w) ==
  inbox[w].state = "pending" /\ inbox[w].next <= 0 /\ Active(RequestOf[PartOf[w]])

\* Mutant of Before: ordered by the id alone.
ById(r, s) == r < s
\* ORDER BY MIN(next_reconcile_at), request_id
Before(r, s) ==
  \/ \E p \in DueParts(r) : \A q \in DueParts(s) : parts[p].next < parts[q].next
  \/ /\ r < s
     /\ \E p \in DueParts(r) : \A q \in DueParts(s) : parts[p].next <= parts[q].next
EventBefore(v, w) ==
  \/ inbox[v].next < inbox[w].next
  \/ inbox[v].next = inbox[w].next /\ v < w

\* What processRequest() or a webhook makes of a part: syncPart() stores a projection,
\* with SEND_OUTCOME_UNKNOWN if a draft should have been sent.
Syncs(p) ==
  {[parts[p] EXCEPT !.status = s, !.error = FALSE, !.age = 0] :
     s \in IF parts[p].status = "final" THEN {"final"} ELSE {"open", "final"}}
  \union (IF p \in Good \/ parts[p].status = "final" THEN {}
          ELSE {[parts[p] EXCEPT !.status = "open", !.error = TRUE, !.age = 0]})
Errored(p) == [parts[p] EXCEPT !.error = TRUE]
Refused(p) == [parts[p] EXCEPT !.error = TRUE, !.status = "failed"]

Results(p) ==
  IF parts[p].status \in {"failed", "discarded"} THEN {parts[p]}
  ELSE (IF Active(RequestOf[p]) THEN Syncs(p) ELSE {})
         \union (IF Active(RequestOf[p]) /\ p \in Good THEN {} ELSE {Errored(p)})
         \union (IF Active(RequestOf[p]) /\ p \notin Good /\ parts[p].status = "prepared"
                 THEN {Refused(p)} ELSE {})

\* The history: a request that is served, or waits no more, counts from the start.
Turns(served, taken) ==
  overtook' = [r \in Requests |->
                 IF r \in served \/ ~Waiting(r)' THEN {} ELSE overtook[r] \union taken]
-----------------------------------------------------------------------------
(* A pass.  tick() starts one when none is running. *)

Start ==
  /\ pass.at = "idle"
  /\ LET due == {w \in Events : WaitingEvent(w)}
     IN  pass' = [Idle EXCEPT !.at = "inbox",
           !.rows = {w \in due : Cardinality({v \in due : EventBefore(v, w)}) < InboxLimit}]
  /\ UNCHANGED <<parts, inbox, connection, busy, moves>>
  /\ Turns({}, {})

\* Mutant of Deferred: next_attempt_at stays.
DeferredInPlace(w) == [inbox[w] EXCEPT !.attempts = Least(@ + 1, MaxExponent)]
Deferred(w) == [inbox[w] EXCEPT !.attempts = Least(@ + 1, MaxExponent),
                                !.next = Delay(inbox[w].attempts)]

\* One webhook: nothing is to be done for a discarded part; the others are read
\* under their lease.  The catch leaves the part alone.
TakeEvent(w) ==
  LET p == PartOf[w]
      r == RequestOf[p]
  IN  /\ pass.at = "inbox" /\ w \in pass.rows
      /\ pass' = [pass EXCEPT !.rows = @ \ {w}]
      /\ \/ /\ \/ parts[p].status = "discarded" /\ parts' = parts
               \/ /\ parts[p].status # "discarded" /\ r \notin busy /\ Active(r)
                  /\ \E q \in Syncs(p) : parts' = [parts EXCEPT ![p] = q]
            /\ inbox' = [inbox EXCEPT ![w].state = "processed"]
         \/ /\ parts[p].status # "discarded"
            /\ r \in busy \/ ~Active(r) \/ p \notin Good
            /\ inbox' = [inbox EXCEPT ![w] = Deferred(w)]
            /\ parts' = parts
      /\ UNCHANGED <<connection, busy, moves>>
      /\ Turns({r}, {})

Select ==
  /\ pass.at = "inbox" /\ pass.rows = {}
  /\ LET due == {r \in Requests : Waiting(r)}
     IN  pass' = [pass EXCEPT !.at = "requests",
           !.batch = {r \in due : Cardinality({s \in due : Before(s, r)}) < BatchLimit}]
  /\ UNCHANGED <<parts, inbox, connection, busy, moves>>
  /\ Turns({}, {})

\* The UPDATE before a request's turn, on all its parts.  The order within a batch
\* is left open.
Take(r) ==
  /\ pass.at = "requests" /\ r \in pass.batch
  /\ pass' = [pass EXCEPT !.at = "turn", !.batch = @ \ {r}, !.request = r]
  /\ parts' = [p \in Parts |->
                 IF RequestOf[p] = r
                 THEN [parts[p] EXCEPT !.attempts = Least(@ + 1, MaxExponent),
                                       !.next = Delay(parts[p].attempts)]
                 ELSE parts[p]]
  /\ UNCHANGED <<inbox, connection, busy, moves>>
  /\ Turns({r}, {r})

\* processRequest() takes the lease, or REQUEST_BUSY is swallowed.
Lease ==
  /\ pass.at = "turn"
  /\ pass' = IF pass.request \in busy THEN [pass EXCEPT !.at = "requests", !.request = 0]
             ELSE [pass EXCEPT !.at = "parts", !.left = PartsOf(pass.request)]
  /\ UNCHANGED <<parts, inbox, connection, busy, moves>>
  /\ Turns({}, {})

\* One part; the lease is given back after the last.
Process(p) ==
  /\ pass.at = "parts" /\ p \in pass.left
  /\ \E q \in Results(p) : parts' = [parts EXCEPT ![p] = q]
  /\ pass' = IF pass.left = {p} THEN [pass EXCEPT !.at = "requests", !.request = 0, !.left = {}]
             ELSE [pass EXCEPT !.left = @ \ {p}]
  /\ UNCHANGED <<inbox, connection, busy, moves>>
  /\ Turns({RequestOf[p]}, {})

\* A query of processRequest() fails: the error is stored in all parts.
QueryFails ==
  /\ pass.at \in {"turn", "parts"} /\ moves < MaxMoves
  /\ parts' = [p \in Parts |->
                 IF RequestOf[p] = pass.request /\ parts[p].status # "discarded"
                 THEN Errored(p) ELSE parts[p]]
  /\ pass' = [pass EXCEPT !.at = "requests", !.left = {}]
  /\ moves' = moves + 1
  /\ UNCHANGED <<inbox, connection, busy>>
  /\ Turns({pass.request}, {})

\* The last UPDATE ends the backoff of what was synchronized without an error.
Finish ==
  /\ pass.at = "requests" /\ pass.batch = {}
  /\ pass' = Idle
  /\ parts' = [p \in Parts |->
                 IF parts[p].attempts > 0 /\ ~parts[p].error /\ parts[p].age < FreshFor
                 THEN [parts[p] EXCEPT !.attempts = 0, !.next = FreshFor - parts[p].age]
                 ELSE parts[p]]
  /\ UNCHANGED <<inbox, connection, busy, moves>>
  /\ Turns({}, {})

\* The process dies, or a query outside of a try fails.
Abandon ==
  /\ pass.at # "idle" /\ moves < MaxMoves
  /\ pass' = Idle
  /\ moves' = moves + 1
  /\ UNCHANGED <<parts, inbox, connection, busy>>
  /\ Turns({}, {})
-----------------------------------------------------------------------------
(* Users, administrators, Documenso and time. *)

Call(r) ==
  /\ moves < MaxMoves /\ r \notin busy /\ ~(pass.at = "parts" /\ pass.request = r)
  /\ busy' = busy \union {r}
  /\ moves' = moves + 1
  /\ UNCHANGED <<parts, inbox, connection, pass>>
  /\ Turns({}, {})

\* A call that refreshed or discarded a part, or did neither, gives the lease back.
Return(r) ==
  /\ r \in busy
  /\ busy' = busy \ {r}
  /\ \/ parts' = parts
     \/ \E p \in PartsOf(r) :
          \/ \E q \in Results(p) : parts' = [parts EXCEPT ![p] = q]
          \/ /\ parts[p].status # "final"
             /\ parts' = [parts EXCEPT ![p].status = "discarded", ![p].error = FALSE]
  /\ UNCHANGED <<inbox, connection, pass, moves>>
  /\ Turns({r}, {})

\* The index connection_company lets one connection of a company be active.
Activate(k, from) ==
  /\ moves < MaxMoves /\ connection[k] = from
  /\ \A j \in Connections \ {k} : connection[j] # "active"
  /\ connection' = [connection EXCEPT ![k] = "active"]
  /\ moves' = moves + 1
  /\ UNCHANGED <<parts, inbox, pass, busy>>
  /\ Turns({}, {})

\* A connection's team is its own, so only a new one is registered; a rotation
\* restores a revoked one.
registerConnection(k) == Activate(k, "none")
rotateConnection(k) == Activate(k, "revoked")

revokeConnection(k) ==
  /\ moves < MaxMoves /\ connection[k] = "active"
  /\ connection' = [connection EXCEPT ![k] = "revoked"]
  /\ moves' = moves + 1
  /\ UNCHANGED <<parts, inbox, pass, busy>>
  /\ Turns({}, {})

\* Of what is due only the order matters: 0 is the latest.
Later(next, all) ==
  IF next > 1 THEN next - 1 ELSE -Cardinality({n \in all : next < n /\ n <= 1})

Tick ==
  /\ parts' = [p \in Parts |->
                 [parts[p] EXCEPT !.age = Least(@ + 1, FreshFor),
                                  !.next = Later(@, {parts[q].next : q \in Parts})]]
  /\ inbox' = [w \in Events |->
                 [inbox[w] EXCEPT !.next = Later(@, {inbox[v].next : v \in Events})]]
  /\ UNCHANGED <<connection, pass, busy, moves>>
  /\ Turns({}, {})

Init ==
  /\ parts = [p \in Parts |-> [status |-> "prepared", error |-> FALSE, age |-> FreshFor,
                               attempts |-> 0, next |-> 0]]
  /\ inbox = [w \in Events |-> [state |-> "pending", attempts |-> 0, next |-> 0]]
  /\ connection \in [Connections -> {"none", "active", "revoked"}]
  /\ \A j, k \in Connections : connection[j] = "active" /\ connection[k] = "active" => j = k
  /\ \A r \in Requests : connection[ConnectionOf[r]] # "none"
  /\ pass = Idle /\ busy = {}
  /\ overtook = [r \in Requests |-> {}]
  /\ moves = 0

Step ==
  \/ Start \/ (\E w \in Events : TakeEvent(w))
  \/ Select \/ (\E r \in Requests : Take(r))
  \/ Lease \/ (\E p \in Parts : Process(p)) \/ Finish

Next ==
  \/ Step \/ QueryFails \/ Abandon \/ Tick
  \/ \E r \in Requests : Call(r) \/ Return(r)
  \/ \E k \in Connections :
       registerConnection(k) \/ rotateConnection(k) \/ revokeConnection(k)

\* The timer starts passes, a pass goes on, calls of users end.
Spec ==
  /\ Init /\ [][Next]_vars
  /\ WF_vars(Step) /\ WF_vars(Tick) /\ \A r \in Requests : WF_vars(Return(r))
-----------------------------------------------------------------------------
\* A pass never selects a request again that had its turn since another one waits,
\* unless it selects that one too, however many requests keep failing.
NobodyIsPassedOver ==
  [][pass.at = "inbox" /\ pass'.at = "requests" =>
       \A r \in Requests, s \in pass'.batch : s \in overtook[r] => r \in pass'.batch]_vars

\* A request whose document can be read does get up to date, though others fail in
\* every pass; one of a revoked connection does so after the connection is restored.
HealthyIsSynchronized ==
  \A p \in Good :
    Active(RequestOf[p]) /\ parts[p].age = FreshFor /\ parts[p].status \in {"prepared", "open"}
      ~> ~Active(RequestOf[p]) \/ parts[p].age < FreshFor
           \/ parts[p].status \notin {"prepared", "open"}

\* A failing first batch of webhooks does not keep a later one waiting.
HealthyEventIsTaken ==
  \A w \in Events : PartOf[w] \in Good =>
    (inbox[w].state = "pending"
       ~> inbox[w].state = "processed" \/ ~Active(RequestOf[PartOf[w]]))
=============================================================================
