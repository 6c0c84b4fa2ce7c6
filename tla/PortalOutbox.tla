---------------------------- MODULE PortalOutbox ----------------------------
(***************************************************************************)
(* The Portal outbox: rows that syncPart committed with a new projection   *)
(* are claimed in batches, posted to the Portal and marked delivered.      *)
(* Passes may overlap: several bridge processes run (a rolling deployment), *)
(* and Promise.all ends a pass at its first failed UPDATE while its other  *)
(* posts go on.  Time is counted in ticks of 30 seconds; waits and ages    *)
(* are kept relative to now.                                               *)
(***************************************************************************)
EXTENDS Integers, FiniteSets

CONSTANTS
  Deliverers,   \* delivery passes that may overlap
  Last,         \* the outbox rows are 1..Last, in the order of created_at
  Dead,         \* rows of a caller whose Portal never accepts them
  Batch,        \* LIMIT of the claim
  ClaimTime,    \* next_attempt_at of a claimed row: five minutes
  PassTime,     \* bound of one pass: POST timeout plus the saving UPDATE
  Gap,          \* bound of the time between the starts of two passes
  MaxExponent,  \* Math.min(attempts, 7)
  MaxDelay      \* Math.min(3600, ...)

Events == 1..Last

ASSUME LastAssumption == Last \in Nat
ASSUME DeadAssumption == Dead \subseteq Events
ASSUME BatchAssumption == Batch \in Nat \ {0}
ASSUME TimeAssumption ==
  ClaimTime \in Nat /\ PassTime \in Nat /\ Gap \in Nat /\ PassTime < ClaimTime
ASSUME DelayAssumption == MaxExponent \in Nat /\ MaxDelay \in Nat \ {0}
\* Arithmetic: a doubled number is a number.
ASSUME DoublingAssumption == \A n \in 0..MaxExponent : 2 ^ n \in Nat

Phases == {"none", "posting", "accepted", "failed"}

VARIABLES
  made,       \* rows inserted so far: 1..made
  delivered,  \* rows with delivered_at
  attempts,   \* attempts, saturated at MaxExponent: nothing reads more of it
  wait,       \* ticks until next_attempt_at
  phase,      \* where a pass stands with each row it claimed
  taken,      \* attempts as the claiming SELECT returned it
  age,        \* ticks since the last pass started
  received    \* rows the Portal accepted at least once

vars == <<made, delivered, attempts, wait, phase, taken, age, received>>

TypeOK ==
  /\ made \in 0..Last
  /\ delivered \subseteq Events
  /\ attempts \in [Events -> 0..MaxExponent]
  /\ wait \in [Events -> Nat]
  /\ phase \in [Deliverers -> [Events -> Phases]]
  /\ taken \in [Deliverers -> [Events -> 0..MaxExponent]]
  /\ age \in [Deliverers -> Nat]
  /\ received \subseteq Events

NoPhase == [e \in Events |-> "none"]
NoTaken == [e \in Events |-> 0]

Init ==
  /\ made = 0
  /\ delivered = {}
  /\ attempts = [e \in Events |-> 0]
  /\ wait = [e \in Events |-> 0]
  /\ phase = [d \in Deliverers |-> NoPhase]
  /\ taken = [d \in Deliverers |-> NoTaken]
  /\ age = [d \in Deliverers |-> 1]
  /\ received = {}
-----------------------------------------------------------------------------
Busy(d) == \E e \in Events : phase[d][e] # "none"

\* The interval timer starts one pass per interval, unless one is running.
Free(d) == ~Busy(d) /\ age[d] > 0

Due == {e \in 1..made : e \notin delivered /\ wait[e] = 0}

\* ORDER BY created_at LIMIT Batch.
Oldest(S) == {e \in S : Cardinality({f \in S : f < e}) < Batch}

\* 30 * 2 ** Math.min(attempts, 7), at most an hour.
Delay(a) ==
  LET d == 2 ^ a IN IF d < MaxDelay THEN d ELSE MaxDelay

Finish(d, e) ==
  /\ phase' = [phase EXCEPT ![d][e] = "none"]
  /\ taken' = [taken EXCEPT ![d][e] = 0]
  /\ UNCHANGED age

\* syncPart commits a new projection and its outbox row.
Insert ==
  /\ made < Last
  /\ made' = made + 1
  /\ UNCHANGED <<delivered, attempts, wait, phase, taken, age, received>>

Chosen(d, S) ==
  /\ phase' = [phase EXCEPT ![d] = [e \in Events |-> IF e \in S THEN "posting"
                                                            ELSE "none"]]
  /\ taken' = [taken EXCEPT ![d] = [e \in Events |-> IF e \in S THEN attempts[e]
                                                            ELSE 0]]
  /\ age' = [age EXCEPT ![d] = 0]

\* attempts = attempts + 1, as far as Math.min(attempts, MaxExponent) tells.
CountAttempt(S) ==
  attempts' = [e \in Events |-> IF e \in S /\ attempts[e] < MaxExponent
                               THEN attempts[e] + 1 ELSE attempts[e]]

\* Mutants of Claim: the claimed rows stay due; the exponent has no limit.
ClaimOnly(d) ==
  /\ Free(d) /\ Due # {}
  /\ Chosen(d, Oldest(Due)) /\ CountAttempt(Oldest(Due))
  /\ UNCHANGED <<made, delivered, wait, received>>

ClaimUnlimited(d) ==
  /\ Free(d) /\ Due # {}
  /\ Chosen(d, Oldest(Due))
  /\ attempts' = [e \in Events |-> IF e \in Oldest(Due) THEN attempts[e] + 1
                                                       ELSE attempts[e]]
  /\ wait' = [e \in Events |-> IF e \in Oldest(Due) THEN ClaimTime ELSE wait[e]]
  /\ UNCHANGED <<made, delivered, received>>

\* One transaction: FOR UPDATE SKIP LOCKED, attempts + 1, five minutes ahead.
Claim(d) ==
  /\ Free(d) /\ Due # {}
  /\ Chosen(d, Oldest(Due)) /\ CountAttempt(Oldest(Due))
  /\ wait' = [e \in Events |-> IF e \in Oldest(Due) THEN ClaimTime ELSE wait[e]]
  /\ UNCHANGED <<made, delivered, received>>

\* Nothing is due.
ClaimNothing(d) ==
  /\ Free(d) /\ Due = {}
  /\ age' = [age EXCEPT ![d] = 0]
  /\ UNCHANGED <<made, delivered, attempts, wait, phase, taken, received>>

\* response.ok
Accept(d, e) ==
  /\ phase[d][e] = "posting" /\ e \notin Dead
  /\ phase' = [phase EXCEPT ![d][e] = "accepted"]
  /\ received' = received \union {e}
  /\ UNCHANGED <<made, delivered, attempts, wait, taken, age>>

\* Another status, no answer in 30 seconds (the Portal may have accepted it all
\* the same), or no callback secret.
Fail(d, e) ==
  /\ phase[d][e] = "posting"
  /\ phase' = [phase EXCEPT ![d][e] = "failed"]
  /\ \/ UNCHANGED received
     \/ e \notin Dead /\ received' = received \union {e}
  /\ UNCHANGED <<made, delivered, attempts, wait, taken, age>>

\* Mutant of SaveDelivered: the answer's status is not looked at.
SaveAnyAnswer(d, e) ==
  /\ phase[d][e] \in {"accepted", "failed"}
  /\ delivered' = delivered \union {e}
  /\ Finish(d, e)
  /\ UNCHANGED <<made, attempts, wait, received>>

SaveDelivered(d, e) ==
  /\ phase[d][e] = "accepted"
  /\ delivered' = delivered \union {e}
  /\ Finish(d, e)
  /\ UNCHANGED <<made, attempts, wait, received>>

\* Mutant of SaveFailure: the row is due again at once.
SaveNoDelay(d, e) ==
  /\ phase[d][e] = "failed"
  /\ wait' = [wait EXCEPT ![e] = 0]
  /\ Finish(d, e)
  /\ UNCHANGED <<made, delivered, attempts, received>>

SaveFailure(d, e) ==
  /\ phase[d][e] = "failed"
  /\ wait' = [wait EXCEPT ![e] = Delay(taken[d][e])]
  /\ Finish(d, e)
  /\ UNCHANGED <<made, delivered, attempts, received>>

\* The saving UPDATE fails; a failed UPDATE after response.ok is caught like an
\* unanswered POST and tries to save the failure.
SaveLost(d, e) ==
  /\ phase[d][e] \in {"accepted", "failed"}
  /\ IF phase[d][e] = "accepted"
     THEN /\ phase' = [phase EXCEPT ![d][e] = "failed"]
          /\ UNCHANGED <<taken, age>>
     ELSE Finish(d, e)
  /\ UNCHANGED <<made, delivered, attempts, wait, received>>

\* The restarted process begins with a pass.
Crash(d) ==
  /\ Busy(d)
  /\ phase' = [phase EXCEPT ![d] = NoPhase]
  /\ taken' = [taken EXCEPT ![d] = NoTaken]
  /\ age' = [age EXCEPT ![d] = 1]
  /\ UNCHANGED <<made, delivered, attempts, wait, received>>

\* 30 seconds pass.  Timeouts end a pass within PassTime, and the next one starts
\* within Gap.
Tick ==
  /\ \A d \in Deliverers : age[d] < IF Busy(d) THEN PassTime ELSE Gap
  /\ wait' = [e \in Events |-> IF wait[e] > 0 THEN wait[e] - 1 ELSE 0]
  /\ age' = [d \in Deliverers |-> age[d] + 1]
  /\ UNCHANGED <<made, delivered, attempts, phase, taken, received>>

Delivering(d, e) ==
  Accept(d, e) \/ Fail(d, e) \/ SaveDelivered(d, e) \/ SaveFailure(d, e)
  \/ SaveLost(d, e)

Next ==
  \/ Insert \/ Tick
  \/ \E d \in Deliverers : \/ Claim(d) \/ ClaimNothing(d) \/ Crash(d)
                           \/ \E e \in Events : Delivering(d, e)

Spec == Init /\ [][Next]_vars

(***************************************************************************)
(* Time passes; server.ts starts a pass every interval; a pass is bounded  *)
(* by its timeouts.  A living Portal answers, and the UPDATE commits,      *)
(* again and again.                                                        *)
(***************************************************************************)
Fairness ==
  /\ WF_vars(Tick)
  /\ \A d \in Deliverers : WF_vars(Claim(d) \/ ClaimNothing(d))
  /\ \A d \in Deliverers, e \in Events : WF_vars(Delivering(d, e))
  /\ \A e \in Events :
       /\ SF_vars(\E d \in Deliverers : Accept(d, e))
       /\ SF_vars(\E d \in Deliverers : SaveDelivered(d, e))

FairSpec == Spec /\ Fairness
-----------------------------------------------------------------------------
\* No two passes post the same row at the same time: the claim outlasts
\* every pass (five minutes against the 30 s POST timeout and the UPDATE).
InFlightOnce ==
  \A e \in Events, c, d \in Deliverers :
    phase[c][e] # "none" /\ phase[d][e] # "none" => c = d

\* A row is closed only after the Portal accepted it.
DeliveredWasReceived == delivered \subseteq received

\* Every change reaches the Portal, whatever crashed or failed, and also when
\* older rows are never accepted (ORDER BY created_at, LIMIT 20), as long as they
\* are fewer than the passes between two retries of one of them can claim.
EventuallyDelivered ==
  \A e \in Events \ Dead : e <= made ~> e \in delivered
=============================================================================
