------------------------- MODULE PortalOutboxProofs -------------------------
(***************************************************************************)
(* No row of the outbox is posted by two passes at once, for any number of *)
(* rows and passes, any batch and any times with PassTime < ClaimTime; no  *)
(* row is closed that the Portal did not accept; and no time or counter    *)
(* leaves its range.                                                       *)
(***************************************************************************)
EXTENDS PortalOutbox, TLAPS

\* What the argument needs of the variables' types.
Shape ==
  /\ made \in 0..Last
  /\ wait = [e \in Events |-> wait[e]]
  /\ phase \in [Deliverers -> [Events -> Phases]]
  /\ age \in [Deliverers -> Nat]

\* While a pass works on a row, the row's claim has not run out: what is left of
\* it and the pass's age make up the claim, and the pass is young enough.
ClaimHolds ==
  \A d \in Deliverers, e \in Events : phase[d][e] # "none" =>
    /\ age[d] <= PassTime
    /\ wait[e] \in Nat /\ wait[e] + age[d] >= ClaimTime

ClaimInv == Shape /\ ClaimHolds /\ InFlightOnce

\* The first state has no pass.
LEMMA InitClaimInv == Init => ClaimInv
<1> SUFFICES ASSUME Init PROVE ClaimInv
  OBVIOUS
<1>1. Shape
  <2>1. made \in 0..Last
    BY LastAssumption DEF Init
  <2>2. phase \in [Deliverers -> [Events -> Phases]]
    BY DEF Init, NoPhase, Phases
  <2>3. wait = [e \in Events |-> wait[e]] /\ age \in [Deliverers -> Nat]
    BY DEF Init
  <2> QED BY <2>1, <2>2, <2>3 DEF Shape
<1>2. \A d \in Deliverers, e \in Events : phase[d][e] = "none"
  BY DEF Init, NoPhase
<1> QED BY <1>1, <1>2 DEF ClaimInv, ClaimHolds, InFlightOnce

\* A row some pass works on is not due, so no claim chooses it.
LEMMA InFlightNotDue ==
  ASSUME ClaimInv, NEW d \in Deliverers, NEW e \in Events,
         phase[d][e] # "none"
  PROVE  wait[e] > 0 /\ e \notin Due
<1>1. wait[e] \in Nat /\ wait[e] + age[d] >= ClaimTime /\ age[d] <= PassTime
  BY DEF ClaimInv, ClaimHolds
<1>2. age[d] \in Nat
  BY DEF ClaimInv, Shape
<1>3. wait[e] > 0
  BY <1>1, <1>2, TimeAssumption
<1> QED BY <1>3 DEF Due

\* Steps by which passes go on or end, and no row's wait or age changes, except
\* the wait of a row its only pass lets go.
LEMMA LettingGo ==
  ASSUME ClaimInv, NEW d \in Deliverers, NEW e \in Events, NEW l \in Phases,
         phase[d][e] # "none",
         phase' = [phase EXCEPT ![d][e] = l],
         l = "none" \/ UNCHANGED wait,
         \E x : wait' = [wait EXCEPT ![e] = x],
         UNCHANGED <<made, age>>
  PROVE  ClaimInv'
<1>1. Shape'
  BY DEF ClaimInv, Shape, Phases
<1>2. \A c \in Deliverers, f \in Events :
        phase'[c][f] # "none" => phase[c][f] # "none"
  BY DEF ClaimInv, Shape
<1>3. InFlightOnce'
  BY <1>2 DEF ClaimInv, InFlightOnce
<1>4. ASSUME NEW c \in Deliverers, NEW f \in Events, phase'[c][f] # "none"
      PROVE  wait'[f] = wait[f]
  <2>1. CASE f # e
    BY <2>1 DEF ClaimInv, Shape
  <2>2. CASE f = e
    <3>1. c = d
      BY <1>2, <1>4, <2>2 DEF ClaimInv, InFlightOnce
    <3>2. l # "none"
      BY <1>4, <2>2, <3>1 DEF ClaimInv, Shape
    <3> QED BY <3>2
  <2> QED BY <2>1, <2>2
<1>5. ClaimHolds'
  BY <1>2, <1>4 DEF ClaimInv, ClaimHolds
<1> QED BY <1>1, <1>3, <1>5 DEF ClaimInv

\* A claim chooses rows nobody works on, and makes them wait ClaimTime.
LEMMA Claiming ==
  ASSUME ClaimInv, NEW d \in Deliverers, Claim(d)
  PROVE  ClaimInv'
<1> DEFINE S == Oldest(Due)
<1>1. phase' = [phase EXCEPT ![d] = [e \in Events |-> IF e \in S THEN "posting"
                                                           ELSE "none"]]
      /\ age' = [age EXCEPT ![d] = 0]
  BY DEF Claim, Chosen
<1>2. wait' = [e \in Events |-> IF e \in S THEN ClaimTime ELSE wait[e]]
  BY DEF Claim
<1>3. \A e \in S : e \in Due
  BY DEF Oldest
<1>4. \A e \in S, c \in Deliverers : e \in Events => phase[c][e] = "none"
  BY <1>3, InFlightNotDue
<1> HIDE DEF S
<1>5. Shape'
  <2>1. made' \in 0..Last
    BY DEF Claim, ClaimInv, Shape
  <2>2. phase' \in [Deliverers -> [Events -> Phases]]
    BY <1>1 DEF ClaimInv, Shape, Phases
  <2>3. age' \in [Deliverers -> Nat]
    BY <1>1 DEF ClaimInv, Shape
  <2>4. wait' = [e \in Events |-> wait'[e]]
    BY <1>2
  <2> QED BY <2>1, <2>2, <2>3, <2>4 DEF Shape
<1>6. \A c \in Deliverers, e \in Events :
        phase'[c][e] # "none" =>
          \/ c = d /\ e \in S
          \/ c # d /\ e \notin S /\ phase[c][e] # "none"
  BY <1>1, <1>4 DEF ClaimInv, Shape
<1>7. InFlightOnce'
  BY <1>6 DEF ClaimInv, InFlightOnce
<1>8. ASSUME NEW c \in Deliverers, NEW e \in Events, phase'[c][e] # "none"
      PROVE  /\ age'[c] <= PassTime
             /\ wait'[e] \in Nat /\ wait'[e] + age'[c] >= ClaimTime
  <2>1. CASE c = d /\ e \in S
    <3>1. age'[c] = 0 /\ wait'[e] = ClaimTime
      BY <1>1, <1>2, <2>1 DEF ClaimInv, Shape
    <3> QED BY <3>1, TimeAssumption
  <2>2. CASE c # d /\ e \notin S /\ phase[c][e] # "none"
    <3>1. age'[c] = age[c] /\ wait'[e] = wait[e]
      BY <1>1, <1>2, <2>2 DEF ClaimInv, Shape
    <3> QED BY <2>2, <3>1 DEF ClaimInv, ClaimHolds
  <2> QED BY <1>6, <1>8, <2>1, <2>2
<1> QED BY <1>5, <1>7, <1>8 DEF ClaimInv, ClaimHolds

\* A tick takes from the wait what it adds to the age.
LEMMA Ticking ==
  ASSUME ClaimInv, Tick
  PROVE  ClaimInv'
<1>1. wait' = [e \in Events |-> IF wait[e] > 0 THEN wait[e] - 1 ELSE 0]
      /\ age' = [d \in Deliverers |-> age[d] + 1]
      /\ made' = made /\ phase' = phase
  BY DEF Tick
<1>2. Shape'
  <2>1. age' \in [Deliverers -> Nat]
    BY <1>1 DEF ClaimInv, Shape
  <2>2. wait' = [e \in Events |-> wait'[e]]
    BY <1>1
  <2> QED BY <1>1, <2>1, <2>2 DEF ClaimInv, Shape
<1>3. InFlightOnce'
  BY <1>1 DEF ClaimInv, InFlightOnce
<1>4. ASSUME NEW d \in Deliverers, NEW e \in Events, phase'[d][e] # "none"
      PROVE  /\ age'[d] <= PassTime
             /\ wait'[e] \in Nat /\ wait'[e] + age'[d] >= ClaimTime
  <2>1. phase[d][e] # "none" /\ Busy(d)
    BY <1>1, <1>4 DEF Busy
  <2>2. age[d] < PassTime /\ age[d] \in Nat
    BY <2>1 DEF Tick, ClaimInv, Shape
  <2>3. wait[e] > 0 /\ wait[e] \in Nat /\ wait[e] + age[d] >= ClaimTime
    BY <2>1, InFlightNotDue DEF ClaimInv, ClaimHolds
  <2>4. wait'[e] = wait[e] - 1 /\ age'[d] = age[d] + 1
    BY <1>1, <2>3
  <2> QED BY <2>2, <2>3, <2>4, TimeAssumption
<1> QED BY <1>2, <1>3, <1>4 DEF ClaimInv, ClaimHolds

\* A crash ends every delivery of a pass.
LEMMA Crashing ==
  ASSUME ClaimInv, NEW d \in Deliverers, Crash(d)
  PROVE  ClaimInv'
<1>1. phase' = [phase EXCEPT ![d] = NoPhase] /\ age' = [age EXCEPT ![d] = 1]
      /\ made' = made /\ wait' = wait
  BY DEF Crash
<1>2. Shape'
  BY <1>1 DEF ClaimInv, Shape, NoPhase, Phases
<1>3. \A c \in Deliverers, e \in Events :
        phase'[c][e] # "none" => c # d /\ phase[c][e] # "none" /\ age'[c] = age[c]
  BY <1>1 DEF ClaimInv, Shape, NoPhase
<1>4. ClaimHolds' /\ InFlightOnce'
  BY <1>1, <1>3 DEF ClaimInv, ClaimHolds, InFlightOnce
<1> QED BY <1>2, <1>4 DEF ClaimInv

\* The steps of one delivery.
LEMMA DeliveringSteps ==
  ASSUME ClaimInv, NEW d \in Deliverers, NEW e \in Events, Delivering(d, e)
  PROVE  ClaimInv'
<1>0. wait = [wait EXCEPT ![e] = wait[e]]
  BY DEF ClaimInv, Shape
<1>1. phase[d][e] # "none"
  BY DEF Delivering, Accept, Fail, SaveDelivered, SaveFailure, SaveLost
<1>2. /\ \E l \in Phases : /\ phase' = [phase EXCEPT ![d][e] = l]
                           /\ l = "none" \/ UNCHANGED wait
      /\ \E x : wait' = [wait EXCEPT ![e] = x]
      /\ UNCHANGED <<made, age>>
  <2>1. CASE Accept(d, e)
    BY <1>0, <2>1 DEF Accept, Phases
  <2>2. CASE Fail(d, e)
    BY <1>0, <2>2 DEF Fail, Phases
  <2>3. CASE SaveDelivered(d, e)
    BY <1>0, <2>3 DEF SaveDelivered, Finish, Phases
  <2>4. CASE SaveFailure(d, e)
    BY <2>4 DEF SaveFailure, Finish, Phases
  <2>5. CASE SaveLost(d, e)
    BY <1>0, <2>5 DEF SaveLost, Finish, Phases
  <2> QED BY <2>1, <2>2, <2>3, <2>4, <2>5 DEF Delivering
<1> QED BY <1>1, <1>2, LettingGo

\* Every step keeps the invariant.
LEMMA NextClaimInv == ClaimInv /\ [Next]_vars => ClaimInv'
<1> SUFFICES ASSUME ClaimInv, [Next]_vars PROVE ClaimInv'
  OBVIOUS
<1>1. CASE Insert
  BY <1>1, LastAssumption
     DEF Insert, ClaimInv, Shape, ClaimHolds, InFlightOnce
<1>2. CASE Tick
  BY <1>2, Ticking
<1>3. ASSUME NEW d \in Deliverers, Claim(d) PROVE ClaimInv'
  BY <1>3, Claiming
<1>4. ASSUME NEW d \in Deliverers, ClaimNothing(d) PROVE ClaimInv'
  <2>1. \A e \in Events : phase[d][e] = "none"
    BY <1>4 DEF ClaimNothing, Free, Busy
  <2>2. age' = [age EXCEPT ![d] = 0] /\ UNCHANGED <<made, wait, phase>>
    BY <1>4 DEF ClaimNothing
  <2>3. Shape'
    BY <2>2 DEF ClaimInv, Shape
  <2>4. ClaimHolds'
    BY <2>1, <2>2 DEF ClaimInv, Shape, ClaimHolds
  <2> QED BY <2>2, <2>3, <2>4 DEF ClaimInv, InFlightOnce
<1>5. ASSUME NEW d \in Deliverers, Crash(d) PROVE ClaimInv'
  BY <1>5, Crashing
<1>6. ASSUME NEW d \in Deliverers, NEW e \in Events, Delivering(d, e)
      PROVE  ClaimInv'
  BY <1>6, DeliveringSteps
<1>7. CASE UNCHANGED vars
  BY <1>7 DEF vars, ClaimInv, Shape, ClaimHolds, InFlightOnce
<1> QED BY <1>1, <1>2, <1>3, <1>4, <1>5, <1>6, <1>7 DEF Next

\* No row is in flight in two passes at once (deliverPortalEvents claims with
\* FOR UPDATE SKIP LOCKED and puts next_attempt_at five minutes ahead).
THEOREM ClaimExcludes == Spec => []InFlightOnce
<1>1. Init => ClaimInv
  BY InitClaimInv
<1>2. ClaimInv /\ [Next]_vars => ClaimInv'
  BY NextClaimInv
<1>3. ClaimInv => InFlightOnce
  BY DEF ClaimInv
<1> QED BY <1>1, <1>2, <1>3, PTL DEF Spec
-----------------------------------------------------------------------------
\* The claim takes rows of the outbox, and a delay is a number of ticks.
LEMMA ClaimedRows == TypeOK => Due \subseteq Events /\ Oldest(Due) \subseteq Events
  BY LastAssumption DEF TypeOK, Due, Oldest, Events

LEMMA DelayIsTime == ASSUME NEW a \in 0..MaxExponent PROVE Delay(a) \in Nat
<1>1. 2 ^ a \in Nat
  BY DoublingAssumption
<1> QED BY <1>1, DelayAssumption DEF Delay

\* What ends a delivery keeps the types.
LEMMA FinishTyped ==
  ASSUME TypeOK, NEW d \in Deliverers, NEW e \in Events, Finish(d, e)
  PROVE  /\ phase' \in [Deliverers -> [Events -> Phases]]
         /\ taken' \in [Deliverers -> [Events -> 0..MaxExponent]]
         /\ age' \in [Deliverers -> Nat]
<1>1. phase' \in [Deliverers -> [Events -> Phases]]
  BY DEF TypeOK, Finish, Phases
<1>2. taken' \in [Deliverers -> [Events -> 0..MaxExponent]]
  BY DelayAssumption DEF TypeOK, Finish
<1> QED BY <1>1, <1>2 DEF TypeOK, Finish

LEMMA InitTyped == Init => TypeOK
<1> SUFFICES ASSUME Init PROVE TypeOK
  OBVIOUS
<1>1. made \in 0..Last
  BY LastAssumption DEF Init
<1>2. /\ attempts \in [Events -> 0..MaxExponent]
      /\ wait \in [Events -> Nat] /\ age \in [Deliverers -> Nat]
  BY DelayAssumption DEF Init
<1>3. phase \in [Deliverers -> [Events -> Phases]]
  BY DEF Init, NoPhase, Phases
<1>4. taken \in [Deliverers -> [Events -> 0..MaxExponent]]
  BY DelayAssumption DEF Init, NoTaken
<1> QED BY <1>1, <1>2, <1>3, <1>4 DEF Init, TypeOK

\* A claim counts an attempt at most up to the bound of the exponent.
LEMMA ClaimTyped == ASSUME TypeOK, NEW d \in Deliverers, Claim(d) PROVE TypeOK'
<1> DEFINE S == Oldest(Due)
<1>0. S \subseteq Events
  BY ClaimedRows
<1>1. /\ phase' = [phase EXCEPT ![d] = [e \in Events |-> IF e \in S THEN "posting" ELSE "none"]]
      /\ taken' = [taken EXCEPT ![d] = [e \in Events |-> IF e \in S THEN attempts[e] ELSE 0]]
      /\ age' = [age EXCEPT ![d] = 0]
      /\ attempts' = [e \in Events |-> IF e \in S /\ attempts[e] < MaxExponent
                                       THEN attempts[e] + 1 ELSE attempts[e]]
      /\ wait' = [e \in Events |-> IF e \in S THEN ClaimTime ELSE wait[e]]
      /\ UNCHANGED <<made, delivered, received>>
  BY DEF Claim, Chosen, CountAttempt
<1> HIDE DEF S
<1>2. phase' \in [Deliverers -> [Events -> Phases]]
  BY <1>1 DEF TypeOK, Phases
<1>3. taken' \in [Deliverers -> [Events -> 0..MaxExponent]]
  BY <1>1, DelayAssumption DEF TypeOK
<1>4. attempts' \in [Events -> 0..MaxExponent]
  BY <1>1, DelayAssumption DEF TypeOK
<1>5. wait' \in [Events -> Nat] /\ age' \in [Deliverers -> Nat]
  BY <1>1, TimeAssumption DEF TypeOK
<1> QED BY <1>1, <1>2, <1>3, <1>4, <1>5 DEF TypeOK

LEMMA DeliveringTyped ==
  ASSUME TypeOK, NEW d \in Deliverers, NEW e \in Events, Delivering(d, e)
  PROVE  TypeOK'
<1>1. CASE Accept(d, e)
  BY <1>1 DEF Accept, TypeOK, Phases
<1>2. CASE Fail(d, e)
  BY <1>2 DEF Fail, TypeOK, Phases
<1>3. CASE SaveDelivered(d, e)
  BY <1>3, FinishTyped DEF SaveDelivered, TypeOK
<1>4. CASE SaveFailure(d, e)
  <2>1. taken[d][e] \in 0..MaxExponent
    BY DEF TypeOK
  <2>2. wait' \in [Events -> Nat]
    BY <1>4, <2>1, DelayIsTime DEF SaveFailure, TypeOK
  <2> QED BY <1>4, <2>2, FinishTyped DEF SaveFailure, TypeOK
<1>5. CASE SaveLost(d, e)
  <2>1. CASE phase[d][e] = "accepted"
    <3>1. phase' = [phase EXCEPT ![d][e] = "failed"]
          /\ UNCHANGED <<made, delivered, attempts, wait, taken, age, received>>
      BY <1>5, <2>1 DEF SaveLost
    <3>2. phase' \in [Deliverers -> [Events -> Phases]]
      BY <3>1 DEF TypeOK, Phases
    <3> QED BY <3>1, <3>2 DEF TypeOK
  <2>2. CASE phase[d][e] # "accepted"
    BY <1>5, <2>2, FinishTyped DEF SaveLost, TypeOK
  <2> QED BY <2>1, <2>2
<1> QED BY <1>1, <1>2, <1>3, <1>4, <1>5 DEF Delivering

LEMMA NextTyped == TypeOK /\ [Next]_vars => TypeOK'
<1> SUFFICES ASSUME TypeOK, [Next]_vars PROVE TypeOK'
  OBVIOUS
<1>1. CASE Insert
  BY <1>1, LastAssumption DEF Insert, TypeOK
<1>2. CASE Tick
  <2>1. wait' \in [Events -> Nat]
    BY <1>2 DEF Tick, TypeOK
  <2>2. age' \in [Deliverers -> Nat]
    BY <1>2 DEF Tick, TypeOK
  <2> QED BY <1>2, <2>1, <2>2 DEF Tick, TypeOK
<1>3. ASSUME NEW d \in Deliverers, Claim(d) PROVE TypeOK'
  BY <1>3, ClaimTyped
<1>4. ASSUME NEW d \in Deliverers, ClaimNothing(d) PROVE TypeOK'
  BY <1>4 DEF ClaimNothing, TypeOK
<1>5. ASSUME NEW d \in Deliverers, Crash(d) PROVE TypeOK'
  <2>1. NoPhase \in [Events -> Phases] /\ NoTaken \in [Events -> 0..MaxExponent]
    BY DelayAssumption DEF NoPhase, NoTaken, Phases
  <2> QED BY <1>5, <2>1 DEF Crash, TypeOK
<1>6. ASSUME NEW d \in Deliverers, NEW e \in Events, Delivering(d, e)
      PROVE  TypeOK'
  BY <1>6, DeliveringTyped
<1>7. CASE UNCHANGED vars
  BY <1>7 DEF vars, TypeOK
<1> QED BY <1>1, <1>2, <1>3, <1>4, <1>5, <1>6, <1>7 DEF Next

\* The exponent of the backoff stays cut and no wait is negative, however often
\* the Portal refuses a row.
THEOREM OutboxTyped == Spec => []TypeOK
<1> QED BY InitTyped, NextTyped, PTL DEF Spec
-----------------------------------------------------------------------------
\* A row is closed by a pass that saw the Portal accept it.
Accepted == \A d \in Deliverers, e \in Events : phase[d][e] = "accepted" => e \in received

\* Whatever passes crash or overlap, delivered_at is only set on what the Portal
\* accepted.
THEOREM ClosesAccepted == Spec => []DeliveredWasReceived
<1> DEFINE I == TypeOK /\ Accepted /\ DeliveredWasReceived
<1>1. Init => I
  BY InitTyped DEF Init, NoPhase, Accepted, DeliveredWasReceived
<1>2. I /\ [Next]_vars => I'
  <2> SUFFICES ASSUME I, [Next]_vars PROVE Accepted' /\ DeliveredWasReceived'
    BY NextTyped
  <2>1. CASE Insert \/ Tick \/ UNCHANGED vars
    BY <2>1 DEF Insert, Tick, vars, Accepted, DeliveredWasReceived
  <2>2. ASSUME NEW d \in Deliverers, Claim(d) \/ ClaimNothing(d) \/ Crash(d)
        PROVE  Accepted' /\ DeliveredWasReceived'
    BY <2>2 DEF Claim, Chosen, ClaimNothing, Crash, NoPhase, TypeOK, Accepted,
                DeliveredWasReceived
  <2>3. ASSUME NEW d \in Deliverers, NEW e \in Events, Delivering(d, e)
        PROVE  Accepted' /\ DeliveredWasReceived'
    <3>1. CASE Accept(d, e)
      BY <3>1 DEF Accept, TypeOK, Accepted, DeliveredWasReceived
    <3>2. CASE Fail(d, e)
      BY <3>2 DEF Fail, TypeOK, Accepted, DeliveredWasReceived
    <3>3. CASE SaveDelivered(d, e)
      BY <3>3 DEF SaveDelivered, Finish, TypeOK, Accepted, DeliveredWasReceived
    <3>4. CASE SaveFailure(d, e)
      BY <3>4 DEF SaveFailure, Finish, TypeOK, Accepted, DeliveredWasReceived
    <3>5. CASE SaveLost(d, e)
      BY <3>5 DEF SaveLost, Finish, TypeOK, Accepted, DeliveredWasReceived
    <3> QED BY <2>3, <3>1, <3>2, <3>3, <3>4, <3>5 DEF Delivering
  <2> QED BY <2>1, <2>2, <2>3 DEF Next
<1>3. I => DeliveredWasReceived
  OBVIOUS
<1> QED BY <1>1, <1>2, <1>3, PTL DEF Spec
=============================================================================
