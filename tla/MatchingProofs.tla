---------------------------- MODULE MatchingProofs ----------------------------
(***************************************************************************)
(* Theorems about Matching, for any set of trips and drivers, any patience, *)
(* think times and shifts.  They rest on one inductive invariant, IInv.    *)
(***************************************************************************)
EXTENDS Matching, FiniteSetTheorems, TLAPS

\* A trip that request_match has not registered is nowhere in the system yet.
RegisteredFirst ==
  \A t \in Trips :
    /\ match[t] \in {"none", "routing"} =>
         state[t] = "none" /\ t \notin active /\ retrying # t
    /\ match[t] \in {"finding", "ended"} => state[t] # "none"

\* Only a match, which is for good, names a driver.
DriverFromMatch ==
  \A t \in Trips : assigned[t] # NoDriver => state[t] \in Engaged \cup Terminal

\* The executor and its trip move together, but for a cancellation.
ExecutorInStep ==
  \A t \in Trips :
    /\ exec[t] = "none" => state[t] \notin Engaged \cup {"completed"}
    /\ exec[t] = "started" => state[t] \in {"driver_assigned", "cancelled"}
    /\ exec[t] \in {"pickup_route", "to_pickup"} =>
         state[t] \in {"en_route_pickup", "cancelled"}
    /\ exec[t] = "waiting" => state[t] \in {"at_pickup", "cancelled"}
    /\ exec[t] = "to_dropoff" => state[t] \in {"in_transit", "cancelled"}
    /\ exec[t] = "ended" => state[t] \in Terminal

\* Until a driver is found the trip is active; only ended trips are finished.
ActiveUntilMatched ==
  /\ \A t \in Trips : state[t] \in Offerable \cup {"offer_sent"} => t \in active
  /\ simpy.op = "finish" => simpy.trip \in Trips /\ state[simpy.trip] \in Terminal

\* The rider of a completed trip waits for nothing.
CompletedIsOver ==
  \A t \in Trips : state[t] = "completed" => rider[t] # "requesting"

Consistent ==
  /\ RegisteredFirst
  /\ DriverFromMatch
  /\ ExecutorInStep
  /\ ActiveUntilMatched
  /\ CompletedIsOver
  /\ NoGhostTrip
  /\ NoStrandedTrip

IInv == TypeOK /\ Consistent

--------------------------------------------------------------------------------
(* Type correctness *)

\* An offer cycle, whoever runs it, leaves reservations, offers and the retry queue
\* well typed.
LEMMA OfferCycleType ==
  ASSUME TypeOK, NEW t \in Trips, NEW C \in SUBSET Drivers, NEW Q \in SUBSET Trips,
         OfferCycle(t, C, Q)
  PROVE  /\ state' \in [Trips -> TripState \cup {"none"}]
         /\ seq' \in [Trips -> Nat]
         /\ reserved' \subseteq Drivers
         /\ cand' \in [Trips -> SUBSET Drivers]
         /\ queued' \subseteq Offer
         /\ retry' \subseteq Trips
<1>1. ASSUME NEW d \in C, SendOffer(t, d)
      PROVE  /\ state' \in [Trips -> TripState \cup {"none"}]
             /\ seq' \in [Trips -> Nat]
             /\ reserved' \subseteq Drivers
             /\ queued' \subseteq Offer
  BY <1>1 DEF TypeOK, SendOffer, TripState, Offer
<1>2. QED
  BY <1>1 DEF OfferCycle, TypeOK

\* TypeOK holds for any instance: no step, of either thread, stores a value of the
\* wrong kind.
THEOREM TypeCorrect == Spec => []TypeOK
<1>1. Init => TypeOK
  BY DEF Init, TypeOK, Idle, ExecState
<1>2. TypeOK /\ [Next]_vars => TypeOK'
  <2> SUFFICES ASSUME TypeOK, [Next]_vars PROVE TypeOK'
    OBVIOUS
  <2>1. ASSUME NEW t \in Trips, RegisterTrip(t) PROVE TypeOK'
    BY <2>1 DEF TypeOK, RegisterTrip, Eligible, TripState, timerVars, driverVars
  <2>2. ASSUME NEW t \in Trips, OfferFirst(t) PROVE TypeOK'
    <3>1. PICK C \in Ranked(t) : /\ active' = IF C = {} THEN active ELSE active \cup {t}
                                 /\ OfferCycle(t, C, retry)
      BY <2>2 DEF OfferFirst, StartCycle
    <3>2. C \in SUBSET Drivers /\ retry \in SUBSET Trips
      BY DEF Ranked, TypeOK
    <3>3. QED
      BY <2>2, <3>1, <3>2, OfferCycleType DEF OfferFirst, TypeOK, timerVars, driverVars
  <2>3. ASSUME NEW t \in Trips, RetrySearch(t) PROVE TypeOK'
    BY <2>3 DEF TypeOK, RetrySearch, Eligible, tripVars, timerVars, driverVars
  <2>4. ASSUME NEW t \in Trips, RetryOffer(t) PROVE TypeOK'
    <3>1. PICK C \in Ranked(t) : /\ active' = IF C = {} THEN active ELSE active \cup {t}
                                 /\ OfferCycle(t, C, retry \ {t})
      BY <2>4 DEF RetryOffer, StartCycle
    <3>2. C \in SUBSET Drivers /\ retry \ {t} \in SUBSET Trips
      BY DEF Ranked, TypeOK
    <3>3. QED
      BY <2>4, <3>1, <3>2, OfferCycleType DEF RetryOffer, TypeOK, timerVars, driverVars
  <2>5. ASSUME StartPending PROVE TypeOK'
    <3>1. entry' \in [Trips -> Offer \cup {NoOffer}]
      BY <2>5 DEF TypeOK, StartPending, timerVars
    <3>2. QED
      BY <2>5, <3>1 DEF TypeOK, StartPending, tripVars, timerVars, searchVars, driverVars
  <2>6. ASSUME NEW o \in thinking, AnswerMoot(o) PROVE TypeOK'
    BY <2>6 DEF TypeOK, AnswerMoot, tripVars, timerVars, searchVars, driverVars
  <2>7. ASSUME NEW o \in thinking, Accept(o) PROVE TypeOK'
    BY <2>7 DEF TypeOK, Accept, Answer, Offer, IndexStatus, TripState, ExecState,
                LessDemand, searchVars
  <2>8. ASSUME NEW o \in thinking, Reject(o) PROVE TypeOK'
    BY <2>8 DEF TypeOK, Reject, Answer, Offer, IndexStatus, TripState, searchVars
  <2>9. ASSUME NEW x \in timers, TimerFires(x) PROVE TypeOK'
    <3> DEFINE e == entry[x.trip]
    <3>1. x.trip \in Trips /\ e \in Offer \cup {NoOffer} /\ (e \in Offer => e.driver \in Drivers)
      BY DEF TypeOK, Offer
    <3>2. CASE e = NoOffer
      BY <2>9, <3>1, <3>2 DEF TimerFires, TypeOK, searchVars
    <3>3. CASE e # NoOffer /\ x.trip \in active /\ AwaitsAnswer(x.trip)
      BY <2>9, <3>1, <3>3 DEF TimerFires, TypeOK, searchVars, IndexStatus, TripState
    <3>4. CASE e # NoOffer /\ ~(x.trip \in active /\ AwaitsAnswer(x.trip))
      BY <2>9, <3>1, <3>4 DEF TimerFires, TypeOK, searchVars, IndexStatus
    <3>5. QED
      BY <3>2, <3>3, <3>4
  <2>10. ASSUME NEW t \in Trips, ContinueCycle(t) PROVE TypeOK'
    <3>1. cand[t] \in SUBSET Drivers /\ retry \in SUBSET Trips
      BY DEF TypeOK
    <3>2. QED
      BY <2>10, <3>1, OfferCycleType
         DEF ContinueCycle, TypeOK, Idle, timerVars, searchVars, driverVars
  <2>11. ASSUME NEW t \in Trips, RequestTrip(t) PROVE TypeOK'
    BY <2>11 DEF TypeOK, RequestTrip, tripVars, timerVars, driverVars
  <2>12. ASSUME NEW t \in Trips, GiveUp(t) PROVE TypeOK'
    BY <2>12 DEF TypeOK, GiveUp, EndTrip, FreeDriver, IndexStatus, LessDemand, TripState,
                 timerVars, searchVars, driverVars
  <2>13. ASSUME NEW t \in Trips, FinishTrip(t) PROVE TypeOK'
    BY <2>13 DEF TypeOK, FinishTrip, Idle, tripVars, timerVars, searchVars, driverVars
  <2>14. ASSUME NEW d \in ShiftWorkers, ChangeShift(d) PROVE TypeOK'
    BY <2>14, MatchingAssumption DEF TypeOK, ChangeShift, tripVars, timerVars, searchVars
  <2>15. ASSUME NEW t \in Trips, Executor(t) PROVE TypeOK'
    <3> USE DEF TypeOK, execRest, timerVars, searchVars, driverVars, IndexStatus, TripState,
                ExecState
    <3>1. CASE StartPickup(t)
      BY <3>1 DEF StartPickup
    <3>2. CASE DriveToPickup(t)
      BY <3>2 DEF DriveToPickup
    <3>3. CASE CancelByExecutor(t)
      BY <3>3 DEF CancelByExecutor, EndTrip, FreeDriver
    <3>4. CASE RouteFails(t)
      BY <3>4 DEF RouteFails
    <3>5. CASE ArriveAtPickup(t)
      BY <3>5 DEF ArriveAtPickup
    <3>6. CASE StartTrip(t)
      BY <3>6 DEF StartTrip
    <3>7. CASE ExecutorStops(t)
      BY <3>7 DEF ExecutorStops
    <3>8. CASE CompleteTrip(t)
      BY <3>8 DEF CompleteTrip, EndTrip, FreeDriver
    <3>9. QED
      BY <2>15, <3>1, <3>2, <3>3, <3>4, <3>5, <3>6, <3>7, <3>8 DEF Executor
  <2>16. CASE UNCHANGED vars
    BY <2>16 DEF TypeOK, vars, tripVars, timerVars, searchVars, driverVars
  <2>17. QED
    BY <2>1, <2>2, <2>3, <2>4, <2>5, <2>6, <2>7, <2>8, <2>9, <2>10, <2>11, <2>12, <2>13,
       <2>14, <2>15, <2>16 DEF Next, EventLoop, Responds
<1>3. QED
  BY <1>1, <1>2, PTL DEF Spec

--------------------------------------------------------------------------------
(* The inductive invariant *)

\* What an offer cycle for t does to the trips, the offers and the retry queue.
CycleEffect(t) ==
  /\ \A u \in Trips \ {t} : state'[u] = state[u] /\ seq'[u] = seq[u]
  /\ queued \subseteq queued'
  /\ retry \ {t} \subseteq retry'
  /\ \/ /\ state[t] \in Offerable /\ state'[t] = "offer_sent"
        /\ \E o \in queued' : o.trip = t /\ o.seq = seq'[t]
     \/ /\ state'[t] = state[t] /\ seq'[t] = seq[t]
        /\ state[t] \in Offerable => t \in retry'

\* An offer cycle touches one trip: either a new offer to it goes out and is
\* queued, or, if it may be offered at all, it joins the retry queue.
LEMMA OfferCycleEffect ==
  ASSUME TypeOK, NEW t \in Trips, NEW C \in SUBSET Drivers, NEW Q \in SUBSET Trips,
         OfferCycle(t, C, Q), retry \ {t} \subseteq Q
  PROVE  CycleEffect(t) /\ (C = {} => state'[t] = state[t])
<1> USE DEF CycleEffect
<1>1. CASE \E d \in C : SendOffer(t, d) /\ retry' = Q
  <2>1. PICK d \in C : SendOffer(t, d) /\ retry' = Q
    BY <1>1
  <2>2. CASE state[t] \in Offerable
    <3>1. CanTransition(state[t], "offer_sent")
      BY <2>2 DEF CanTransition
    <3> DEFINE o == [trip |-> t, driver |-> d, seq |-> seq[t] + 1]
    <3>2. /\ state' = [state EXCEPT ![t] = "offer_sent"]
          /\ seq' = [seq EXCEPT ![t] = @ + 1]
          /\ queued' = queued \cup {o}
      BY <2>1, <3>1 DEF SendOffer
    <3>3. o \in queued' /\ o.trip = t /\ o.seq = seq'[t]
      BY <3>2 DEF TypeOK
    <3>4. QED
      BY <2>1, <2>2, <3>2, <3>3 DEF TypeOK
  <2>3. CASE state[t] \notin Offerable
    <3>1. ~CanTransition(state[t], "offer_sent")
      BY <2>3 DEF CanTransition
    <3>2. QED
      BY <2>1, <2>3, <3>1 DEF SendOffer
  <2>4. QED
    BY <2>2, <2>3
<1>2. CASE UNCHANGED <<state, seq, queued>> /\ retry' = Q \cup {t}
  BY <1>2
<1>3. QED
  BY <1>1, <1>2 DEF OfferCycle

\* An offer cycle and what surrounds it in request_match, in the retry loop and in the
\* continuation after a rejection or an expiry.
CycleStep(t) ==
  /\ CycleEffect(t)
  /\ \/ active' = active
     \/ active' = active \cup {t} /\ match[t] \in {"finding", "ended"}
  /\ state'[t] = "offer_sent" => t \in active'
  /\ \/ match' = match
     \/ match[t] = "finding" /\ match' = [match EXCEPT ![t] = "ended"]
  /\ retrying' \in {retrying, NoTrip}
  /\ \/ simpy' = simpy
     \/ simpy = [op |-> "continue", trip |-> t] /\ simpy' = Idle
  /\ UNCHANGED <<assigned, thinking, activeTrip, exec, rider>>

\* It keeps the parts of IInv.
LEMMA OfferCycleConsistent ==
  ASSUME IInv, NEW t \in Trips, CycleStep(t)
  PROVE  Consistent'
<1> USE DEF IInv, Consistent, TypeOK, Engaged, Terminal, Offerable
<1> USE DEF CycleStep, CycleEffect
<1>1. CycleStep(t)
  OBVIOUS
<1>2. /\ \A u \in Trips : state'[u] \in Engaged \cup Terminal \cup {"none"}
                            <=> state[u] \in Engaged \cup Terminal \cup {"none"}
      /\ \A u \in Trips : state[u] \in Engaged \cup Terminal \cup {"none"}
                            => state'[u] = state[u]
  BY <1>1
<1>3. RegisteredFirst'
  BY <1>2, MatchingAssumption DEF RegisteredFirst
<1>4. DriverFromMatch' /\ ExecutorInStep'
  BY <1>2 DEF DriverFromMatch, ExecutorInStep
<1>5. ActiveUntilMatched'
  <2>1. \A u \in Trips : state'[u] \in Offerable \cup {"offer_sent"} => u \in active'
    BY <1>1 DEF ActiveUntilMatched
  <2>2. simpy'.op = "finish" => simpy' = simpy
    BY DEF Idle
  <2>3. QED
    BY <1>2, <2>1, <2>2 DEF ActiveUntilMatched
<1>6. CompletedIsOver'
  BY <1>2 DEF CompletedIsOver
<1>7. NoGhostTrip'
  BY <1>2 DEF NoGhostTrip
<1>8. OffersGoOn'
  <2>1. ASSUME NEW u \in Trips \ {t}, state'[u] \in Offerable
        PROVE  match'[u] = "finding" \/ u \in retry' \/ simpy' = [op |-> "continue", trip |-> u]
    <3>1. match[u] = "finding" \/ u \in retry \/ simpy = [op |-> "continue", trip |-> u]
      BY <1>1, <2>1 DEF NoStrandedTrip, OffersGoOn
    <3>2. simpy = [op |-> "continue", trip |-> u] => simpy' = simpy
      OBVIOUS
    <3>3. QED
      BY <1>1, <3>1, <3>2
  <2>2. state'[t] \in Offerable => t \in retry'
    BY <1>1
  <2>3. QED
    BY <2>1, <2>2 DEF OffersGoOn
<1>9. OfferIsOut'
  <2>1. ASSUME NEW u \in Trips \ {t}, state'[u] = "offer_sent"
        PROVE  u \in active' /\ \E o \in (queued \cup thinking)' : o.trip = u /\ o.seq = seq'[u]
    BY <1>1, <2>1 DEF NoStrandedTrip, OfferIsOut
  <2>2. ASSUME state'[t] = "offer_sent"
        PROVE  t \in active' /\ \E o \in (queued \cup thinking)' : o.trip = t /\ o.seq = seq'[t]
    <3>1. CASE state[t] \in Offerable
      BY <1>1, <2>2, <3>1
    <3>2. CASE state[t] \notin Offerable
      BY <1>1, <2>2, <3>2 DEF NoStrandedTrip, OfferIsOut
    <3>3. QED
      BY <3>1, <3>2
  <2>3. QED
    BY <2>1, <2>2 DEF OfferIsOut
<1>10. TripIsDriven'
  BY <1>2 DEF NoStrandedTrip, TripIsDriven
<1>11. QED
  BY <1>3, <1>4, <1>5, <1>6, <1>7, <1>8, <1>9, <1>10 DEF NoStrandedTrip

\* Every step of the event loop and of the SimPy thread keeps the parts of IInv.
LEMMA ConsistentStep == IInv /\ TypeOK' /\ [Next]_vars => Consistent'
<1> SUFFICES ASSUME IInv, TypeOK', [Next]_vars PROVE Consistent'
  OBVIOUS
<1>0. TypeOK
  BY DEF IInv
<1> USE DEF IInv, Consistent, RegisteredFirst, DriverFromMatch, ExecutorInStep,
            ActiveUntilMatched, CompletedIsOver, NoGhostTrip, NoStrandedTrip, OffersGoOn,
            OfferIsOut, TripIsDriven, Engaged, Terminal, Offerable, TypeOK
<1>1. ASSUME NEW t \in Trips, RegisterTrip(t) PROVE Consistent'
  BY <1>1 DEF RegisterTrip, timerVars, driverVars
<1>2. ASSUME NEW t \in Trips, OfferFirst(t) PROVE Consistent'
  <2>1. PICK C \in Ranked(t) : /\ active' = IF C = {} THEN active ELSE active \cup {t}
                               /\ OfferCycle(t, C, retry)
    BY <1>2 DEF OfferFirst, StartCycle
  <2>2. C \in SUBSET Drivers /\ retry \in SUBSET Trips
    BY DEF Ranked
  <2>3. CycleEffect(t) /\ (C = {} => state'[t] = state[t])
    <3>1. retry \ {t} \subseteq retry
      OBVIOUS
    <3> HIDE DEF IInv, Consistent, TypeOK
    <3>2. QED
      BY <1>0, <2>1, <2>2, <3>1, OfferCycleEffect
  <2>4. /\ match[t] = "finding" /\ match' = [match EXCEPT ![t] = "ended"]
        /\ UNCHANGED <<assigned, thinking, retrying, activeTrip, exec, rider, simpy>>
    BY <1>2 DEF OfferFirst, driverVars
  <2>5. state'[t] = "offer_sent" => t \in active'
    BY <2>1, <2>3
  <2>6. CycleStep(t)
    BY <2>1, <2>3, <2>4, <2>5 DEF CycleStep
  <2> HIDE DEF IInv, Consistent
  <2>7. QED
    BY <2>6, OfferCycleConsistent
<1>3. ASSUME NEW t \in Trips, RetrySearch(t) PROVE Consistent'
  BY <1>3 DEF RetrySearch, tripVars, timerVars, driverVars
<1>4. ASSUME NEW t \in Trips, RetryOffer(t) PROVE Consistent'
  <2>1. PICK C \in Ranked(t) : /\ active' = IF C = {} THEN active ELSE active \cup {t}
                               /\ OfferCycle(t, C, retry \ {t})
    BY <1>4 DEF RetryOffer, StartCycle
  <2>2. C \in SUBSET Drivers /\ retry \ {t} \in SUBSET Trips
    BY DEF Ranked
  <2>3. CycleEffect(t) /\ (C = {} => state'[t] = state[t])
    <3> DEFINE Q == retry \ {t}
    <3>1. Q \in SUBSET Trips /\ OfferCycle(t, C, Q) /\ retry \ {t} \subseteq Q
      BY <2>1, <2>2
    <3> HIDE DEF Q, IInv, Consistent, TypeOK
    <3>2. QED
      BY <1>0, <2>2, <3>1, OfferCycleEffect
  <2>4. /\ retrying = t /\ retrying' = NoTrip
        /\ UNCHANGED <<assigned, thinking, match, activeTrip, exec, rider, simpy>>
    BY <1>4 DEF RetryOffer, driverVars
  <2>5. state'[t] = "offer_sent" => t \in active'
    BY <2>1, <2>3
  <2>6. match[t] \in {"finding", "ended"}
    BY <2>4
  <2>7. CycleStep(t)
    BY <2>1, <2>3, <2>4, <2>5, <2>6 DEF CycleStep
  <2> HIDE DEF IInv, Consistent
  <2>8. QED
    BY <2>7, OfferCycleConsistent
<1>5. ASSUME StartPending PROVE Consistent'
  BY <1>5 DEF StartPending, Idle, tripVars, searchVars, driverVars
<1>6. ASSUME NEW o \in thinking, AnswerMoot(o) PROVE Consistent'
  BY <1>6 DEF AnswerMoot, AwaitsAnswer, tripVars, searchVars, driverVars
<1>7. ASSUME NEW o \in thinking, Accept(o) PROVE Consistent'
  BY <1>7, MatchingAssumption DEF Accept, Answer, AwaitsAnswer, Offer, Idle, searchVars
<1>8. ASSUME NEW o \in thinking, Reject(o) PROVE Consistent'
  BY <1>8 DEF Reject, Answer, AwaitsAnswer, Offer, Idle, searchVars
<1>9. ASSUME NEW x \in timers, TimerFires(x) PROVE Consistent'
  <2>1. x.trip \in Trips
    BY DEF Offer
  <2>2. CASE UNCHANGED <<state, simpy>>
    BY <1>9, <2>2 DEF TimerFires, searchVars
  <2>3. CASE /\ AwaitsAnswer(x.trip)
             /\ state' = [state EXCEPT ![x.trip] = "offer_expired"]
             /\ simpy' = [op |-> "continue", trip |-> x.trip]
    BY <1>9, <2>1, <2>3 DEF TimerFires, AwaitsAnswer, Idle, searchVars
  <2>4. QED
    BY <1>9, <2>2, <2>3 DEF TimerFires
<1>10. ASSUME NEW t \in Trips, ContinueCycle(t) PROVE Consistent'
  <2>1. cand[t] \in SUBSET Drivers /\ retry \in SUBSET Trips
    OBVIOUS
  <2>2. /\ simpy = [op |-> "continue", trip |-> t] /\ simpy' = Idle
        /\ OfferCycle(t, cand[t], retry)
        /\ UNCHANGED <<assigned, active, thinking, match, retrying, activeTrip, exec, rider>>
    BY <1>10 DEF ContinueCycle, searchVars, driverVars
  <2>3. CycleEffect(t)
    <3> DEFINE C == cand[t]
    <3>1. C \in SUBSET Drivers /\ OfferCycle(t, C, retry) /\ retry \ {t} \subseteq retry
      BY <2>1, <2>2
    <3> HIDE DEF C, IInv, Consistent, TypeOK
    <3>2. QED
      BY <1>0, <2>1, <3>1, OfferCycleEffect
  <2>4. state'[t] = "offer_sent" => t \in active'
    BY <2>2, <2>3 DEF CycleEffect
  <2>5. CycleStep(t)
    BY <2>2, <2>3, <2>4 DEF CycleStep
  <2> HIDE DEF IInv, Consistent
  <2>6. QED
    BY <2>5, OfferCycleConsistent
<1>11. ASSUME NEW t \in Trips, RequestTrip(t) PROVE Consistent'
  BY <1>11 DEF RequestTrip, tripVars, driverVars
<1>12. ASSUME NEW t \in Trips, GiveUp(t) PROVE Consistent'
  <2>1. CASE t \notin active
    BY <1>12, <2>1 DEF GiveUp, searchVars, driverVars
  <2>2. CASE t \in active
    <3>1. /\ simpy = Idle /\ simpy' = [op |-> "finish", trip |-> t]
          /\ state' = [state EXCEPT ![t] = "cancelled"]
          /\ rider' = [rider EXCEPT ![t] = "idle"]
          /\ activeTrip' = [d \in Drivers |-> IF d = assigned[t] THEN NoTrip
                                              ELSE activeTrip[d]]
          /\ retry' = retry \ {t}
          /\ UNCHANGED <<seq, assigned, active, queued, thinking, match, retrying, exec>>
      BY <1>12, <2>2 DEF GiveUp, EndTrip, FreeDriver, searchVars
    <3>2. state[t] # "completed" /\ match[t] \in {"finding", "ended"}
      BY <1>12, <2>2 DEF GiveUp
    <3>3. RegisteredFirst' /\ DriverFromMatch' /\ ExecutorInStep' /\ ActiveUntilMatched'
      BY <3>1, <3>2
    <3>4. CompletedIsOver' /\ NoGhostTrip' /\ OfferIsOut' /\ TripIsDriven'
      BY <3>1
    <3>5. OffersGoOn'
      <4>1. \A u \in Trips : simpy # [op |-> "continue", trip |-> u]
        BY <3>1 DEF Idle
      <4>2. QED
        BY <3>1, <4>1
    <3>6. QED
      BY <3>3, <3>4, <3>5
  <2>3. QED
    BY <2>1, <2>2
<1>13. ASSUME NEW t \in Trips, FinishTrip(t) PROVE Consistent'
  BY <1>13 DEF FinishTrip, Idle, tripVars, searchVars, driverVars
<1>14. ASSUME NEW d \in ShiftWorkers, ChangeShift(d) PROVE Consistent'
  BY <1>14 DEF ChangeShift, tripVars, searchVars
<1>15. ASSUME NEW t \in Trips, Executor(t) PROVE Consistent'
  <2> USE DEF execRest, searchVars
  <2>1. CASE StartPickup(t)
    BY <2>1 DEF StartPickup, CanTransition
  <2>2. CASE DriveToPickup(t)
    BY <2>2 DEF DriveToPickup, driverVars
  <2>3. CASE CancelByExecutor(t)
    BY <2>3 DEF CancelByExecutor, EndTrip, FreeDriver, Idle
  <2>4. CASE RouteFails(t)
    BY <2>4 DEF RouteFails, driverVars
  <2>5. CASE ArriveAtPickup(t)
    BY <2>5 DEF ArriveAtPickup, CanTransition, driverVars
  <2>6. CASE StartTrip(t)
    BY <2>6 DEF StartTrip, CanTransition
  <2>7. CASE ExecutorStops(t)
    BY <2>7 DEF ExecutorStops, driverVars
  <2>8. CASE CompleteTrip(t)
    BY <2>8 DEF CompleteTrip, EndTrip, FreeDriver, CanTransition, Idle
  <2>9. QED
    BY <1>15, <2>1, <2>2, <2>3, <2>4, <2>5, <2>6, <2>7, <2>8 DEF Executor
<1>16. CASE UNCHANGED vars
  BY <1>16 DEF vars, tripVars, searchVars, driverVars
<1>17. QED
  BY <1>1, <1>2, <1>3, <1>4, <1>5, <1>6, <1>7, <1>8, <1>9, <1>10, <1>11, <1>12, <1>13,
     <1>14, <1>15, <1>16 DEF Next, EventLoop, Responds

\* The inductive invariant holds throughout: the theorems below are its corollaries.
THEOREM Invariance == Spec => []IInv
<1>1. Init => IInv
  <2>1. Init => TypeOK
    BY DEF Init, TypeOK, Idle, ExecState
  <2>2. Init => Consistent
    BY MatchingAssumption
       DEF Init, Consistent, RegisteredFirst, DriverFromMatch, ExecutorInStep,
           ActiveUntilMatched, CompletedIsOver, NoGhostTrip, NoStrandedTrip, OffersGoOn,
           OfferIsOut, TripIsDriven, Engaged, Offerable, Idle
  <2>3. QED
    BY <2>1, <2>2 DEF IInv
<1>2. IInv /\ TypeOK' /\ [Next]_vars => IInv'
  BY ConsistentStep DEF IInv
<1>3. QED
  BY <1>1, <1>2, TypeCorrect, PTL DEF Spec

--------------------------------------------------------------------------------
(* What follows from the invariant *)

\* No driver keeps an ended or somebody else's trip (active_trip of DriverAgent),
\* however many trips and drivers there are.
THEOREM GhostFree == Spec => []NoGhostTrip
<1>1. IInv => NoGhostTrip
  BY DEF IInv, Consistent
<1>2. QED
  BY <1>1, Invariance, PTL

\* No unfinished trip is ever without a search, a retry, an offer or an executor.
THEOREM NothingStranded == Spec => []NoStrandedTrip
<1>1. IInv => NoStrandedTrip
  BY DEF IInv, Consistent
<1>2. QED
  BY <1>1, Invariance, PTL

\* A trip, once matched, keeps its driver, and its executor is started once: the
\* guard of _deferred_offer_response is enough to exclude a second match.
THEOREM MatchedForGood == Spec => AssignedOnce
<1> DEFINE A == \A t \in Trips : assigned[t] # NoDriver =>
                  /\ assigned'[t] = assigned[t]
                  /\ exec'[t] = "started" => exec[t] = "started"
<1>1. IInv /\ [Next]_vars => [A]_<<assigned, exec>>
  <2> SUFFICES ASSUME IInv, [Next]_vars PROVE A \/ UNCHANGED <<assigned, exec>>
    OBVIOUS
  <2>1. CASE UNCHANGED <<assigned, exec>>
    BY <2>1
  <2>2. ASSUME NEW o \in thinking, Accept(o) PROVE A
    <3>1. o.trip \in Trips
      BY DEF IInv, TypeOK, Offer
    <3>2. assigned[o.trip] = NoDriver
      BY <2>2, <3>1 DEF Accept, Answer, AwaitsAnswer, IInv, Consistent, DriverFromMatch,
                        Engaged, Terminal
    <3>3. \A t \in Trips \ {o.trip} : assigned'[t] = assigned[t] /\ exec'[t] = exec[t]
      BY <2>2 DEF Accept, IInv, TypeOK
    <3>4. QED
      BY <3>2, <3>3
  <2>3. ASSUME NEW u \in Trips, Executor(u) PROVE A
    <3>1. assigned' = assigned
      BY <2>3 DEF Executor, StartPickup, DriveToPickup, CancelByExecutor, RouteFails,
                  ArriveAtPickup, StartTrip, ExecutorStops, CompleteTrip, execRest
    <3>2. exec' \in {[exec EXCEPT ![u] = s] : s \in ExecState \ {"started"}}
      BY <2>3 DEF Executor, StartPickup, DriveToPickup, CancelByExecutor, RouteFails,
                  ArriveAtPickup, StartTrip, ExecutorStops, CompleteTrip, ExecState
    <3>3. QED
      BY <3>1, <3>2 DEF IInv, TypeOK
  <2>4. ASSUME NEW t \in Trips,
               EventLoop(t) \/ RequestTrip(t) \/ GiveUp(t) \/ ContinueCycle(t) \/ FinishTrip(t)
        PROVE  UNCHANGED <<assigned, exec>>
    BY <2>4 DEF EventLoop, RegisterTrip, OfferFirst, RetrySearch, RetryOffer, RequestTrip,
                GiveUp, ContinueCycle, FinishTrip, tripVars
  <2>5. ASSUME StartPending \/ (\E o \in thinking : AnswerMoot(o) \/ Reject(o))
                 \/ (\E x \in timers : TimerFires(x)) \/ (\E d \in ShiftWorkers : ChangeShift(d))
        PROVE  UNCHANGED <<assigned, exec>>
    BY <2>5 DEF StartPending, AnswerMoot, Reject, TimerFires, ChangeShift, tripVars
  <2>6. QED
    BY <2>1, <2>2, <2>3, <2>4, <2>5 DEF Next, Responds, vars, tripVars
<1>2. QED
  BY <1>1, Invariance, PTL DEF Spec, AssignedOnce

\* The matching engine implements the trip life cycle of trip.py, whoever moves a
\* trip: no path sets a state that transition_to would refuse.
THEOREM ImplementsLifecycle == Spec => TripsFollowLifecycle
<1>1. Init => Lifecycle!Init
  BY DEF Init, Lifecycle!Init
<1>2. IInv /\ [Next]_vars => [Lifecycle!Next]_(Lifecycle!vars)
  <2> SUFFICES ASSUME IInv, [Next]_vars
               PROVE  Lifecycle!Next \/ UNCHANGED <<state, seq>>
    BY DEF Lifecycle!vars
  <2> USE DEF IInv, TypeOK, Lifecycle!Next, Lifecycle!Transition, Lifecycle!CanTransition,
              Lifecycle!TripState, Lifecycle!Offerable, Engaged, Terminal, Offerable
  <2>1. ASSUME NEW t \in Trips, RegisterTrip(t) PROVE Lifecycle!Next
    BY <2>1 DEF RegisterTrip, Consistent, RegisteredFirst, Lifecycle!Create
  <2>2. ASSUME NEW t \in Trips, NEW d \in Drivers, SendOffer(t, d)
        PROVE  Lifecycle!Next \/ UNCHANGED <<state, seq>>
    <3>1. CASE CanTransition(state[t], "offer_sent")
      <4>1. Lifecycle!Transition(t, "offer_sent")
        BY <2>2, <3>1 DEF SendOffer, CanTransition
      <4>2. QED
        BY <4>1
    <3>2. CASE ~CanTransition(state[t], "offer_sent")
      BY <2>2, <3>2 DEF SendOffer
    <3>3. QED
      BY <3>1, <3>2
  <2>3. ASSUME NEW t \in Trips, NEW C \in SUBSET Drivers, NEW Q, OfferCycle(t, C, Q)
        PROVE  Lifecycle!Next \/ UNCHANGED <<state, seq>>
    BY <2>2, <2>3 DEF OfferCycle
  <2>4. ASSUME NEW t \in Trips, EventLoop(t) \/ ContinueCycle(t)
        PROVE  Lifecycle!Next \/ UNCHANGED <<state, seq>>
    <3>1. CASE RegisterTrip(t)
      BY <2>1, <3>1
    <3>2. CASE RetrySearch(t)
      BY <3>2 DEF RetrySearch, tripVars
    <3>3. CASE OfferFirst(t) \/ RetryOffer(t)
      <4>1. PICK C \in Ranked(t), Q \in {retry, retry \ {t}} : OfferCycle(t, C, Q)
        BY <3>3 DEF OfferFirst, RetryOffer, StartCycle
      <4>2. C \in SUBSET Drivers
        BY DEF Ranked
      <4>3. QED
        BY <2>3, <4>1, <4>2
    <3>4. CASE ContinueCycle(t)
      <4>1. cand[t] \in SUBSET Drivers /\ OfferCycle(t, cand[t], retry)
        BY <3>4 DEF ContinueCycle
      <4>2. QED
        BY <2>3, <4>1
    <3>5. QED
      BY <2>4, <3>1, <3>2, <3>3, <3>4 DEF EventLoop
  <2>5. ASSUME NEW o \in thinking, Responds(o)
        PROVE  Lifecycle!Next \/ UNCHANGED <<state, seq>>
    <3>1. o.trip \in Trips
      BY DEF Offer
    <3>2. CASE AnswerMoot(o)
      BY <3>2 DEF AnswerMoot, tripVars
    <3>3. CASE Accept(o)
      <4>1. Lifecycle!Transition(o.trip, "driver_assigned")
        BY <3>1, <3>3 DEF Accept, Answer, AwaitsAnswer
      <4>2. QED
        BY <3>1, <4>1
    <3>4. CASE Reject(o)
      <4>1. Lifecycle!Transition(o.trip, "offer_rejected")
        BY <3>1, <3>4 DEF Reject, Answer, AwaitsAnswer
      <4>2. QED
        BY <3>1, <4>1
    <3>5. QED
      BY <2>5, <3>2, <3>3, <3>4 DEF Responds
  <2>6. ASSUME NEW x \in timers, TimerFires(x)
        PROVE  Lifecycle!Next \/ UNCHANGED <<state, seq>>
    <3>1. CASE UNCHANGED state
      BY <2>6, <3>1 DEF TimerFires
    <3>2. CASE AwaitsAnswer(x.trip) /\ state' = [state EXCEPT ![x.trip] = "offer_expired"]
      <4>1. x.trip \in Trips
        BY DEF Offer
      <4>2. Lifecycle!Transition(x.trip, "offer_expired")
        BY <2>6, <3>2, <4>1 DEF TimerFires, AwaitsAnswer
      <4>3. QED
        BY <4>1, <4>2
    <3>3. QED
      BY <2>6, <3>1, <3>2 DEF TimerFires
  <2>7. ASSUME NEW t \in Trips, RequestTrip(t) \/ FinishTrip(t) PROVE UNCHANGED <<state, seq>>
    BY <2>7 DEF RequestTrip, FinishTrip, tripVars
  <2>8. ASSUME NEW t \in Trips, seq' = seq, state' = [state EXCEPT ![t] = "cancelled"],
               state[t] \notin {"none", "completed"}
        PROVE  Lifecycle!Next \/ UNCHANGED <<state, seq>>
    <3>1. CASE state[t] = "cancelled"
      BY <2>8, <3>1
    <3>2. CASE state[t] # "cancelled"
      <4>1. Lifecycle!Transition(t, "cancelled")
        BY <2>8, <3>2 DEF TripState
      <4>2. QED
        BY <4>1
    <3>3. QED
      BY <3>1, <3>2
  <2>9. ASSUME NEW t \in Trips, GiveUp(t)
        PROVE  Lifecycle!Next \/ UNCHANGED <<state, seq>>
    <3>1. CASE t \notin active
      BY <2>9, <3>1 DEF GiveUp
    <3>2. CASE t \in active
      <4>1. state[t] \notin {"none", "completed"}
        BY <2>9, <3>2 DEF GiveUp, Consistent, RegisteredFirst, CompletedIsOver
      <4>2. seq' = seq /\ state' = [state EXCEPT ![t] = "cancelled"]
        BY <2>9, <3>2 DEF GiveUp, EndTrip
      <4>3. QED
        BY <2>8, <4>1, <4>2
    <3>3. QED
      BY <3>1, <3>2
  <2>10. ASSUME NEW t \in Trips, Executor(t)
         PROVE  Lifecycle!Next \/ UNCHANGED <<state, seq>>
    <3>1. ASSUME NEW s \in TripState \ {"offer_sent"}, CanTransition(state[t], s), seq' = seq,
                 state' = [state EXCEPT ![t] = s]
          PROVE  Lifecycle!Next
      <4>1. Lifecycle!Transition(t, s)
        BY <3>1 DEF CanTransition
      <4>2. QED
        BY <3>1, <4>1 DEF TripState
    <3> USE DEF TripState, execRest
    <3>2. CASE StartPickup(t)
      BY <3>1, <3>2 DEF StartPickup
    <3>3. CASE DriveToPickup(t) \/ RouteFails(t) \/ ExecutorStops(t)
      BY <3>3 DEF DriveToPickup, RouteFails, ExecutorStops
    <3>4. CASE CancelByExecutor(t)
      <4>1. state[t] \notin {"none", "completed"}
        BY <3>4 DEF CancelByExecutor, Consistent, ExecutorInStep
      <4>2. QED
        BY <2>8, <3>4, <4>1 DEF CancelByExecutor, EndTrip
    <3>5. CASE ArriveAtPickup(t)
      BY <3>1, <3>5 DEF ArriveAtPickup
    <3>6. CASE StartTrip(t)
      BY <3>1, <3>6 DEF StartTrip
    <3>7. CASE CompleteTrip(t)
      BY <3>1, <3>7 DEF CompleteTrip, EndTrip
    <3>8. QED
      BY <2>10, <3>2, <3>3, <3>4, <3>5, <3>6, <3>7 DEF Executor
  <2>11. CASE StartPending \/ (\E d \in ShiftWorkers : ChangeShift(d)) \/ UNCHANGED vars
    BY <2>11 DEF StartPending, ChangeShift, vars, tripVars
  <2>12. QED
    BY <2>4, <2>5, <2>6, <2>7, <2>9, <2>10, <2>11 DEF Next
<1>3. QED
  BY <1>1, <1>2, Invariance, PTL DEF Spec, TripsFollowLifecycle, Lifecycle!Spec

--------------------------------------------------------------------------------
(* The books the engine keeps beside the trips: the input of surge pricing   *)
(* (SurgePricingCalculator.pending_requests) is bounded by the riders who     *)
(* wait, and, as long as no rider gives up, every reservation is backed by   *)
(* an unanswered offer.                                                      *)

\* An executor runs only for a trip that has its driver, so that no rider who
\* waits for a match hears from one.
ExecutorHasDriver == \A t \in Trips : exec[t] # "none" => assigned[t] # NoDriver

DemandInv == ExecutorHasDriver /\ NoPhantomDemand

--------------------------------------------------------------------------------
(* Counting the riders who wait *)

\* Nobody stops waiting, and the input does not grow.
LEMMA NobodyStopsWaiting ==
  ASSUME NoPhantomDemand, demand \in Nat, demand' \in Nat,
         demand' <= demand, Waiting \subseteq Waiting'
  PROVE  NoPhantomDemand'
<1>1. Waiting' \subseteq Trips
  BY DEF Waiting
<1>2. IsFiniteSet(Waiting')
  BY <1>1, FiniteTrips, FS_Subset
<1>3. /\ Cardinality(Waiting') \in Nat
      /\ IsFiniteSet(Waiting) /\ Cardinality(Waiting) \in Nat
      /\ Cardinality(Waiting) <= Cardinality(Waiting')
  BY <1>2, FS_Subset, FS_CardinalityType
<1>4. QED
  BY <1>3 DEF NoPhantomDemand

\* One rider stops waiting, and decrement_pending_request is called.
LEMMA OneStopsWaiting ==
  ASSUME NoPhantomDemand, demand \in Nat, demand' = LessDemand,
         NEW t, Waiting \ {t} \subseteq Waiting'
  PROVE  NoPhantomDemand'
<1>1. Waiting' \subseteq Trips /\ Waiting \subseteq Trips
  BY DEF Waiting
<1>2. IsFiniteSet(Waiting') /\ IsFiniteSet(Waiting)
  BY <1>1, FiniteTrips, FS_Subset
<1>3. /\ IsFiniteSet(Waiting \ {t})
      /\ Cardinality(Waiting \ {t}) \in {Cardinality(Waiting), Cardinality(Waiting) - 1}
  BY <1>2, FS_RemoveElement
<1>4. Cardinality(Waiting \ {t}) <= Cardinality(Waiting')
  BY <1>2, FS_Subset
<1>5. /\ Cardinality(Waiting) \in Nat /\ Cardinality(Waiting') \in Nat
      /\ Cardinality(Waiting \ {t}) \in Nat
  BY <1>2, <1>3, FS_CardinalityType
<1>6. QED
  BY <1>3, <1>4, <1>5 DEF NoPhantomDemand, LessDemand

\* One more rider waits, and is counted.
LEMMA OneMoreWaits ==
  ASSUME NoPhantomDemand, demand \in Nat, demand' = demand + 1,
         NEW t, t \notin Waiting, Waiting' = Waiting \cup {t}
  PROVE  NoPhantomDemand'
<1>1. Waiting \subseteq Trips
  BY DEF Waiting
<1>2. IsFiniteSet(Waiting)
  BY <1>1, FiniteTrips, FS_Subset
<1>3. Cardinality(Waiting') = Cardinality(Waiting) + 1 /\ Cardinality(Waiting) \in Nat
  BY <1>2, FS_AddElement, FS_CardinalityType
<1>4. QED
  BY <1>3 DEF NoPhantomDemand

--------------------------------------------------------------------------------
(* Every step *)

LEMMA DemandStep == IInv /\ DemandInv /\ TypeOK' /\ [Next]_vars => DemandInv'
<1> SUFFICES ASSUME IInv, DemandInv, TypeOK', [Next]_vars PROVE DemandInv'
  OBVIOUS
<1>0. demand \in Nat /\ demand' \in Nat /\ ExecutorHasDriver /\ NoPhantomDemand
  BY DEF IInv, TypeOK, DemandInv
\* a step that moves neither riders nor drivers nor the counter
<1>1. ASSUME UNCHANGED <<rider, assigned, demand, exec>> PROVE DemandInv'
  BY <1>1, <1>0 DEF DemandInv, ExecutorHasDriver, NoPhantomDemand, Waiting
<1>2. ASSUME NEW t \in Trips, RequestTrip(t) PROVE DemandInv'
  <2>1. UNCHANGED <<assigned, exec>> /\ demand' = demand + 1
    BY <1>2 DEF RequestTrip, tripVars
  <2>2. assigned[t] = NoDriver
    BY <1>2 DEF RequestTrip, IInv, Consistent, RegisteredFirst, DriverFromMatch, Engaged,
                Terminal
  <2>3. t \notin Waiting /\ Waiting' = Waiting \cup {t}
    BY <1>2, <2>1, <2>2 DEF RequestTrip, Waiting, IInv, TypeOK
  <2>4. NoPhantomDemand'
    BY <1>0, <2>1, <2>3, OneMoreWaits
  <2>5. QED
    BY <1>0, <2>1, <2>4 DEF DemandInv, ExecutorHasDriver
<1>3. ASSUME NEW t \in Trips, GiveUp(t) PROVE DemandInv'
  <2>1. UNCHANGED <<assigned, exec>> /\ demand' = LessDemand
    BY <1>3 DEF GiveUp
  <2>2. Waiting \ {t} \subseteq Waiting'
    BY <1>3, <2>1 DEF GiveUp, Waiting, IInv, TypeOK
  <2>3. NoPhantomDemand'
    BY <1>0, <2>1, <2>2, OneStopsWaiting
  <2>4. QED
    BY <1>0, <2>1, <2>3 DEF DemandInv, ExecutorHasDriver
<1>4. ASSUME NEW o \in thinking, Accept(o) PROVE DemandInv'
  <2>1. /\ o.trip \in Trips /\ o.driver \in Drivers
        /\ assigned' = [assigned EXCEPT ![o.trip] = o.driver]
        /\ exec' = [exec EXCEPT ![o.trip] = "started"]
        /\ demand' = LessDemand /\ rider' = rider
    BY <1>4 DEF Accept, IInv, TypeOK, Offer
  <2>2. Waiting \ {o.trip} \subseteq Waiting'
    BY <2>1 DEF Waiting, IInv, TypeOK
  <2>3. NoPhantomDemand'
    BY <1>0, <2>1, <2>2, OneStopsWaiting
  <2>4. ExecutorHasDriver'
    BY <1>0, <2>1, MatchingAssumption DEF ExecutorHasDriver, IInv, TypeOK
  <2>5. QED
    BY <2>3, <2>4 DEF DemandInv
\* an executor tells its own rider only, who has a driver
<1>5. ASSUME NEW t \in Trips, Executor(t) PROVE DemandInv'
  <2>1. UNCHANGED <<assigned, demand>> /\ exec[t] # "none"
    BY <1>5 DEF Executor, StartPickup, DriveToPickup, CancelByExecutor, RouteFails,
                ArriveAtPickup, StartTrip, ExecutorStops, CompleteTrip, execRest
  <2>2. /\ \A u \in Trips \ {t} : exec'[u] = exec[u] /\ rider'[u] = rider[u]
    BY <1>5 DEF Executor, StartPickup, DriveToPickup, CancelByExecutor, RouteFails,
                ArriveAtPickup, StartTrip, ExecutorStops, CompleteTrip, IInv, TypeOK
  <2>3. assigned[t] # NoDriver
    BY <1>0, <2>1 DEF ExecutorHasDriver
  <2>4. Waiting \subseteq Waiting'
    BY <2>1, <2>2, <2>3 DEF Waiting
  <2>5. NoPhantomDemand'
    BY <1>0, <2>1, <2>4, NobodyStopsWaiting
  <2>6. ExecutorHasDriver'
    BY <1>0, <2>1, <2>2, <2>3 DEF ExecutorHasDriver
  <2>7. QED
    BY <2>5, <2>6 DEF DemandInv
<1>6. ASSUME NEW t \in Trips, EventLoop(t) \/ ContinueCycle(t) \/ FinishTrip(t)
      PROVE  UNCHANGED <<rider, assigned, demand, exec>>
  BY <1>6 DEF EventLoop, RegisterTrip, OfferFirst, RetrySearch, RetryOffer, ContinueCycle,
              FinishTrip, tripVars
<1>7. ASSUME StartPending \/ (\E o \in thinking : AnswerMoot(o) \/ Reject(o))
               \/ (\E x \in timers : TimerFires(x)) \/ (\E d \in ShiftWorkers : ChangeShift(d))
      PROVE  UNCHANGED <<rider, assigned, demand, exec>>
  BY <1>7 DEF StartPending, AnswerMoot, Reject, TimerFires, ChangeShift, tripVars
<1>8. CASE UNCHANGED vars
  BY <1>1, <1>8 DEF vars, tripVars
<1>9. QED
  BY <1>1, <1>2, <1>3, <1>4, <1>5, <1>6, <1>7, <1>8 DEF Next, Responds

\* The surge input never exceeds the riders who wait without a driver: every path
\* that ends a wait (a match, the end of patience) takes its request out, once.
THEOREM DemandIsReal == Spec => []NoPhantomDemand
<1>1. Init => DemandInv
  <2>1. Init => demand = 0 /\ Waiting = {}
    BY DEF Init, Waiting
  <2>2. Cardinality({}) = 0
    BY FS_EmptySet
  <2>3. QED
    BY <2>1, <2>2 DEF Init, DemandInv, ExecutorHasDriver, NoPhantomDemand
<1>2. DemandInv => NoPhantomDemand
  BY DEF DemandInv
<1>3. QED
  BY <1>1, <1>2, DemandStep, Invariance, TypeCorrect, PTL DEF Spec

--------------------------------------------------------------------------------
(* Reservations *)

\* The SimPy thread is between a rejection or expiry of t and the next offer.
Continuing(t) == simpy = [op |-> "continue", trip |-> t]

\* Whoever is looking for a driver for a trip is the only one who does, and finds
\* the trip open for an offer when it is done: request_match, the retry loop and
\* the continuation after a rejection never look on behalf of the same trip.
OneSearch ==
  /\ retrying \in Trips => retrying \in retry
  /\ \A t \in Trips :
       /\ match[t] \in {"none", "routing"} => t \notin retry /\ ~Continuing(t)
       /\ match[t] = "finding" => /\ state[t] = "requested"
                                  /\ t \notin retry /\ ~Continuing(t)
       /\ t \in retry => state[t] \in Offerable /\ ~Continuing(t)
       /\ Continuing(t) => state[t] \in Offerable

ReservationInv == OneSearch /\ NoLeakedReservation

\* An offer cycle of an open trip reserves a driver only with an offer to it.
LEMMA ReservedWithOffer ==
  ASSUME TypeOK, NEW t \in Trips, NEW C \in SUBSET Drivers, NEW Q \in SUBSET Trips,
         OfferCycle(t, C, Q), state[t] \in Offerable, NoLeakedReservation,
         thinking' = thinking
  PROVE  /\ NoLeakedReservation'
         /\ \A u \in Trips \ {t} : state'[u] = state[u]
         /\ \/ state'[t] = "offer_sent" /\ retry' = Q
            \/ state'[t] = state[t] /\ retry' = Q \cup {t}
<1>1. ASSUME NEW d \in C, SendOffer(t, d), retry' = Q
      PROVE  /\ NoLeakedReservation'
             /\ \A u \in Trips \ {t} : state'[u] = state[u]
             /\ state'[t] = "offer_sent"
  <2> DEFINE o == [trip |-> t, driver |-> d, seq |-> seq[t] + 1]
  <2>1. CanTransition(state[t], "offer_sent")
    BY DEF CanTransition
  <2>2. /\ reserved' = reserved \cup {d} /\ queued' = queued \cup {o}
        /\ state' = [state EXCEPT ![t] = "offer_sent"]
    BY <1>1, <2>1 DEF SendOffer
  <2>3. o.driver = d
    OBVIOUS
  <2> HIDE DEF o
  <2>4. QED
    BY <2>2, <2>3 DEF NoLeakedReservation, TypeOK
<1>2. ASSUME UNCHANGED <<reserved, state, seq, queued>>, retry' = Q \cup {t}
      PROVE  NoLeakedReservation' /\ state' = state
  BY <1>2 DEF NoLeakedReservation
<1>3. QED
  BY <1>1, <1>2 DEF OfferCycle

LEMMA ReservationStep ==
  ASSUME Impatient = {}, IInv, ReservationInv, TypeOK', [Next]_vars
  PROVE  ReservationInv'
<1>0. TypeOK /\ OneSearch /\ NoLeakedReservation
  BY DEF IInv, ReservationInv
<1> USE DEF Offerable
\* an answer or a timer takes away a reservation with its offer
<1>1. ASSUME NEW o \in thinking, AnswerMoot(o) PROVE ReservationInv'
  <2>1. NoLeakedReservation'
    BY <1>0, <1>1 DEF AnswerMoot, NoLeakedReservation
  <2>2. OneSearch'
    BY <1>0, <1>1 DEF AnswerMoot, OneSearch, Continuing, tripVars, searchVars
  <2>3. QED
    BY <2>1, <2>2 DEF ReservationInv
<1>2. ASSUME NEW o \in thinking, Accept(o) PROVE ReservationInv'
  <2>1. NoLeakedReservation'
    BY <1>0, <1>2 DEF Accept, Answer, NoLeakedReservation
  <2>2. o.trip \in Trips
    BY <1>0 DEF TypeOK, Offer
  <2>3. OneSearch'
    BY <1>0, <1>2, <2>2
       DEF Accept, Answer, AwaitsAnswer, OneSearch, Continuing, Idle, TypeOK, searchVars
  <2>4. QED
    BY <2>1, <2>3 DEF ReservationInv
<1>3. ASSUME NEW o \in thinking, Reject(o) PROVE ReservationInv'
  <2>1. NoLeakedReservation'
    BY <1>0, <1>3 DEF Reject, Answer, NoLeakedReservation
  <2>2. o.trip \in Trips
    BY <1>0 DEF TypeOK, Offer
  <2>3. match[o.trip] = "ended"
    BY <1>0, <1>3, <2>2 DEF Reject, Answer, AwaitsAnswer, OneSearch, TypeOK, IInv, Consistent,
                            RegisteredFirst
  <2>4. OneSearch'
    BY <1>0, <1>3, <2>2, <2>3
       DEF Reject, Answer, AwaitsAnswer, OneSearch, Continuing, Idle, TypeOK, searchVars
  <2>5. QED
    BY <2>1, <2>4 DEF ReservationInv
<1>4. ASSUME NEW x \in timers, TimerFires(x) PROVE ReservationInv'
  <2>1. NoLeakedReservation'
    BY <1>0, <1>4 DEF TimerFires, NoLeakedReservation
  <2>2. x.trip \in Trips
    BY <1>0 DEF TypeOK, Offer
  <2>3. CASE UNCHANGED <<state, simpy>>
    BY <1>0, <1>4, <2>1, <2>3 DEF TimerFires, OneSearch, Continuing, ReservationInv, searchVars
  <2>4. CASE /\ AwaitsAnswer(x.trip)
             /\ state' = [state EXCEPT ![x.trip] = "offer_expired"]
             /\ simpy' = [op |-> "continue", trip |-> x.trip]
    <3>1. match[x.trip] = "ended"
      BY <1>0, <2>2, <2>4 DEF AwaitsAnswer, OneSearch, TypeOK, IInv, Consistent,
                              RegisteredFirst
    <3>2. OneSearch'
      BY <1>0, <1>4, <2>2, <2>4, <3>1
         DEF TimerFires, AwaitsAnswer, OneSearch, Continuing, Idle, TypeOK, searchVars
    <3>3. QED
      BY <2>1, <3>2 DEF ReservationInv
  <2>5. QED
    BY <1>4, <2>1, <2>3, <2>4 DEF TimerFires, ReservationInv
\* an offer cycle reserves with an offer, if it finds the trip open
<1>5. ASSUME NEW t \in Trips, OfferFirst(t) PROVE ReservationInv'
  <2>1. PICK C \in Ranked(t) : OfferCycle(t, C, retry)
    BY <1>5 DEF OfferFirst, StartCycle
  <2>2. C \in SUBSET Drivers /\ retry \in SUBSET Trips
    BY <1>0 DEF Ranked, TypeOK
  <2>3. /\ match[t] = "finding" /\ match' = [match EXCEPT ![t] = "ended"]
        /\ UNCHANGED <<thinking, retrying, simpy>>
    BY <1>5 DEF OfferFirst
  <2>4. state[t] = "requested" /\ ~Continuing(t)
    BY <1>0, <2>3 DEF OneSearch
  <2>5. /\ NoLeakedReservation'
        /\ \A u \in Trips \ {t} : state'[u] = state[u]
        /\ \/ state'[t] = "offer_sent" /\ retry' = retry
           \/ state'[t] = state[t] /\ retry' = retry \cup {t}
    BY <1>0, <2>1, <2>2, <2>3, <2>4, ReservedWithOffer
  <2>6. OneSearch'
    BY <1>0, <2>3, <2>4, <2>5 DEF OneSearch, Continuing, TypeOK
  <2>7. QED
    BY <2>5, <2>6 DEF ReservationInv
<1>6. ASSUME NEW t \in Trips, RetryOffer(t) PROVE ReservationInv'
  <2> DEFINE Q == retry \ {t}
  <2>1. PICK C \in Ranked(t) : OfferCycle(t, C, Q)
    BY <1>6 DEF RetryOffer, StartCycle
  <2>2. C \in SUBSET Drivers /\ Q \in SUBSET Trips
    BY <1>0 DEF Ranked, TypeOK
  <2>3. retrying = t /\ retrying' = NoTrip /\ UNCHANGED <<thinking, match, simpy>>
    BY <1>6 DEF RetryOffer
  <2>4. t \in retry /\ state[t] \in Offerable /\ ~Continuing(t)
    BY <1>0, <2>3 DEF OneSearch
  <2>5. /\ NoLeakedReservation'
        /\ \A u \in Trips \ {t} : state'[u] = state[u]
        /\ \/ state'[t] = "offer_sent" /\ retry' = Q
           \/ state'[t] = state[t] /\ retry' = Q \cup {t}
    <3> HIDE DEF Q
    <3>1. QED
      BY <1>0, <2>1, <2>2, <2>3, <2>4, ReservedWithOffer
  <2>6. OneSearch'
    BY <1>0, <2>3, <2>4, <2>5, MatchingAssumption DEF OneSearch, Continuing, TypeOK
  <2>7. QED
    BY <2>5, <2>6 DEF ReservationInv
<1>7. ASSUME NEW t \in Trips, ContinueCycle(t) PROVE ReservationInv'
  <2> DEFINE C == cand[t]
  <2>1. OfferCycle(t, C, retry) /\ C \in SUBSET Drivers /\ retry \in SUBSET Trips
    BY <1>0, <1>7 DEF ContinueCycle, TypeOK
  <2>2. Continuing(t) /\ simpy' = Idle /\ UNCHANGED <<thinking, match, retrying>>
    BY <1>7 DEF ContinueCycle, Continuing, searchVars
  <2>3. state[t] \in Offerable /\ match[t] = "ended" /\ t \notin retry
    BY <1>0, <2>2 DEF OneSearch, TypeOK
  <2>4. /\ NoLeakedReservation'
        /\ \A u \in Trips \ {t} : state'[u] = state[u]
        /\ \/ state'[t] = "offer_sent" /\ retry' = retry
           \/ state'[t] = state[t] /\ retry' = retry \cup {t}
    <3> HIDE DEF C
    <3>1. QED
      BY <1>0, <2>1, <2>2, <2>3, ReservedWithOffer
  <2>5. \A u \in Trips : ~Continuing(u)'
    BY <2>2 DEF Continuing, Idle
  <2> HIDE DEF C
  <2>6. retrying' \in Trips => retrying' \in retry'
    BY <1>0, <2>2, <2>4 DEF OneSearch
  <2>7. \A u \in Trips \ {t} : /\ u \in retry' <=> u \in retry
                               /\ match'[u] = match[u] /\ state'[u] = state[u]
    BY <2>2, <2>4
  <2>8. match'[t] = "ended" /\ (t \in retry' => state'[t] \in Offerable)
    BY <2>2, <2>3, <2>4
  <2>9. OneSearch'
    <3>1. ASSUME NEW u \in Trips
          PROVE  /\ match'[u] = "finding" => state'[u] = "requested" /\ u \notin retry'
                 /\ match'[u] \in {"none", "routing"} => u \notin retry'
                 /\ u \in retry' => state'[u] \in Offerable
      <4>1. CASE u = t
        BY <2>8, <4>1
      <4>2. CASE u # t
        BY <1>0, <2>7, <4>2 DEF OneSearch
      <4>3. QED
        BY <4>1, <4>2
    <3>2. QED
      BY <2>5, <2>6, <3>1 DEF OneSearch, Continuing
  <2>10. QED
    BY <2>4, <2>9 DEF ReservationInv
\* steps that touch neither reservations nor offers
<1>8. ASSUME NEW t \in Trips, RegisterTrip(t) PROVE ReservationInv'
  <2>1. t \notin retry /\ ~Continuing(t)
    BY <1>0, <1>8 DEF RegisterTrip, OneSearch
  <2>2. OneSearch'
    BY <1>0, <1>8, <2>1 DEF RegisterTrip, OneSearch, Continuing, TypeOK
  <2>3. QED
    BY <1>0, <1>8, <2>2 DEF RegisterTrip, ReservationInv, NoLeakedReservation
<1>9. ASSUME NEW t \in Trips, RetrySearch(t) PROVE ReservationInv'
  <2>1. OneSearch'
    BY <1>0, <1>9, MatchingAssumption DEF RetrySearch, OneSearch, Continuing, TypeOK, tripVars
  <2>2. QED
    BY <1>0, <1>9, <2>1 DEF RetrySearch, ReservationInv, NoLeakedReservation
<1>10. ASSUME StartPending PROVE ReservationInv'
  BY <1>0, <1>10 DEF StartPending, ReservationInv, NoLeakedReservation, OneSearch, Continuing,
                     tripVars, searchVars
<1>11. ASSUME NEW t \in Trips, RequestTrip(t) PROVE ReservationInv'
  <2>1. OneSearch'
    BY <1>0, <1>11 DEF RequestTrip, OneSearch, Continuing, TypeOK, tripVars
  <2>2. QED
    BY <1>0, <1>11, <2>1 DEF RequestTrip, ReservationInv, NoLeakedReservation
<1>12. ASSUME NEW t \in Trips, FinishTrip(t) PROVE ReservationInv'
  BY <1>0, <1>12 DEF FinishTrip, ReservationInv, NoLeakedReservation, OneSearch, Continuing,
                     Idle, tripVars, searchVars
<1>13. ASSUME NEW t \in Trips, Executor(t) PROVE ReservationInv'
  <2>1. UNCHANGED <<reserved, queued, thinking, retry, match, retrying>>
    BY <1>13 DEF Executor, StartPickup, DriveToPickup, CancelByExecutor, RouteFails,
                 ArriveAtPickup, StartTrip, ExecutorStops, CompleteTrip, execRest, searchVars
  <2>2. /\ \A u \in Trips \ {t} : state'[u] = state[u]
        /\ state'[t] = state[t] \/ state[t] \in Engaged
    BY <1>0, <1>13 DEF Executor, StartPickup, DriveToPickup, CancelByExecutor, RouteFails,
                 ArriveAtPickup, StartTrip, ExecutorStops, CompleteTrip, TypeOK,
                 CanTransition, EndTrip, Engaged, IInv, Consistent, ExecutorInStep
  <2>3. \A u \in Trips : ~Continuing(u) /\ ~Continuing(u)'
    BY <1>13 DEF Executor, StartPickup, DriveToPickup, CancelByExecutor, RouteFails,
                 ArriveAtPickup, StartTrip, ExecutorStops, CompleteTrip, EndTrip, Continuing,
                 Idle
  <2>4. QED
    BY <1>0, <2>1, <2>2, <2>3 DEF ReservationInv, NoLeakedReservation, OneSearch, Engaged
<1>14. ASSUME (\E t \in Trips : GiveUp(t)) PROVE FALSE
  BY <1>14 DEF GiveUp
<1>15. CASE (\E d \in ShiftWorkers : ChangeShift(d)) \/ UNCHANGED vars
  BY <1>0, <1>15 DEF ChangeShift, ReservationInv, NoLeakedReservation, OneSearch, Continuing,
                     vars, tripVars, searchVars
<1>16. QED
  BY <1>1, <1>2, <1>3, <1>4, <1>5, <1>6, <1>7, <1>8, <1>9, <1>10, <1>11, <1>12, <1>13, <1>14,
     <1>15 DEF Next, EventLoop, Responds

\* While no rider gives up before pickup, a reserved driver always has an unanswered
\* offer, whatever late answers and timers do: reservations end with the offers.
THEOREM ReservationsAreAnswered ==
  ASSUME Impatient = {} PROVE Spec => []NoLeakedReservation
<1>1. Init => ReservationInv
  BY MatchingAssumption
     DEF Init, ReservationInv, NoLeakedReservation, OneSearch, Continuing, Idle
<1>2. IInv /\ ReservationInv /\ TypeOK' /\ [Next]_vars => ReservationInv'
  BY ReservationStep
<1>3. ReservationInv => NoLeakedReservation
  BY DEF ReservationInv
<1>4. QED
  BY <1>1, <1>2, <1>3, Invariance, TypeCorrect, PTL DEF Spec
================================================================================
