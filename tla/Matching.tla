------------------------------- MODULE Matching -------------------------------
(***************************************************************************)
(* The matching engine of the simulator: how a rider's request becomes a   *)
(* trip that a driver executes (services/simulation/src: matching/         *)
(* matching_server.py, matching/offer_timeout.py, trips/trip_executor.py,  *)
(* and the parts of agents/{driver,rider}_agent.py that call into them).   *)
(*                                                                         *)
(* Two threads touch this state.                                           *)
(*   - The asyncio event loop runs the coroutines request_match and        *)
(*     retry_pending_matches; each is cut at its awaits.                   *)
(*   - The SimPy thread runs everything else: riders, shifts, driver       *)
(*     answers, offer timers, trip executors.  A SimPy process runs alone  *)
(*     among SimPy processes until it yields, but the event loop may run   *)
(*     in between: simpy # Idle says that a handler is half way through    *)
(*     and which half is left.                                             *)
(*                                                                         *)
(* Time is abstract: a running timer may fire at any moment.  A driver     *)
(* outside SlowDrivers answers before the timer of its offer.              *)
(***************************************************************************)
EXTENDS Naturals, FiniteSets, Functions, TripStates

CONSTANTS
  Trips,         \* trips; each has a rider of its own
  Drivers,       \* autonomous drivers
  NoTrip,        \* no trip (None)
  NoDriver,      \* no driver (None)
  NoOffer,       \* no entry in OfferTimeoutManager.pending_offers
  Impatient,     \* trips whose rider may run out of patience before pickup
  SlowDrivers,   \* drivers whose think time may exceed offer_timeout_seconds
  ShiftWorkers,  \* drivers whose shift may end and start again
  TimeoutsOn,    \* a Kafka producer is configured, hence an OfferTimeoutManager
  MaxAttempts,   \* max_attempts of send_offer_cycle
  MaxOffers      \* bound: once this many offers were sent, no trip is retried

ASSUME MatchingAssumption ==
  /\ NoTrip \notin Trips
  /\ NoDriver \notin Drivers
  /\ Impatient \subseteq Trips
  /\ SlowDrivers \subseteq Drivers
  /\ ShiftWorkers \subseteq Drivers
  /\ TimeoutsOn \in BOOLEAN
  /\ MaxAttempts \in Nat \ {0}
  /\ MaxOffers \in Nat \ {0}

Offer == [trip : Trips, driver : Drivers, seq : Nat]

ASSUME NoOfferAssumption == NoOffer \notin Offer

ASSUME FiniteTrips == IsFiniteSet(Trips)

VARIABLES
  state, seq, assigned,      \* Trip.state, Trip.offer_sequence, Trip.driver_id
  active,                    \* _active_trips
  reserved,                  \* _reserved_drivers
  cand,                      \* _pending_offer_candidates: drivers not yet tried
  retry,                     \* _retry_queue
  queued,                    \* offers queued by send_offer for the SimPy thread
  thinking,                  \* offers with a _deferred_offer_response process
  entry,                     \* OfferTimeoutManager.pending_offers
  timers,                    \* running _timeout_process instances
  match,                     \* where request_match of the trip is
  found,                     \* drivers a search in flight has seen as eligible
  retrying,                  \* the trip retry_pending_matches is searching for
  activeTrip,                \* DriverAgent.active_trip
  index,                     \* status of the driver in the geospatial index
  exec,                      \* where the TripExecutor of the trip is
  rider,                     \* RiderAgent.status of the trip's rider
  demand,                    \* SurgePricingCalculator.pending_requests
  simpy                      \* what is left of the handler the SimPy thread is in

tripVars   == <<state, seq, assigned>>
timerVars  == <<entry, timers>>
searchVars == <<match, found, retrying>>
driverVars == <<activeTrip, index>>
vars == <<tripVars, active, reserved, cand, retry, queued, thinking, timerVars,
          searchVars, driverVars, exec, rider, demand, simpy>>

Idle == [op |-> "idle", trip |-> NoTrip]

ExecState == {"none", "started", "pickup_route", "to_pickup", "waiting",
              "to_dropoff", "ended", "failed"}

--------------------------------------------------------------------------------
(* Helpers *)

\* find_nearby_drivers, up to its await: drivers the index shows as matchable
\* that are neither reserved nor on a trip.
Eligible == {d \in Drivers : /\ index[d] = "available"
                             /\ d \notin reserved
                             /\ activeTrip[d] = NoTrip}

\* The check of send_offer; it does not look at the index again.
Free(d) == d \notin reserved /\ activeTrip[d] = NoTrip

\* DriverGeospatialIndex.update_driver_status: ignored for absent drivers.
IndexStatus(d, s) ==
  [x \in Drivers |-> IF x = d /\ index[x] # "absent" THEN s ELSE index[x]]

\* DriverAgent.complete_trip (d may be NoDriver).
FreeDriver(d) ==
  /\ activeTrip' = [x \in Drivers |-> IF x = d THEN NoTrip ELSE activeTrip[x]]
  /\ index' = IndexStatus(d, "available")

\* Mutant: the guard of decrement_pending_request is gone.
Bug_LessDemand == demand - 1

\* _offers_sent, the sum of the offer sequences.
OffersSent == FoldFunction(+, 0, seq)

\* decrement_pending_request never goes below zero.
LessDemand == IF demand > 0 THEN demand - 1 ELSE 0

--------------------------------------------------------------------------------
Init ==
  /\ state = [t \in Trips |-> "none"]
  /\ seq = [t \in Trips |-> 0]
  /\ assigned = [t \in Trips |-> NoDriver]
  /\ active = {} /\ reserved = {} /\ retry = {}
  /\ cand = [t \in Trips |-> {}]
  /\ queued = {} /\ thinking = {} /\ timers = {}
  /\ entry = [t \in Trips |-> NoOffer]
  /\ match = [t \in Trips |-> "none"]
  /\ found = [t \in Trips |-> {}]
  /\ retrying = NoTrip
  /\ activeTrip = [d \in Drivers |-> NoTrip]
  /\ index = [d \in Drivers |-> "available"]
  /\ exec = [t \in Trips |-> "none"]
  /\ rider = [t \in Trips |-> "idle"]
  /\ demand = 0
  /\ simpy = Idle

--------------------------------------------------------------------------------
(* Offering a trip *)

\* Mutant: the offer is made, but nothing is queued for the SimPy thread.
Bug_SendOffer(t, d) ==
  /\ reserved' = reserved \cup {d}
  /\ UNCHANGED queued
  /\ IF CanTransition(state[t], "offer_sent")
       THEN /\ state' = [state EXCEPT ![t] = "offer_sent"]
            /\ seq' = [seq EXCEPT ![t] = @ + 1]
       ELSE UNCHANGED <<state, seq>>

\* send_offer to a free driver: reserve it, then move the trip.  If the trip has
\* been cancelled meanwhile, transition_to raises after the reservation was made
\* and no answer is ever queued.
SendOffer(t, d) ==
  /\ reserved' = reserved \cup {d}
  /\ IF CanTransition(state[t], "offer_sent")
       THEN /\ state' = [state EXCEPT ![t] = "offer_sent"]
            /\ seq' = [seq EXCEPT ![t] = @ + 1]
            /\ queued' = queued \cup {[trip |-> t, driver |-> d, seq |-> seq[t] + 1]}
       ELSE UNCHANGED <<state, seq, queued>>

\* Mutant: a trip that has run out of candidates is not queued for a retry.
Bug_OfferCycle(t, C, Q) ==
  \/ \E d \in {c \in C : Free(c)} :
        /\ SendOffer(t, d)
        /\ cand' = [cand EXCEPT ![t] = C \ {d}]
        /\ retry' = Q
  \/ /\ \A c \in C : ~Free(c)
     /\ cand' = [cand EXCEPT ![t] = {}]
     /\ retry' = Q
     /\ UNCHANGED <<reserved, state, seq, queued>>

\* Offer t to the best candidate of C that is free, passing over the busy ones
\* ranked before it; with none left, wait in the retry queue.  Q is the retry
\* queue as the caller leaves it.
OfferCycle(t, C, Q) ==
  \/ \E d \in {c \in C : Free(c)} : \E skipped \in SUBSET {c \in C : ~Free(c)} :
        /\ SendOffer(t, d)
        /\ cand' = [cand EXCEPT ![t] = C \ (skipped \cup {d})]
        /\ retry' = Q
  \/ /\ \A c \in C : ~Free(c)
     /\ cand' = [cand EXCEPT ![t] = {}]
     /\ retry' = Q \cup {t}
     /\ UNCHANGED <<reserved, state, seq, queued>>

\* The outcome of find_nearby_drivers after its await, cut to max_attempts: any
\* part of the drivers seen (routes may fail or be too long), in any ranking.
Ranked(t) == {C \in SUBSET found[t] : Cardinality(C) <= MaxAttempts}

\* send_offer_cycle: a non-empty list (re)registers the trip as active.
StartCycle(t, Q) ==
  \E C \in Ranked(t) :
    /\ active' = IF C = {} THEN active ELSE active \cup {t}
    /\ OfferCycle(t, C, Q)

--------------------------------------------------------------------------------
(* The event loop *)

\* request_match up to the await inside find_nearby_drivers: register the trip,
\* whatever became of the rider meanwhile, and take the candidates.
RegisterTrip(t) ==
  /\ match[t] = "routing"
  /\ state' = [state EXCEPT ![t] = "requested"]
  /\ active' = active \cup {t}
  /\ found' = [found EXCEPT ![t] = Eligible]
  /\ match' = [match EXCEPT ![t] = "finding"]
  /\ UNCHANGED <<seq, assigned, reserved, cand, retry, queued, thinking, timerVars,
                 retrying, driverVars, exec, rider, demand, simpy>>

\* The rest of request_match.
OfferFirst(t) ==
  /\ match[t] = "finding"
  /\ StartCycle(t, retry)
  /\ match' = [match EXCEPT ![t] = "ended"]
  /\ found' = [found EXCEPT ![t] = {}]
  /\ UNCHANGED <<assigned, thinking, timerVars, retrying, driverVars, exec,
                 rider, demand, simpy>>

\* retry_pending_matches takes up a due trip: one at a time, thanks to
\* _retry_in_progress.  A trip that is no longer active is dropped.
RetrySearch(t) ==
  /\ t \in retry
  /\ retrying = NoTrip
  /\ OffersSent < MaxOffers
  /\ \/ /\ t \notin active
        /\ retry' = retry \ {t}
        /\ UNCHANGED <<found, retrying>>
     \/ /\ t \in active
        /\ found' = [found EXCEPT ![t] = Eligible]
        /\ retrying' = t
        /\ UNCHANGED retry
  /\ UNCHANGED <<tripVars, active, reserved, cand, queued, thinking, timerVars, match,
                 driverVars, exec, rider, demand, simpy>>

\* ... and resumes after the await, with the trip object it took before it.
RetryOffer(t) ==
  /\ retrying = t
  /\ StartCycle(t, retry \ {t})
  /\ retrying' = NoTrip
  /\ found' = [found EXCEPT ![t] = {}]
  /\ UNCHANGED <<assigned, thinking, timerVars, match, driverVars, exec, rider,
                 demand, simpy>>

--------------------------------------------------------------------------------
(* The SimPy thread: offers and their timers *)

\* No offer queued for the trip of o is newer than o.
Newest(o) == \A p \in queued : p.trip = o.trip => p.seq <= o.seq

\* start_pending_trip_executions: start the answer and the timer of every offer
\* queued so far, in order: the newest timer of a trip overwrites its entry.
StartPending ==
  /\ simpy = Idle
  /\ queued # {}
  /\ queued' = {}
  /\ thinking' = thinking \cup queued
  /\ IF TimeoutsOn
       THEN /\ timers' = timers \cup queued
            /\ entry' = [t \in Trips |->
                 IF \E o \in queued : o.trip = t /\ Newest(o)
                   THEN CHOOSE o \in queued : o.trip = t /\ Newest(o)
                   ELSE entry[t]]
       ELSE UNCHANGED timerVars
  /\ UNCHANGED <<tripVars, active, reserved, cand, retry, searchVars, driverVars,
                 exec, rider, demand, simpy>>

\* Mutant: only a trip that is gone counts as no longer waiting.
Bug_AwaitsAnswer(t) == t \in active

\* The question _deferred_offer_response asks before it applies an answer, and
\* _handle_offer_expired before it expires an offer: is the trip waiting for *an*
\* answer?  (It is then still active, see NoStrandedTrip.)
AwaitsAnswer(t) == state[t] = "offer_sent"

\* Mutant: the reservation outlives the moot answer.
Bug_AnswerMoot(o) ==
  /\ simpy = Idle
  /\ ~AwaitsAnswer(o.trip)
  /\ thinking' = thinking \ {o}
  /\ UNCHANGED <<tripVars, active, reserved, cand, retry, queued, timerVars, searchVars,
                 driverVars, exec, rider, demand, simpy>>

\* _deferred_offer_response for a trip that awaits no answer: only the
\* reservation goes, the timer entry stays.
AnswerMoot(o) ==
  /\ simpy = Idle
  /\ ~AwaitsAnswer(o.trip)
  /\ thinking' = thinking \ {o}
  /\ reserved' = reserved \ {o.driver}
  /\ UNCHANGED <<tripVars, active, cand, retry, queued, timerVars, searchVars,
                 driverVars, exec, rider, demand, simpy>>

\* Mutant: the reservation of a driver that answers is kept.
Bug_Answer(o) ==
  /\ simpy = Idle
  /\ AwaitsAnswer(o.trip)
  /\ thinking' = thinking \ {o}
  /\ timers' = timers \ {entry[o.trip]}
  /\ entry' = [entry EXCEPT ![o.trip] = NoOffer]
  /\ UNCHANGED reserved

\* The part common to both answers; clear_offer drops whatever timer the trip has,
\* which is another driver's when the answer comes after the next offer was sent.
Answer(o) ==
  /\ simpy = Idle
  /\ AwaitsAnswer(o.trip)
  /\ thinking' = thinking \ {o}
  /\ timers' = timers \ {entry[o.trip]}
  /\ entry' = [entry EXCEPT ![o.trip] = NoOffer]
  /\ reserved' = reserved \ {o.driver}

\* Mutant: a match does not take its request out of the surge input.
Bug_Accept(o) ==
  /\ Answer(o)
  /\ activeTrip' = [activeTrip EXCEPT ![o.driver] = o.trip]
  /\ index' = IndexStatus(o.driver, "en_route_pickup")
  /\ assigned' = [assigned EXCEPT ![o.trip] = o.driver]
  /\ state' = [state EXCEPT ![o.trip] = "driver_assigned"]
  /\ cand' = [cand EXCEPT ![o.trip] = {}]
  /\ exec' = [exec EXCEPT ![o.trip] = "started"]
  /\ UNCHANGED <<seq, active, retry, queued, searchVars, rider, demand, simpy>>

\* The driver accepts: accept_trip (whatever it was doing), DRIVER_ASSIGNED,
\* executor started.
Accept(o) ==
  /\ Answer(o)
  /\ activeTrip' = [activeTrip EXCEPT ![o.driver] = o.trip]
  /\ index' = IndexStatus(o.driver, "en_route_pickup")
  /\ assigned' = [assigned EXCEPT ![o.trip] = o.driver]
  /\ state' = [state EXCEPT ![o.trip] = "driver_assigned"]
  /\ cand' = [cand EXCEPT ![o.trip] = {}]
  /\ exec' = [exec EXCEPT ![o.trip] = "started"]
  /\ demand' = LessDemand
  /\ UNCHANGED <<seq, active, retry, queued, searchVars, rider, simpy>>

\* The driver rejects; the offer cycle of the trip goes on.
Reject(o) ==
  /\ Answer(o)
  /\ index' = IndexStatus(o.driver, "available")
  /\ state' = [state EXCEPT ![o.trip] = "offer_rejected"]
  /\ simpy' = [op |-> "continue", trip |-> o.trip]
  /\ UNCHANGED <<seq, assigned, active, cand, retry, queued, searchVars, activeTrip,
                 exec, rider, demand>>

\* _timeout_process of x wakes up: whatever entry its trip has is taken out, its
\* driver released, and the trip moved on if it awaits an answer.
TimerFires(x) ==
  /\ simpy = Idle
  /\ x \in thinking => x.driver \in SlowDrivers
  /\ timers' = timers \ {x}
  /\ LET t == x.trip
         e == entry[t]
     IN  \/ /\ e = NoOffer
            /\ UNCHANGED <<state, cand, entry, reserved, index, simpy>>
         \/ /\ e # NoOffer
            /\ entry' = [entry EXCEPT ![t] = NoOffer]
            /\ reserved' = reserved \ {e.driver}
            /\ index' = IndexStatus(e.driver, "available")
            /\ cand' = IF t \in active THEN cand ELSE [cand EXCEPT ![t] = {}]
            /\ IF t \in active /\ AwaitsAnswer(t)
                 THEN /\ state' = [state EXCEPT ![t] = "offer_expired"]
                      /\ simpy' = [op |-> "continue", trip |-> t]
                 ELSE UNCHANGED <<state, simpy>>
  /\ UNCHANGED <<seq, assigned, active, retry, queued, thinking, searchVars, activeTrip,
                 exec, rider, demand>>

\* _continue_deferred_offer_cycle, the second half of a rejection or expiry.
ContinueCycle(t) ==
  /\ simpy = [op |-> "continue", trip |-> t]
  /\ OfferCycle(t, cand[t], retry)
  /\ simpy' = Idle
  /\ UNCHANGED <<assigned, active, thinking, timerVars, searchVars, driverVars,
                 exec, rider, demand>>

--------------------------------------------------------------------------------
(* The SimPy thread: riders and shifts *)

\* RiderAgent.run issues its request and schedules request_match.
RequestTrip(t) ==
  /\ simpy = Idle
  /\ rider[t] = "idle" /\ match[t] = "none"
  /\ rider' = [rider EXCEPT ![t] = "requesting"]
  /\ match' = [match EXCEPT ![t] = "routing"]
  /\ demand' = demand + 1
  /\ UNCHANGED <<tripVars, active, reserved, cand, retry, queued, thinking, timerVars,
                 found, retrying, driverVars, exec, simpy>>

\* Mutant: the trip ends, but its driver keeps it as its active trip.
Bug_EndTrip(t, s) ==
  /\ state' = [state EXCEPT ![t] = s]
  /\ index' = IndexStatus(assigned[t], "available")
  /\ simpy' = [op |-> "finish", trip |-> t]
  /\ UNCHANGED activeTrip

\* A trip ends: its driver, if any, is freed at once (DriverAgent.complete_trip);
\* MatchingServer.complete_trip is still to come.
EndTrip(t, s) ==
  /\ state' = [state EXCEPT ![t] = s]
  /\ FreeDriver(assigned[t])
  /\ simpy' = [op |-> "finish", trip |-> t]

\* The rider's patience runs out while its status is still "requesting", that is
\* until the executor reports the driver en route.  MatchingServer.cancel_trip
\* does nothing for a trip that is not registered (yet).
GiveUp(t) ==
  /\ simpy = Idle
  /\ t \in Impatient
  /\ rider[t] = "requesting"
  /\ rider' = [rider EXCEPT ![t] = "idle"]
  /\ demand' = LessDemand
  /\ \/ /\ t \notin active
        /\ UNCHANGED <<state, driverVars, simpy, reserved, cand, retry>>
     \/ /\ t \in active
        /\ EndTrip(t, "cancelled")
        /\ reserved' = reserved \ {assigned[t]}
        /\ cand' = [cand EXCEPT ![t] = {}]
        /\ retry' = retry \ {t}
  /\ UNCHANGED <<seq, assigned, active, queued, thinking, timerVars, searchVars, exec>>

\* Mutant: the ended trip stays in _active_trips.
Bug_FinishTrip(t) ==
  /\ simpy = [op |-> "finish", trip |-> t]
  /\ reserved' = reserved \ {assigned[t]}
  /\ simpy' = Idle
  /\ UNCHANGED <<tripVars, active, cand, retry, queued, thinking, timerVars, searchVars,
                 driverVars, exec, rider, demand>>

\* MatchingServer.complete_trip: out of _active_trips, and the "safety net" drops
\* the reservation of the trip's driver.
FinishTrip(t) ==
  /\ simpy = [op |-> "finish", trip |-> t]
  /\ active' = active \ {t}
  /\ reserved' = reserved \ {assigned[t]}
  /\ simpy' = Idle
  /\ UNCHANGED <<tripVars, cand, retry, queued, thinking, timerVars, searchVars,
                 driverVars, exec, rider, demand>>

\* DriverAgent.run: a shift ends only between trips (an offer under consideration
\* does not hold the driver back), and starts again later.
ChangeShift(d) ==
  /\ simpy = Idle
  /\ \/ /\ index[d] # "absent" /\ activeTrip[d] = NoTrip
        /\ index' = [index EXCEPT ![d] = "absent"]
     \/ /\ index[d] = "absent"
        /\ index' = [index EXCEPT ![d] = "available"]
  /\ UNCHANGED <<tripVars, active, reserved, cand, retry, queued, thinking, timerVars,
                 searchVars, activeTrip, exec, rider, demand, simpy>>

--------------------------------------------------------------------------------
(* The SimPy thread: TripExecutor *)

\* What an executor step leaves alone.
execRest == <<seq, assigned, active, reserved, cand, retry, queued, thinking, timerVars,
              searchVars, demand>>

\* Head of _drive_to_pickup; transition_to raises if the trip was cancelled.
StartPickup(t) ==
  /\ simpy = Idle
  /\ exec[t] = "started"
  /\ IF CanTransition(state[t], "en_route_pickup")
       THEN /\ exec' = [exec EXCEPT ![t] = "pickup_route"]
            /\ state' = [state EXCEPT ![t] = "en_route_pickup"]
            /\ index' = IndexStatus(assigned[t], "en_route_pickup")
       ELSE /\ exec' = [exec EXCEPT ![t] = "ended"]
            /\ UNCHANGED <<state, index>>
  /\ UNCHANGED <<activeTrip, rider, simpy, execRest>>

\* The route to the pickup is there: the driver sets off and the rider is told.
\* Whether the trip was cancelled meanwhile is not asked.
DriveToPickup(t) ==
  /\ simpy = Idle
  /\ exec[t] = "pickup_route"
  /\ exec' = [exec EXCEPT ![t] = "to_pickup"]
  /\ rider' = [rider EXCEPT ![t] = IF @ = "requesting" THEN "awaiting_pickup" ELSE @]
  /\ UNCHANGED <<state, driverVars, simpy, execRest>>

\* A cancellation by the executor itself: the driver before pickup, or either
\* party during the drive to the destination.
CancelByExecutor(t) ==
  /\ simpy = Idle
  /\ \/ exec[t] = "pickup_route"
     \/ exec[t] = "to_dropoff" /\ state[t] = "in_transit"
  /\ exec' = [exec EXCEPT ![t] = "ended"]
  /\ rider' = [rider EXCEPT ![t] = "idle"]
  /\ EndTrip(t, "cancelled")
  /\ UNCHANGED execRest

\* No route, or OSRM out of retries: the exception ends the process, nothing is
\* cleaned up.
RouteFails(t) ==
  /\ simpy = Idle
  /\ exec[t] \in {"pickup_route", "to_dropoff"}
  /\ exec' = [exec EXCEPT ![t] = "failed"]
  /\ UNCHANGED <<state, driverVars, rider, simpy, execRest>>

\* _wait_for_rider.
ArriveAtPickup(t) ==
  /\ simpy = Idle
  /\ exec[t] = "to_pickup" /\ CanTransition(state[t], "at_pickup")
  /\ exec' = [exec EXCEPT ![t] = "waiting"]
  /\ state' = [state EXCEPT ![t] = "at_pickup"]
  /\ UNCHANGED <<driverVars, rider, simpy, execRest>>

\* _start_trip.
StartTrip(t) ==
  /\ simpy = Idle
  /\ exec[t] = "waiting" /\ CanTransition(state[t], "in_transit")
  /\ exec' = [exec EXCEPT ![t] = "to_dropoff"]
  /\ state' = [state EXCEPT ![t] = "in_transit"]
  /\ index' = IndexStatus(assigned[t], "on_trip")
  /\ rider' = [rider EXCEPT ![t] = "on_trip"]
  /\ UNCHANGED <<activeTrip, simpy, execRest>>

\* execute() notices between two phases that the trip was cancelled.
ExecutorStops(t) ==
  /\ simpy = Idle
  /\ exec[t] \in {"to_pickup", "waiting", "to_dropoff"} /\ state[t] = "cancelled"
  /\ exec' = [exec EXCEPT ![t] = "ended"]
  /\ UNCHANGED <<state, driverVars, rider, simpy, execRest>>

\* _complete_trip.
CompleteTrip(t) ==
  /\ simpy = Idle
  /\ exec[t] = "to_dropoff" /\ CanTransition(state[t], "completed")
  /\ exec' = [exec EXCEPT ![t] = "ended"]
  /\ rider' = [rider EXCEPT ![t] = "idle"]
  /\ EndTrip(t, "completed")
  /\ UNCHANGED execRest

--------------------------------------------------------------------------------
EventLoop(t) == RegisterTrip(t) \/ OfferFirst(t) \/ RetrySearch(t) \/ RetryOffer(t)

Executor(t) ==
  \/ StartPickup(t) \/ DriveToPickup(t) \/ CancelByExecutor(t) \/ RouteFails(t)
  \/ ArriveAtPickup(t) \/ StartTrip(t) \/ ExecutorStops(t) \/ CompleteTrip(t)

Responds(o) == AnswerMoot(o) \/ Accept(o) \/ Reject(o)

Next ==
  \/ \E t \in Trips : \/ EventLoop(t) \/ RequestTrip(t) \/ GiveUp(t)
                      \/ ContinueCycle(t) \/ FinishTrip(t) \/ Executor(t)
  \/ StartPending
  \/ \E o \in thinking : Responds(o)
  \/ \E x \in timers : TimerFires(x)
  \/ \E d \in ShiftWorkers : ChangeShift(d)

Spec == Init /\ [][Next]_vars

--------------------------------------------------------------------------------
(* Safety *)

\* Every variable has its type.
TypeOK ==
  /\ state \in [Trips -> TripState \cup {"none"}]
  /\ seq \in [Trips -> Nat]
  /\ assigned \in [Trips -> Drivers \cup {NoDriver}]
  /\ active \subseteq Trips /\ retry \subseteq Trips
  /\ reserved \subseteq Drivers
  /\ cand \in [Trips -> SUBSET Drivers]
  /\ queued \subseteq Offer /\ thinking \subseteq Offer /\ timers \subseteq Offer
  /\ entry \in [Trips -> Offer \cup {NoOffer}]
  /\ match \in [Trips -> {"none", "routing", "finding", "ended"}]
  /\ found \in [Trips -> SUBSET Drivers]
  /\ retrying \in Trips \cup {NoTrip}
  /\ activeTrip \in [Drivers -> Trips \cup {NoTrip}]
  /\ index \in [Drivers -> {"available", "en_route_pickup", "on_trip", "absent"}]
  /\ exec \in [Trips -> ExecState]
  /\ rider \in [Trips -> {"idle", "requesting", "awaiting_pickup", "on_trip"}]
  /\ demand \in Nat
  /\ simpy \in [op : {"idle", "continue", "finish"}, trip : Trips \cup {NoTrip}]

\* No driver is left holding a trip that has ended or that belongs to someone
\* else: active_trip is cleared on every path that ends a trip, whichever of
\* rider, driver or executor ends it, and however late an answer made the match.
NoGhostTrip ==
  \A d \in Drivers : activeTrip[d] # NoTrip =>
    /\ assigned[activeTrip[d]] = d
    /\ state[activeTrip[d]] \in Engaged

\* A trip between two offers is in a search in flight or in the retry queue ...
OffersGoOn ==
  \A t \in Trips : state[t] \in Offerable =>
    \/ match[t] = "finding" \/ t \in retry
    \/ simpy = [op |-> "continue", trip |-> t]

\* ... a trip under offer has an unanswered offer of the current number ...
OfferIsOut ==
  \A t \in Trips : state[t] = "offer_sent" =>
    /\ t \in active
    /\ \E o \in queued \cup thinking : o.trip = t /\ o.seq = seq[t]

\* ... and a matched trip has an executor.
TripIsDriven ==
  \A t \in Trips : state[t] \in Engaged => exec[t] \notin {"none", "ended"}

\* Somebody is always responsible for an unfinished trip: no interleaving of
\* answers, timers, retries and cancellations drops one.
NoStrandedTrip == OffersGoOn /\ OfferIsOut /\ TripIsDriven

\* Whoever is reserved is being asked: a reservation without an unanswered offer
\* would take the driver out of matching for good.
NoLeakedReservation ==
  \A d \in reserved : \E o \in queued \cup thinking : o.driver = d

\* The surge input never counts a request that nobody is waiting on.
Waiting == {t \in Trips : rider[t] = "requesting" /\ assigned[t] = NoDriver}
NoPhantomDemand == demand <= Cardinality(Waiting)

\* A driver is asked about one trip at a time, and is on at most one trip.
NoDoubleBooking ==
  \A t, u \in Trips : t # u /\ state[t] \in Engaged /\ state[u] \in Engaged
                         => assigned[t] # assigned[u]

--------------------------------------------------------------------------------
(* What a step may never do *)

\* A trip belongs to one driver for good: no late answer, retry or timer hands a
\* matched trip to somebody else, nor restarts its executor.
AssignedOnce ==
  [][\A t \in Trips : assigned[t] # NoDriver =>
        /\ assigned'[t] = assigned[t]
        /\ exec'[t] = "started" => exec[t] = "started"]_<<assigned, exec>>

\* Every trip lives the life of Trip's state machine.
Lifecycle == INSTANCE TripLifecycle WITH Trips <- Trips, state <- state, seq <- seq
TripsFollowLifecycle == Lifecycle!Spec

--------------------------------------------------------------------------------
(* Liveness *)

\* The SimPy loop steps as long as the simulation runs, and every process it
\* holds is waiting for a timeout, so each of its steps is eventually taken; the
\* event loop resumes a coroutine whose OSRM call has come back (they time out).
\* Patience, cancellations, route failures and shifts are not assumed to happen.
Fairness ==
  /\ WF_vars(StartPending)
  /\ \A t \in Trips :
       /\ WF_vars(RegisterTrip(t)) /\ WF_vars(OfferFirst(t)) /\ WF_vars(RetryOffer(t))
       /\ WF_vars(ContinueCycle(t)) /\ WF_vars(FinishTrip(t))
       /\ WF_vars(Executor(t))
  /\ \A t \in Trips, d \in Drivers :
       /\ WF_vars(\E o \in thinking : o.trip = t /\ o.driver = d /\ Responds(o))
       /\ WF_vars(\E x \in timers : x.trip = t /\ x.driver = d /\ TimerFires(x))

FairSpec == Spec /\ Fairness

\* An offer never hangs: whether answered, late, expired or cancelled, the trip
\* leaves OFFER_SENT.
OfferResolves == \A t \in Trips : (state[t] = "offer_sent") ~> (state[t] # "offer_sent")

\* A matched trip ends and leaves the active set, unless its route failed.
MatchedTripEnds ==
  \A t \in Trips : (state[t] \in Engaged) ~> (t \notin active \/ exec[t] = "failed")

\* No driver stays out of matching: a reservation ends.
ReservationEnds == \A d \in Drivers : (d \in reserved) ~> (d \notin reserved)
================================================================================
