------------------------------ MODULE PuppetTrips ------------------------------
(***************************************************************************)
(* Puppet agents: drivers and riders that only move when a client of the   *)
(* control-plane API says so (services/simulation/src: api/routes/         *)
(* puppet.py, the puppet parts of matching/matching_server.py, puppet/     *)
(* drive_controller.py).                                                   *)
(*                                                                         *)
(* Every call runs on a thread of the server's pool, but a rider's request *)
(* for a trip, which the event loop runs; the event loop also searches     *)
(* again for trips that found no driver.  A call is cut into steps where   *)
(* it waits: for the routing service, for a drive it stops, or between two *)
(* updates another thread may come between.  A driver's drive is a thread  *)
(* of its own and ends by calling into the same code.                      *)
(* The code waits for a stopped drive no longer than 2 s; a thread that is *)
(* still asleep then returns when it wakes and signals nothing.            *)
(*                                                                         *)
(* Clients call one at a time about one driver or one trip, as the         *)
(* documented curl script does; calls about different ones overlap.        *)
(***************************************************************************)
EXTENDS Naturals, FiniteSets, TripStates

CONSTANTS
    Trips, Drivers, Riders, Clients,
    None,
    Races   \* which of the following may happen:
            \*   "early_start"  a client starts a trip before the driver's arrival
            \*   "late_cancel"  a trip is cancelled in the last interval of its
            \*                  drive, or while the event loop searches for it
            \*   "hand_over"    an offer reaches a driver between two updates of
            \*                  a step that takes or ends the driver's trip

ASSUME PuppetAssumption ==
    /\ None \notin Trips \cup Drivers \cup Riders
    /\ Races \subseteq {"early_start", "late_cancel", "hand_over"}
    /\ IsFiniteSet(Drivers) /\ Cardinality(Drivers) <= 5  \* max_attempts

VARIABLES
    state, owner, assigned,     \* Trip.state, rider_id, driver_id
    active,                     \* _active_trips
    reserved,                   \* _reserved_drivers
    pending,                    \* _pending_offers: the trip offered to a driver
    cand,                       \* _pending_offer_candidates: drivers not yet tried
    retry,                      \* _retry_queue
    driver,                     \* status and active_trip of the drivers
    index,                      \* their status in the geospatial index
    rider,                      \* status and active_trip of the riders
    drive,                      \* the drivers' drive threads
    call,                       \* the calls the clients are in, where they wait
    search                      \* the trip retry_pending_matches is searching for

tripVars  == <<state, owner, assigned, active>>
offerVars == <<reserved, pending, cand, retry>>
agentVars == <<driver, index, rider>>
vars == <<tripVars, offerVars, agentVars, drive, call, search>>

NoCall   == [pc |-> "idle", d |-> None, t |-> None, leg |-> "pickup", found |-> {}]
NoDrive  == [phase |-> "none", leg |-> "pickup", t |-> None, stop |-> FALSE]
NoSearch == [t |-> None, found |-> {}]

(* A pickup drive that accept-offer starts signals the arrival ("auto"), one
   the client starts does not. *)
Legs == {"auto", "pickup", "dest"}
Status(leg) == IF leg = "dest" THEN "on_trip" ELSE "en_route_pickup"

(* Every variable holds what its declaration says. *)
TypeOK ==
    /\ state \in [Trips -> TripState \cup {"none"}]
    /\ owner \in [Trips -> Riders \cup {None}] /\ assigned \in [Trips -> Drivers \cup {None}]
    /\ active \subseteq Trips /\ retry \subseteq active /\ reserved \subseteq Drivers
    /\ pending \in [Drivers -> Trips \cup {None}]
    /\ cand \in [Trips -> SUBSET Drivers]
    /\ driver \in [Drivers -> [status : {"offline", "available", "en_route_pickup", "on_trip"},
                               trip : Trips \cup {None}]]
    /\ index \in [Drivers -> {"absent", "available", "en_route_pickup", "on_trip"}]
    /\ rider \in [Riders -> [status : {"offline", "requesting", "awaiting_pickup", "on_trip",
                                       "idle"},
                             trip : Trips \cup {None}]]
    /\ drive \in [Drivers -> [phase : {"none", "running", "last", "ending"}, leg : Legs,
                              t : Trips \cup {None}, stop : BOOLEAN]]
    /\ call \in [Clients -> [pc : {"idle", "assign", "route", "launch", "close", "cancel",
                                   "search", "offer"},
                             d : Drivers \cup {None}, t : Trips \cup {None}, leg : Legs,
                             found : SUBSET Drivers]]
    /\ search \in [t : Trips \cup {None}, found : SUBSET Drivers]

(* The agents have been created: offline, waiting for calls. *)
Init ==
    /\ state = [t \in Trips |-> "none"]
    /\ owner = [t \in Trips |-> None] /\ assigned = [t \in Trips |-> None]
    /\ active = {} /\ reserved = {} /\ retry = {}
    /\ pending = [d \in Drivers |-> None]
    /\ cand = [t \in Trips |-> {}]
    /\ driver = [d \in Drivers |-> [status |-> "offline", trip |-> None]]
    /\ index = [d \in Drivers |-> "absent"]
    /\ rider = [r \in Riders |-> [status |-> "offline", trip |-> None]]
    /\ drive = [d \in Drivers |-> NoDrive]
    /\ call = [c \in Clients |-> NoCall]
    /\ search = NoSearch

-----------------------------------------------------------------------------
(* Calls and agents *)

Calling(c) == call[c].pc # "idle"

(* No call is about driver d (if any) or trip t. *)
Apart(d, t) == \A c \in Clients : Calling(c) => /\ d = None \/ call[c].d # d
                                                /\ t = None \/ call[c].t # t

Begin(c, pc, d, t, leg) ==
    /\ ~Calling(c) /\ Apart(d, t)
    /\ call' = [call EXCEPT ![c] = [pc |-> pc, d |-> d, t |-> t, leg |-> leg, found |-> {}]]
Continue(c, pc) == call' = [call EXCEPT ![c].pc = pc]
Done(c) == call' = [call EXCEPT ![c] = NoCall]

(* DriverGeospatialIndex.update_driver_status: ignored for absent drivers *)
Indexed(d, s) == [index EXCEPT ![d] = IF @ = "absent" THEN @ ELSE s]

SetDriver(d, s, t) ==
    /\ driver' = [driver EXCEPT ![d] = [status |-> s, trip |-> t]]
    /\ index' = Indexed(d, s)

SetRider(r, s, t) == rider' = [rider EXCEPT ![r] = [status |-> s, trip |-> t]]

GoOnline(d) ==
    /\ Apart(d, None) /\ driver[d].status = "offline"
    /\ driver' = [driver EXCEPT ![d].status = "available"]
    /\ index' = [index EXCEPT ![d] = "available"]
    /\ UNCHANGED <<tripVars, offerVars, rider, drive, call, search>>

(* A driver may leave with an offer pending. *)
GoOffline(d) ==
    /\ Apart(d, None) /\ driver[d] = [status |-> "available", trip |-> None]
    /\ driver' = [driver EXCEPT ![d].status = "offline"]
    /\ index' = [index EXCEPT ![d] = "absent"]
    /\ UNCHANGED <<tripVars, offerVars, rider, drive, call, search>>

-----------------------------------------------------------------------------
(* Searching and offering *)

(* find_nearby_drivers *)
Eligible == {d \in Drivers : /\ index[d] = "available"
                             /\ d \notin reserved /\ driver[d].trip = None}

(* A thread is between two updates of the driver's trip. *)
InHand(d) == \/ drive[d].phase = "ending"
             \/ \E c \in Clients : call[c].d = d /\ call[c].pc \in {"assign", "close"}

(* Mutant: a trip whose candidates are all busy is not queued again. *)
Bug_Offer(t, s, candidates, res, pend) ==
    LET free == {d \in candidates : d \notin res /\ driver[d].trip = None}
    IN  /\ "hand_over" \in Races \/ \A d \in candidates : ~InHand(d)
        /\ active' = active \cup {t}
        /\ IF free = {}
           THEN /\ state' = [state EXCEPT ![t] = s]
                /\ reserved' = res /\ pending' = pend
                /\ cand' = [cand EXCEPT ![t] = {}]
                /\ retry' = retry \ {t}
           ELSE \E d \in free, skipped \in SUBSET (candidates \ free) :
                /\ reserved' = res \cup {d}
                /\ cand' = [cand EXCEPT ![t] = candidates \ (skipped \cup {d})]
                /\ retry' = retry \ {t}
                /\ IF s \in Offerable
                   THEN /\ state' = [state EXCEPT ![t] = "offer_sent"]
                        /\ pending' = [pend EXCEPT ![d] = t]
                   ELSE /\ state' = [state EXCEPT ![t] = s]
                        /\ pending' = pend

(* send_offer_cycle and _continue_deferred_offer_cycle for trip t in state s:
   the first of the candidates, in the order of their rank, that is neither
   reserved nor on a trip is reserved and gets the offer; if there is none
   the trip waits for the next search.  A trip that has ended cannot take an
   offer (transition_to raises), but the driver has been reserved. *)
Offer(t, s, candidates, res, pend) ==
    LET free == {d \in candidates : d \notin res /\ driver[d].trip = None}
    IN  /\ "hand_over" \in Races \/ \A d \in candidates : ~InHand(d)
        /\ active' = active \cup {t}
        /\ IF free = {}
           THEN /\ state' = [state EXCEPT ![t] = s]
                /\ reserved' = res /\ pending' = pend
                /\ cand' = [cand EXCEPT ![t] = {}]
                /\ retry' = retry \cup {t}
           ELSE \E d \in free, skipped \in SUBSET (candidates \ free) :
                /\ reserved' = res \cup {d}
                /\ cand' = [cand EXCEPT ![t] = candidates \ (skipped \cup {d})]
                /\ retry' = retry \ {t}
                /\ IF s \in Offerable
                   THEN /\ state' = [state EXCEPT ![t] = "offer_sent"]
                        /\ pending' = [pend EXCEPT ![d] = t]
                   ELSE /\ state' = [state EXCEPT ![t] = s]
                        /\ pending' = pend

(* request-trip: the trip is known at once, then drivers are searched, their
   distance is asked of the routing service, and the best gets the offer. *)
Request(c, r, t) ==
    /\ rider[r].status = "offline" /\ state[t] = "none"
    /\ \A e \in Clients : call[e].t # None => owner[call[e].t] # r
    /\ Begin(c, "search", None, t, "pickup")
    /\ owner' = [owner EXCEPT ![t] = r]
    /\ UNCHANGED <<state, assigned, active, offerVars, agentVars, drive, search>>

RequestSearch(c) ==
    /\ call[c].pc = "search"
    /\ state' = [state EXCEPT ![call[c].t] = "requested"]
    /\ active' = active \cup {call[c].t}
    /\ call' = [call EXCEPT ![c].pc = "offer", ![c].found = Eligible]
    /\ UNCHANGED <<owner, assigned, offerVars, agentVars, drive, search>>

RequestOffer(c) ==
    LET t == call[c].t
    IN  /\ call[c].pc = "offer"
        /\ \E found \in SUBSET call[c].found :  \* the others are too far away
             Offer(t, state[t], found, reserved, pending)
        /\ SetRider(owner[t], "requesting", t)
        /\ Done(c)
        /\ UNCHANGED <<owner, assigned, driver, index, drive, search>>

(* retry_pending_matches, for one trip that is due *)
Search(t) ==
    /\ search = NoSearch /\ t \in retry
    /\ "late_cancel" \in Races \/ Apart(None, t)
    /\ IF t \in active THEN search' = [t |-> t, found |-> Eligible] /\ UNCHANGED retry
                       ELSE retry' = retry \ {t} /\ UNCHANGED search
    /\ UNCHANGED <<tripVars, reserved, pending, cand, agentVars, drive, call>>

SearchEnds ==
    LET t == search.t
    IN  /\ t # None
        /\ \E found \in SUBSET search.found :
             IF found = {}
             THEN /\ retry' = retry \cup {t}
                  /\ UNCHANGED <<state, active, reserved, pending, cand>>
             ELSE Offer(t, state[t], found, reserved, pending)
        /\ search' = NoSearch
        /\ UNCHANGED <<owner, assigned, agentVars, drive, call>>

(* accept-offer and reject-offer are for a driver who could take the trip,
   force-offer-timeout for any driver with an offer. *)
MayAnswer(d)  == driver[d].status = "available" /\ pending[d] # None
MayTimeOut(d) == pending[d] # None

(* Mutant: the driver stays reserved. *)
Bug_Decline(d, n) ==
    LET t    == pending[d]
        res  == reserved
        pend == [pending EXCEPT ![d] = None]
    IN  /\ IF n = "offer_rejected" THEN MayAnswer(d) ELSE MayTimeOut(d)
        /\ Apart(d, t)
        /\ index' = Indexed(d, "available")
        /\ IF state[t] = "offer_sent"
           THEN Offer(t, n, cand[t], res, pend)
           ELSE /\ reserved' = res /\ pending' = pend
                /\ cand' = IF t \in active THEN cand ELSE [cand EXCEPT ![t] = {}]
                /\ UNCHANGED <<state, active, retry>>
        /\ UNCHANGED <<owner, assigned, driver, rider, drive, call, search>>

(* reject-offer (n = "offer_rejected") and force-offer-timeout (n =
   "offer_expired"): the driver is released and the next candidate asked. *)
Decline(d, n) ==
    LET t    == pending[d]
        res  == reserved \ {d}
        pend == [pending EXCEPT ![d] = None]
    IN  /\ IF n = "offer_rejected" THEN MayAnswer(d) ELSE MayTimeOut(d)
        /\ Apart(d, t)
        /\ index' = Indexed(d, "available")
        /\ IF state[t] = "offer_sent"
           THEN Offer(t, n, cand[t], res, pend)
           ELSE /\ reserved' = res /\ pending' = pend
                /\ cand' = IF t \in active THEN cand ELSE [cand EXCEPT ![t] = {}]
                /\ UNCHANGED <<state, active, retry>>
        /\ UNCHANGED <<owner, assigned, driver, rider, drive, call, search>>

(* accept-offer: the offer is taken out and the trip looked up ... *)
Accept(c, d) ==
    LET t == pending[d]
    IN  /\ MayAnswer(d)
        /\ pending' = [pending EXCEPT ![d] = None]
        /\ IF t \in active
           THEN /\ Begin(c, "assign", d, t, "auto")
                /\ UNCHANGED <<reserved, index>>
           ELSE /\ ~Calling(c) /\ Apart(d, t) /\ UNCHANGED call
                /\ reserved' = reserved \ {d}
                /\ index' = Indexed(d, "available")
        /\ UNCHANGED <<tripVars, cand, retry, driver, rider, drive, search>>

(* ... then driver, trip and rider are told, in this order. *)
Assign(c) ==
    LET d == call[c].d  t == call[c].t  r == owner[t]
    IN  /\ call[c].pc = "assign"
        /\ reserved' = reserved \ {d}
        /\ SetDriver(d, "en_route_pickup", t)
        /\ assigned' = [assigned EXCEPT ![t] = d]
        /\ IF CanTransition(state[t], "driver_assigned")
           THEN /\ state' = [state EXCEPT ![t] = "en_route_pickup"]
                /\ rider' = [rider EXCEPT ![r].status = IF @ = "requesting"
                                                        THEN "awaiting_pickup" ELSE @]
                /\ Continue(c, "route")
           ELSE Done(c) /\ UNCHANGED <<state, rider>>
        /\ UNCHANGED <<owner, active, pending, cand, retry, drive, search>>

-----------------------------------------------------------------------------
(* Driving *)

(* drive-to-pickup and drive-to-destination *)
DriveTo(c, d, leg) ==
    /\ leg # "auto" /\ driver[d].status = Status(leg) /\ driver[d].trip # None
    /\ Begin(c, "route", d, driver[d].trip, leg)
    /\ UNCHANGED <<tripVars, offerVars, agentVars, drive, search>>

(* start_puppet_drive_to_pickup and _to_destination: the driver's last drive
   is stopped and waited for, the route asked for ... *)
Route(c) ==
    LET d == call[c].d
    IN  /\ call[c].pc = "route"
        /\ IF call[c].t \in active /\ driver[d].status = Status(call[c].leg)
           THEN /\ drive' = [drive EXCEPT ![d].stop = @ \/ drive[d].phase # "none"]
                /\ Continue(c, "launch")
           ELSE Done(c) /\ UNCHANGED drive
        /\ UNCHANGED <<tripVars, offerVars, agentVars, search>>

(* ... and the thread started, *)
Launch(c) ==
    LET d == call[c].d
    IN  /\ call[c].pc = "launch" /\ drive[d].phase = "none"
        /\ drive' = [drive EXCEPT ![d] = [phase |-> "running", leg |-> call[c].leg,
                                          t |-> call[c].t, stop |-> FALSE]]
        /\ Done(c)
        /\ UNCHANGED <<tripVars, offerVars, agentVars, search>>

(* unless the routing service fails. *)
LaunchFails(c) ==
    /\ call[c].pc = "launch" /\ drive[call[c].d].phase = "none"
    /\ Done(c)
    /\ UNCHANGED <<tripVars, offerVars, agentVars, drive, search>>

(* The drive thread looks for a stop before every interval, the last one
   included; what comes after cannot be stopped any more. *)
DriveOn(d) ==
    /\ drive[d].phase = "running"
    /\ drive' = [drive EXCEPT ![d] = IF drive[d].stop THEN NoDrive
                                     ELSE [drive[d] EXCEPT !.phase = "last"]]
    /\ UNCHANGED <<tripVars, offerVars, agentVars, call, search>>

(* Mutant: the driver index is not told. *)
Bug_Leave(d, t) ==
    /\ driver' = [driver EXCEPT ![d] = [status |-> "available", trip |-> None]]
    /\ UNCHANGED index
    /\ SetRider(owner[t], "idle", None)

(* The driver is free again and the rider's trip over. *)
Leave(d, t) ==
    /\ SetDriver(d, "available", None)
    /\ SetRider(owner[t], "idle", None)

(* MatchingServer.complete_trip for a trip that ended in state s *)
Close(t, s) ==
    /\ state' = [state EXCEPT ![t] = s]
    /\ active' = active \ {t}
    /\ reserved' = reserved \ {assigned[t]}

(* The drive is over: _on_puppet_pickup_drive_complete, or the first half of
   signal_trip_completed *)
DriveArrives(d) ==
    LET t == drive[d].t  leg == drive[d].leg  ends == leg = "dest" /\ t \in active
    IN  /\ drive[d].phase = "last"
        /\ drive' = [drive EXCEPT ![d] = IF ends THEN [drive[d] EXCEPT !.phase = "ending"]
                                         ELSE NoDrive]
        /\ IF ends THEN Leave(d, t) ELSE UNCHANGED agentVars
        /\ state' = IF leg = "auto" /\ t \in active /\ state[t] = "en_route_pickup"
                    THEN [state EXCEPT ![t] = "at_pickup"] ELSE state
        /\ UNCHANGED <<owner, assigned, active, offerVars, call, search>>

(* The second half; an exception of the callback is only logged. *)
DriveCompletes(d) ==
    LET t == drive[d].t
    IN  /\ drive[d].phase = "ending"
        /\ IF CanTransition(state[t], "completed")
           THEN Close(t, "completed") ELSE UNCHANGED <<state, active, reserved>>
        /\ drive' = [drive EXCEPT ![d] = NoDrive]
        /\ UNCHANGED <<owner, assigned, pending, cand, retry, agentVars, call, search>>

-----------------------------------------------------------------------------
(* What the client says of the trip *)

(* arrive-pickup and start-trip, whose documented order ("after
   arrive-pickup") the route does not ask for *)
MayPickUp(d) == driver[d].status = "en_route_pickup" /\ driver[d].trip # None

Arrive(d) ==
    LET t == driver[d].trip
    IN  /\ MayPickUp(d) /\ Apart(d, t)
        /\ t \in active /\ CanTransition(state[t], "at_pickup")
        /\ state' = [state EXCEPT ![t] = "at_pickup"]
        /\ UNCHANGED <<owner, assigned, active, offerVars, agentVars, drive, call, search>>

(* start-trip: driver and rider are told before the trip is asked whether it
   can start; then the drive to the destination follows. *)
Start(c, d) ==
    LET t == driver[d].trip
    IN  /\ MayPickUp(d) /\ t \in active
        /\ "early_start" \in Races \/ state[t] = "at_pickup"
        /\ SetDriver(d, "on_trip", t)
        /\ rider' = [rider EXCEPT ![owner[t]].status = "on_trip"]
        /\ IF CanTransition(state[t], "in_transit")
           THEN /\ Begin(c, "route", d, t, "dest")
                /\ state' = [state EXCEPT ![t] = "in_transit"]
           ELSE ~Calling(c) /\ Apart(d, t) /\ UNCHANGED <<state, call>>
        /\ UNCHANGED <<owner, assigned, active, offerVars, drive, search>>

(* complete-trip: a drive that is under way goes on. *)
Complete(c, d) ==
    LET t == driver[d].trip
    IN  /\ t # None /\ driver[d].status = "on_trip" /\ t \in active
        /\ Begin(c, "close", d, t, "dest")
        /\ Leave(d, t)
        /\ UNCHANGED <<tripVars, offerVars, drive, search>>

CompleteTrip(c) ==
    LET t == call[c].t
    IN  /\ call[c].pc = "close"
        /\ IF CanTransition(state[t], "completed")
           THEN Close(t, "completed") ELSE UNCHANGED <<state, active, reserved>>
        /\ Done(c)
        /\ UNCHANGED <<owner, assigned, pending, cand, retry, agentVars, drive, search>>

(* Who may cancel trip t: cancel-trip of the driver and of the rider, and
   force-patience-timeout *)
DriverMayCancel(t) ==
    \E d \in Drivers : driver[d].trip = t /\ driver[d].status \in {"en_route_pickup", "on_trip"}
RiderMayCancel(t) ==
    LET r == rider[owner[t]]
    IN  r.trip = t /\ r.status \in {"requesting", "awaiting_pickup", "on_trip"}
PatienceMayEnd(t) == rider[owner[t]] = [status |-> "requesting", trip |-> t]

(* The drive of an assigned driver is told to stop ... *)
Cancel(c, t) ==
    LET d == assigned[t]
    IN  /\ t \in active
        /\ DriverMayCancel(t) \/ RiderMayCancel(t) \/ PatienceMayEnd(t)
        /\ \/ "late_cancel" \in Races
           \/ /\ d # None => drive[d].phase \notin {"last", "ending"}
              /\ search.t # t
        /\ Begin(c, "cancel", d, t, "pickup")
        /\ drive' = IF d = None THEN drive
                    ELSE [drive EXCEPT ![d].stop = @ \/ drive[d].phase # "none"]
        /\ UNCHANGED <<tripVars, offerVars, agentVars, search>>

(* Mutant: the trip is not taken out of the retry queue. *)
Bug_CancelTrip(c) ==
    LET d == call[c].d  t == call[c].t
    IN  /\ call[c].pc = "cancel"
        /\ d # None => drive[d].phase = "none"
        /\ IF d # None THEN Leave(d, t)
           ELSE SetRider(owner[t], "idle", None) /\ UNCHANGED <<driver, index>>
        /\ Close(t, "cancelled")
        /\ cand' = [cand EXCEPT ![t] = {}]
        /\ Done(c)
        /\ UNCHANGED <<owner, assigned, pending, retry, drive, search>>

(* ... and when it has, driver, rider and trip are told.  Trip.cancel does not
   ask in which state the trip is. *)
CancelTrip(c) ==
    LET d == call[c].d  t == call[c].t
    IN  /\ call[c].pc = "cancel"
        /\ d # None => drive[d].phase = "none"
        /\ IF d # None THEN Leave(d, t)
           ELSE SetRider(owner[t], "idle", None) /\ UNCHANGED <<driver, index>>
        /\ Close(t, "cancelled")
        /\ cand' = [cand EXCEPT ![t] = {}]
        /\ retry' = retry \ {t}
        /\ Done(c)
        /\ UNCHANGED <<owner, assigned, pending, drive, search>>

-----------------------------------------------------------------------------
Next ==
    \/ \E c \in Clients :
         \/ \E r \in Riders, t \in Trips : Request(c, r, t)
         \/ \E t \in Trips : Cancel(c, t)
         \/ \E d \in Drivers : \/ Accept(c, d) \/ Start(c, d) \/ Complete(c, d)
                               \/ \E leg \in Legs : DriveTo(c, d, leg)
         \/ RequestSearch(c) \/ RequestOffer(c) \/ Assign(c)
         \/ Route(c) \/ Launch(c) \/ LaunchFails(c)
         \/ CompleteTrip(c) \/ CancelTrip(c)
    \/ \E d \in Drivers :
         \/ GoOnline(d) \/ GoOffline(d) \/ Arrive(d)
         \/ \E n \in {"offer_rejected", "offer_expired"} : Decline(d, n)
         \/ DriveOn(d) \/ DriveArrives(d) \/ DriveCompletes(d)
    \/ \E t \in Trips : Search(t)
    \/ SearchEnds

Spec == Init /\ [][Next]_vars

-----------------------------------------------------------------------------
(* Properties *)

(* No thread is in the middle of something about driver d or trip t. *)
Quiet(d, t) == Apart(d, t) /\ drive[d].phase # "ending"

(* Driver, rider, trip and index tell one story: a driver with a trip is the
   one the trip names, both and the rider are as far as the trip is, a trip
   under way has its driver, and the index shows what the driver does - after
   manual calls and drives that end by themselves alike (signal_* and
   cancel_trip change them one after the other). *)
AgentsFollowTrip ==
    /\ \A d \in Drivers :
         LET t == driver[d].trip
         IN  t # None /\ Quiet(d, t) =>
                /\ t \in active /\ assigned[t] = d
                /\ state[t] \in Engaged
                /\ driver[d].status = Status(IF state[t] = "in_transit" THEN "dest" ELSE "pickup")
                /\ rider[owner[t]].trip = t
                /\ rider[owner[t]].status = IF state[t] = "in_transit" THEN "on_trip"
                                            ELSE "awaiting_pickup"
    /\ \A t \in active : state[t] \in Engaged /\ Quiet(assigned[t], t)
                            => driver[assigned[t]].trip = t
    /\ \A d \in Drivers : index[d] = IF driver[d].status = "offline" THEN "absent"
                                     ELSE driver[d].status

(* A driver is kept from other trips exactly as long as an offer waits for
   the driver's answer ("Reservation stays active - puppet accept/reject
   handles release", send_offer): no reservation outlives its offer, whatever
   happens to the trip, and no offer loses its reservation. *)
ReservedIffOffered ==
    \A d \in Drivers : Apart(d, None) => (d \in reserved <=> pending[d] # None)

(* A trip that waits for a driver is not forgotten: some driver holds its
   offer, or it is queued for the next search, or a call is at work on it. *)
TripHasNextStep ==
    \A t \in active : Apart(None, t) /\ search.t # t =>
        /\ state[t] = "offer_sent" => \E d \in Drivers : pending[d] = t
        /\ state[t] \in Offerable => t \in retry
=============================================================================
