----------------------------- MODULE PuppetProofs -----------------------------
(***************************************************************************)
(* Theorems about PuppetTrips, for any trips, drivers, riders and clients. *)
(* Types need no more than that nobody cancels a trip in the middle of a   *)
(* search or of the end of its drive; the properties of trips and agents   *)
(* rest on an invariant that says of every trip, offer, driver, drive and  *)
(* call how far it may be from the others, when no calls race.             *)
(***************************************************************************)
EXTENDS PuppetTrips, TLAPS

Waiting == Offerable \cup {"offer_sent"}
Moving  == Engaged \ {"driver_assigned"}

\* Some client's call is at one of the places pcs for trip t.
OnCall(t, pcs) == \E c \in Clients : call[c].t = t /\ call[c].pc \in pcs

-----------------------------------------------------------------------------
(* Calls and the queue *)

CallShape ==
    \A c \in Clients :
        /\ call[c].pc = "idle" => call[c].t = None /\ call[c].d = None
        /\ call[c].pc # "idle" => call[c].t \in Trips
        /\ call[c].pc \in {"assign", "route", "launch", "close"} => call[c].d \in Drivers
        /\ call[c].pc \in {"search", "offer"} => call[c].d = None

\* No two calls are about one trip, or about one driver.
OneCallEach ==
    \A b, c \in Clients : b # c /\ Calling(b) /\ Calling(c) =>
        call[b].t # call[c].t /\ (call[b].d = None \/ call[b].d # call[c].d)

\* A trip that is queued, searched for or requested has had no driver yet.
QueueInv ==
    /\ \A t \in retry : state[t] \in Offerable
    /\ search.t # None => search.t \in active /\ state[search.t] \in Offerable
    /\ \A c \in Clients :
         /\ call[c].pc = "search" => state[call[c].t] = "none"
         /\ call[c].pc = "offer" => state[call[c].t] = "requested" /\ call[c].t \in active
         /\ call[c].pc \in {"search", "offer", "cancel"} => call[c].t # search.t

\* A drive is the drive of some trip.
DriveShape == \A d \in Drivers : drive[d].phase # "none" => drive[d].t \in Trips

TypeInv == TypeOK /\ CallShape /\ OneCallEach /\ QueueInv

-----------------------------------------------------------------------------
(* Trips, offers, agents, drives and calls *)

\* The driver of a trip under way is on it, or the trip is being completed.
OnIt(t) ==
    \/ driver[assigned[t]].trip = t
    \/ OnCall(t, {"close"})
    \/ drive[assigned[t]].phase = "ending" /\ drive[assigned[t]].t = t

TripOK(t) ==
    /\ t \in active <=> state[t] \in Waiting \cup Moving
    /\ state[t] # "driver_assigned"
    /\ state[t] \in Waiting \cup {"none"} => assigned[t] = None
    /\ state[t] \in Moving => assigned[t] \in Drivers /\ OnIt(t)
    /\ state[t] \in Offerable => t \in retry \/ OnCall(t, {"offer"})
    /\ state[t] = "offer_sent" => OnCall(t, {"assign"}) \/ \E d \in Drivers : pending[d] = t
    /\ state[t] \in Waiting =>
         OnCall(t, {"offer"}) \/ rider[owner[t]] = [status |-> "requesting", trip |-> t]

\* Every trip has a rider of its own.
OwnerOK(t) ==
    /\ state[t] # "none" \/ OnCall(t, {"search"}) => owner[t] \in Riders
    /\ owner[t] # None => \/ OnCall(t, {"search", "offer"})
                          \/ rider[owner[t]].status # "offline"
    /\ \A u \in Trips : owner[t] = owner[u] /\ owner[t] # None => t = u

\* A driver is reserved for the one offer that waits, or is being accepted.
Accepting(d) == \E c \in Clients : call[c].pc = "assign" /\ call[c].d = d
OfferOK(d) ==
    /\ d \in reserved <=> pending[d] # None \/ Accepting(d)
    /\ pending[d] # None =>
         /\ driver[d].trip = None
         /\ state[pending[d]] \in {"offer_sent"} \cup Terminal
         /\ ~OnCall(pending[d], {"assign"})
         /\ \A e \in Drivers : pending[e] = pending[d] => e = d

DriverOK(d) ==
    LET t   == driver[d].trip
        far == state[t] = "in_transit"
    IN  /\ t = None => driver[d].status \in {"offline", "available"}
        /\ t # None =>
             /\ state[t] \in Moving /\ assigned[t] = d
             /\ driver[d].status = Status(IF far THEN "dest" ELSE "pickup")
             /\ rider[owner[t]].trip = t
             /\ rider[owner[t]].status = IF far THEN "on_trip" ELSE "awaiting_pickup"
        /\ index[d] = IF driver[d].status = "offline" THEN "absent" ELSE driver[d].status

\* A trip only its assigned driver can be driving, and far enough for the leg.
Drives(d, t, leg) ==
    /\ assigned[t] = d
    /\ state[t] \in Terminal \cup (IF leg = "dest" THEN {"in_transit"} ELSE Moving)

DriveOK(d) ==
    /\ drive[d].phase # "none" => Drives(d, drive[d].t, drive[d].leg)
    /\ drive[d].phase = "ending" =>
         drive[d].leg = "dest" /\ driver[d].trip = None /\ d \notin reserved

CallOK(c) ==
    LET d == call[c].d  t == call[c].t
    IN  /\ call[c].pc = "assign" =>
             /\ state[t] = "offer_sent" /\ pending[d] = None /\ call[c].leg = "auto"
             /\ driver[d].status = "available" /\ driver[d].trip = None
        /\ call[c].pc \in {"route", "launch"} => Drives(d, t, call[c].leg)
        /\ call[c].pc = "close" =>
             /\ Drives(d, t, "dest") /\ d \notin reserved
             /\ driver[d].status = "available" /\ driver[d].trip = None
        /\ call[c].pc = "cancel" =>
             /\ d = assigned[t] /\ state[t] \in Waiting \cup Moving
             /\ d # None =>
                  /\ driver[d].trip = t
                  /\ drive[d].phase # "none" => drive[d].phase = "running" /\ drive[d].stop

PInv == /\ \A t \in Trips : TripOK(t) /\ OwnerOK(t)
        /\ \A d \in Drivers : OfferOK(d) /\ DriverOK(d) /\ DriveOK(d)
        /\ \A c \in Clients : CallOK(c)
-----------------------------------------------------------------------------
(* Types *)

DriverRecs == [status : {"offline", "available", "en_route_pickup", "on_trip"},
               trip : Trips \cup {None}]
RiderRecs  == [status : {"offline", "requesting", "awaiting_pickup", "on_trip", "idle"},
               trip : Trips \cup {None}]
DriveRecs  == [phase : {"none", "running", "last", "ending"}, leg : Legs,
               t : Trips \cup {None}, stop : BOOLEAN]
CallRecs   == [pc : {"idle", "assign", "route", "launch", "close", "cancel", "search", "offer"},
               d : Drivers \cup {None}, t : Trips \cup {None}, leg : Legs,
               found : SUBSET Drivers]
SearchRecs == [t : Trips \cup {None}, found : SUBSET Drivers]

TripTypes ==
    /\ state \in [Trips -> TripState \cup {"none"}]
    /\ owner \in [Trips -> Riders \cup {None}] /\ assigned \in [Trips -> Drivers \cup {None}]
    /\ active \subseteq Trips /\ retry \subseteq active
OfferTypes ==
    /\ reserved \subseteq Drivers
    /\ pending \in [Drivers -> Trips \cup {None}]
    /\ cand \in [Trips -> SUBSET Drivers]
AgentTypes ==
    /\ driver \in [Drivers -> DriverRecs]
    /\ index \in [Drivers -> {"absent", "available", "en_route_pickup", "on_trip"}]
    /\ rider \in [Riders -> RiderRecs]
ThreadTypes ==
    /\ drive \in [Drivers -> DriveRecs]
    /\ call \in [Clients -> CallRecs]
    /\ search \in SearchRecs

LEMMA TypesAre == TypeOK <=> TripTypes /\ OfferTypes /\ AgentTypes /\ ThreadTypes
  BY DEF TypeOK, TripTypes, OfferTypes, AgentTypes, ThreadTypes, DriverRecs, RiderRecs,
         DriveRecs, CallRecs, SearchRecs

LEMMA TypesNext == TripTypes' /\ OfferTypes' /\ AgentTypes' /\ ThreadTypes' => TypeOK'
  BY DEF TypeOK, TripTypes, OfferTypes, AgentTypes, ThreadTypes, DriverRecs, RiderRecs,
         DriveRecs, CallRecs, SearchRecs

LEMMA Nones == None \notin Trips /\ None \notin Drivers /\ None \notin Riders
  BY PuppetAssumption DEF PuppetAssumption

LEMMA NoThings ==
    NoCall \in CallRecs /\ NoDrive \in DriveRecs /\ NoSearch \in SearchRecs
  BY DEF NoCall, NoDrive, NoSearch, CallRecs, DriveRecs, SearchRecs, Legs

(* What a step makes of client c's call; the other calls stay as they are. *)
CallMoves(c, pc, d, t, leg) ==
    /\ call' \in [Clients -> CallRecs]
    /\ call'[c].pc = pc /\ call'[c].d = d /\ call'[c].t = t /\ call'[c].leg = leg
    /\ \A b \in Clients : b # c => call'[b] = call[b]

LEMMA BeginMoves ==
    ASSUME TypeOK, NEW c \in Clients,
           NEW pc \in {"assign", "route", "launch", "close", "cancel", "search", "offer"},
           NEW d \in Drivers \cup {None}, NEW t \in Trips, NEW leg \in Legs,
           Begin(c, pc, d, t, leg)
    PROVE  CallMoves(c, pc, d, t, leg) /\ call[c].pc = "idle" /\ Apart(d, t)
<1> DEFINE j == [pc |-> pc, d |-> d, t |-> t, leg |-> leg, found |-> {}]
<1>1. j \in CallRecs /\ call' = [call EXCEPT ![c] = j]
  BY DEF CallRecs, Begin
<1>2. call \in [Clients -> CallRecs]
  BY TypesAre DEF ThreadTypes
<1>3. QED
  BY <1>1, <1>2 DEF CallMoves, Begin, Calling

LEMMA ContinueMoves ==
    ASSUME TypeOK, NEW c \in Clients, NEW pc \in {"route", "launch"}, Continue(c, pc)
    PROVE  CallMoves(c, pc, call[c].d, call[c].t, call[c].leg)
<1> DEFINE j == [call[c] EXCEPT !.pc = pc]
<1>1. call \in [Clients -> CallRecs]
  BY TypesAre DEF ThreadTypes
<1>2. j \in CallRecs /\ j.pc = pc /\ j.d = call[c].d /\ j.t = call[c].t /\ j.leg = call[c].leg
  BY <1>1 DEF CallRecs
<1>3. call' = [call EXCEPT ![c] = j]
  BY <1>1 DEF Continue
<1>4. QED
  BY <1>1, <1>2, <1>3 DEF CallMoves

LEMMA DoneMoves ==
    ASSUME TypeOK, NEW c \in Clients, Done(c)
    PROVE  CallMoves(c, "idle", None, None, "pickup")
  BY TypesAre, NoThings DEF Done, ThreadTypes, CallMoves, NoCall

(* The shape of the calls after one of them has moved. *)
LEMMA CallsStayApart ==
    ASSUME CallShape, OneCallEach, NEW c \in Clients, NEW pc, NEW d, NEW t, NEW leg,
           CallMoves(c, pc, d, t, leg),
           pc = "idle" => t = None /\ d = None,
           pc # "idle" =>
             /\ t \in Trips
             /\ pc \in {"assign", "route", "launch", "close"} => d \in Drivers
             /\ pc \in {"search", "offer"} => d = None
             /\ \/ Apart(d, t)
                \/ call[c].pc # "idle" /\ d = call[c].d /\ t = call[c].t
    PROVE  CallShape' /\ OneCallEach'
<1>1. CallShape'
  BY DEF CallShape, CallMoves
<1>2. \A b \in Clients : b # c /\ Calling(b) /\ pc # "idle" =>
          t # call[b].t /\ (d = None \/ d # call[b].d)
  BY Nones DEF OneCallEach, Apart, Calling
<1>3. ASSUME NEW a \in Clients, NEW b \in Clients, a # b, Calling(a)', Calling(b)'
      PROVE  /\ call'[a].t # call'[b].t
             /\ call'[a].d = None \/ call'[a].d # call'[b].d
  BY <1>2, <1>3 DEF OneCallEach, Calling, CallMoves
<1>4. QED
  BY <1>1, <1>3 DEF OneCallEach

LEMMA CallsSame ==
    ASSUME CallShape, OneCallEach, UNCHANGED call
    PROVE  CallShape' /\ OneCallEach'
  BY DEF CallShape, OneCallEach, Calling

(* An offer made in one of the states that allow it. *)
Queued(t, s, res, pend) ==
    /\ state'[t] = s /\ retry' = retry \cup {t}
    /\ reserved' = res /\ pending' = pend
Sent(t, d, res, pend) ==
    /\ d \in Drivers /\ d \notin res /\ driver[d].trip = None /\ ("hand_over" \in Races \/ ~InHand(d))
    /\ state'[t] = "offer_sent" /\ retry' = retry \ {t}
    /\ reserved' = res \cup {d} /\ pending' = [pend EXCEPT ![d] = t]

Offered(t, s, res, pend) ==
    /\ active' = active \cup {t}
    /\ \A u \in Trips : u # t => state'[u] = state[u]
    /\ Queued(t, s, res, pend) \/ \E d \in Drivers : Sent(t, d, res, pend)

LEMMA OfferMakes ==
    ASSUME TypeOK, NEW t \in Trips, NEW s \in Offerable, NEW candidates \in SUBSET Drivers,
           NEW res \in SUBSET Drivers, NEW pend \in [Drivers -> Trips \cup {None}],
           Offer(t, s, candidates, res, pend)
    PROVE  /\ Offered(t, s, res, pend)
           /\ state' \in [Trips -> TripState \cup {"none"}]
           /\ active' \subseteq Trips /\ retry' \subseteq active' /\ OfferTypes'
<1>0. TripTypes /\ OfferTypes
  BY TypesAre
<1> DEFINE free == {d \in candidates : d \notin res /\ driver[d].trip = None}
<1>1. CASE free = {}
  BY <1>0, <1>1 DEF Offer, Offered, TripTypes, OfferTypes, Queued, TripState, Offerable
<1>2. CASE free # {}
  <2>1. PICK d \in free, skipped \in SUBSET (candidates \ free) :
          /\ reserved' = res \cup {d}
          /\ cand' = [cand EXCEPT ![t] = candidates \ (skipped \cup {d})]
          /\ retry' = retry \ {t}
          /\ state' = [state EXCEPT ![t] = "offer_sent"]
          /\ pending' = [pend EXCEPT ![d] = t]
    BY <1>2 DEF Offer
  <2>2. Sent(t, d, res, pend)
    BY <1>0, <2>1 DEF Offer, Sent, TripTypes
  <2>3. OfferTypes'
    BY <1>0, <2>1 DEF OfferTypes
  <2>4. active' = active \cup {t}
    BY DEF Offer
  <2>5. QED
    BY <1>0, <2>1, <2>2, <2>3, <2>4 DEF Offered, TripTypes, TripState
<1>3. QED
  BY <1>1, <1>2

(* Agents after an update. *)
Agents(d, status, t) ==
    /\ driver' \in [Drivers -> DriverRecs]
    /\ index' \in [Drivers -> {"absent", "available", "en_route_pickup", "on_trip"}]
    /\ driver'[d] = [status |-> status, trip |-> t]
    /\ index'[d] = (IF index[d] = "absent" THEN "absent" ELSE status)
    /\ \A e \in Drivers : e # d => driver'[e] = driver[e] /\ index'[e] = index[e]

LEMMA SetDriverMakes ==
    ASSUME TypeOK, NEW d \in Drivers, NEW status \in {"available", "en_route_pickup", "on_trip"},
           NEW t \in Trips \cup {None}, SetDriver(d, status, t)
    PROVE  Agents(d, status, t)
<1>1. AgentTypes
  BY TypesAre
<1>2. [status |-> status, trip |-> t] \in DriverRecs
  BY DEF DriverRecs
<1>3. QED
  BY <1>1, <1>2 DEF SetDriver, Indexed, AgentTypes, Agents

LEMMA SetRiderMakes ==
    ASSUME TypeOK, NEW r, NEW status \in {"requesting", "idle"},
           NEW t \in Trips \cup {None}, SetRider(r, status, t)
    PROVE  /\ rider' \in [Riders -> RiderRecs]
           /\ r \in Riders => rider'[r] = [status |-> status, trip |-> t]
           /\ \A q \in Riders : q # r => rider'[q] = rider[q]
<1>1. AgentTypes
  BY TypesAre
<1>2. [status |-> status, trip |-> t] \in RiderRecs
  BY DEF RiderRecs
<1>3. QED
  BY <1>1, <1>2 DEF SetRider, AgentTypes

LEMMA RiderTold ==
    ASSUME TypeOK, NEW r, NEW status \in {"offline", "requesting", "awaiting_pickup", "on_trip", "idle"},
           rider' = [rider EXCEPT ![r].status = status]
    PROVE  /\ rider' \in [Riders -> RiderRecs]
           /\ r \in Riders => rider'[r].status = status /\ rider'[r].trip = rider[r].trip
           /\ \A q \in Riders : q # r => rider'[q] = rider[q]
<1>1. rider \in [Riders -> RiderRecs]
  BY TypesAre DEF AgentTypes
<1>2. CASE r \in Riders
  <2> DEFINE j == [rider[r] EXCEPT !.status = status]
  <2>1. j \in RiderRecs /\ j.status = status /\ j.trip = rider[r].trip
    BY <1>1, <1>2 DEF RiderRecs
  <2>2. rider' = [rider EXCEPT ![r] = j]
    BY <1>1
  <2>3. QED
    BY <1>1, <1>2, <2>1, <2>2
<1>3. CASE r \notin Riders
  BY <1>1, <1>3
<1>4. QED
  BY <1>2, <1>3

LEMMA LeaveMakes ==
    ASSUME TypeOK, NEW d \in Drivers, NEW t, Leave(d, t)
    PROVE  /\ Agents(d, "available", None)
           /\ rider' \in [Riders -> RiderRecs]
           /\ owner[t] \in Riders => rider'[owner[t]] = [status |-> "idle", trip |-> None]
           /\ \A q \in Riders : q # owner[t] => rider'[q] = rider[q]
  BY SetDriverMakes, SetRiderMakes DEF Leave

(* What a step makes of driver d's drive. *)
DriveMoves(d, phase, leg, t, stop) ==
    /\ drive' \in [Drivers -> DriveRecs]
    /\ drive'[d].phase = phase /\ drive'[d].leg = leg /\ drive'[d].t = t /\ drive'[d].stop = stop
    /\ \A e \in Drivers : e # d => drive'[e] = drive[e]

LEMMA StopMoves ==
    ASSUME TypeOK, NEW d \in Drivers,
           drive' = [drive EXCEPT ![d].stop = @ \/ drive[d].phase # "none"]
    PROVE  DriveMoves(d, drive[d].phase, drive[d].leg, drive[d].t,
                      drive[d].stop \/ drive[d].phase # "none")
<1> DEFINE j == [drive[d] EXCEPT !.stop = @ \/ drive[d].phase # "none"]
<1>1. drive \in [Drivers -> DriveRecs]
  BY TypesAre DEF ThreadTypes
<1>2. /\ j \in DriveRecs /\ j.phase = drive[d].phase /\ j.leg = drive[d].leg /\ j.t = drive[d].t
      /\ j.stop = (drive[d].stop \/ drive[d].phase # "none")
  <2>1. (drive[d].stop \/ drive[d].phase # "none") \in BOOLEAN
    OBVIOUS
  <2>2. QED
    BY <1>1, <2>1 DEF DriveRecs
<1>3. drive' = [drive EXCEPT ![d] = j]
  BY <1>1
<1>4. QED
  BY <1>1, <1>2, <1>3 DEF DriveMoves

LEMMA PhaseMoves ==
    ASSUME TypeOK, NEW d \in Drivers, NEW phase \in {"last", "ending"},
           drive' = [drive EXCEPT ![d] = [drive[d] EXCEPT !.phase = phase]]
    PROVE  DriveMoves(d, phase, drive[d].leg, drive[d].t, drive[d].stop)
<1> DEFINE j == [drive[d] EXCEPT !.phase = phase]
<1>1. drive \in [Drivers -> DriveRecs]
  BY TypesAre DEF ThreadTypes
<1>2. /\ j \in DriveRecs /\ j.phase = phase /\ j.leg = drive[d].leg /\ j.t = drive[d].t
      /\ j.stop = drive[d].stop
  BY <1>1 DEF DriveRecs
<1>3. QED
  BY <1>1, <1>2 DEF DriveMoves

LEMMA NoDriveMoves ==
    ASSUME TypeOK, NEW d \in Drivers, drive' = [drive EXCEPT ![d] = NoDrive]
    PROVE  DriveMoves(d, "none", "pickup", None, FALSE)
  BY TypesAre, NoThings DEF ThreadTypes, DriveMoves, NoDrive

(* A trip ends: MatchingServer.complete_trip. *)
Closed(t, s) ==
    /\ state'[t] = s /\ \A u \in Trips : u # t => state'[u] = state[u]
    /\ active' = active \ {t} /\ reserved' = reserved \ {assigned[t]}

LEMMA CloseMakes ==
    ASSUME TypeOK, NEW t \in Trips, NEW s \in Terminal, Close(t, s)
    PROVE  /\ Closed(t, s)
           /\ state' \in [Trips -> TripState \cup {"none"}]
           /\ active' \subseteq Trips /\ reserved' \subseteq Drivers
  BY TypesAre DEF Close, Closed, TripTypes, OfferTypes, TripState, Terminal

(* The groups of variables a step may leave alone. *)
LEMMA KeptTypes ==
    ASSUME TypeOK
    PROVE  /\ UNCHANGED tripVars /\ UNCHANGED retry => TripTypes'
           /\ UNCHANGED <<reserved, pending, cand>> => OfferTypes'
           /\ UNCHANGED agentVars => AgentTypes'
           /\ UNCHANGED <<drive, call, search>> => ThreadTypes'
<1>1. TripTypes /\ OfferTypes /\ AgentTypes /\ ThreadTypes
  BY TypesAre
<1>2. QED
  BY <1>1 DEF TripTypes, OfferTypes, AgentTypes, ThreadTypes, tripVars, agentVars

LEMMA CallInTypes ==
    ASSUME TypeOK, CallShape, NEW c \in Clients
    PROVE  /\ call[c] \in CallRecs
           /\ call[c].pc # "idle" => call[c].t \in Trips /\ Calling(c)
           /\ call[c].pc \in {"assign", "route", "launch", "close"} => call[c].d \in Drivers
  BY TypesAre DEF CallShape, ThreadTypes, Calling

LEMMA RequestMakes ==
    ASSUME TypeInv, NEW c \in Clients, NEW r \in Riders, NEW t \in Trips, Request(c, r, t)
    PROVE  /\ TypeInv'
           /\ CallMoves(c, "search", None, t, "pickup") /\ call[c].pc = "idle" /\ Apart(None, t)
           /\ owner'[t] = r /\ \A u \in Trips : u # t => owner'[u] = owner[u]
<1>1. /\ CallMoves(c, "search", None, t, "pickup") /\ call[c].pc = "idle" /\ Apart(None, t)
      /\ state[t] = "none"
  BY BeginMoves DEF Request, TypeInv, Legs
<1>2. /\ owner' \in [Trips -> Riders \cup {None}] /\ owner'[t] = r
      /\ \A u \in Trips : u # t => owner'[u] = owner[u]
  BY TypesAre DEF Request, TypeInv, TripTypes
<1>3. CallShape' /\ OneCallEach'
  BY <1>1, CallsStayApart DEF TypeInv
<1>4. TypeOK'
  BY <1>1, <1>2, TypesAre, TypesNext, KeptTypes
     DEF Request, TypeInv, TripTypes, ThreadTypes, CallMoves, offerVars
<1>5. QueueInv'
  <2>1. search.t # t
    BY <1>1, Nones DEF TypeInv, QueueInv, Offerable
  <2>2. QED
    BY <1>1, <2>1 DEF Request, TypeInv, QueueInv, CallMoves, offerVars
<1>6. QED
  BY <1>1, <1>2, <1>3, <1>4, <1>5 DEF TypeInv

LEMMA RequestSearchMakes ==
    ASSUME TypeInv, NEW c \in Clients, RequestSearch(c)
    PROVE  /\ TypeInv'
           /\ call[c].pc = "search" /\ call[c].t \in Trips /\ state[call[c].t] = "none"
           /\ CallMoves(c, "offer", call[c].d, call[c].t, call[c].leg)
           /\ state'[call[c].t] = "requested" /\ active' = active \cup {call[c].t}
           /\ \A u \in Trips : u # call[c].t => state'[u] = state[u]
<1> DEFINE t == call[c].t
           j == [call[c] EXCEPT !.pc = "offer", !.found = Eligible]
<1>1. call[c].pc = "search" /\ t \in Trips /\ call[c] \in CallRecs /\ state[t] = "none"
  BY CallInTypes DEF RequestSearch, TypeInv, QueueInv
<1>2. j \in CallRecs /\ j.pc = "offer" /\ j.d = call[c].d /\ j.t = t /\ j.leg = call[c].leg
  BY <1>1 DEF CallRecs, Eligible
<1>3. call \in [Clients -> CallRecs] /\ call' = [call EXCEPT ![c] = j]
  BY TypesAre DEF RequestSearch, TypeInv, ThreadTypes
<1>4. CallMoves(c, "offer", call[c].d, t, call[c].leg)
  BY <1>2, <1>3 DEF CallMoves
<1>5. /\ state' \in [Trips -> TripState \cup {"none"}]
      /\ state'[t] = "requested" /\ active' = active \cup {t} /\ active' \subseteq Trips
      /\ \A u \in Trips : u # t => state'[u] = state[u]
  BY <1>1, TypesAre DEF RequestSearch, TypeInv, TripTypes, TripState
<1>6. CallShape' /\ OneCallEach'
  BY <1>1, <1>4, CallsStayApart DEF TypeInv, CallShape
<1>7. TypeOK'
  <2>1. TripTypes'
    BY <1>5, TypesAre DEF RequestSearch, TypeInv, TripTypes, offerVars
  <2>2. QED
    BY <1>4, <2>1, TypesAre, TypesNext, KeptTypes
       DEF RequestSearch, TypeInv, ThreadTypes, CallMoves, offerVars
<1>8. QueueInv'
  <2>1. t \notin retry /\ search.t # t
    BY <1>1, Nones DEF TypeInv, QueueInv, Offerable
  <2>2. \A b \in Clients : b # c /\ call[b].pc \in {"search", "offer"} => call[b].t # t
    BY <1>1 DEF TypeInv, OneCallEach, Calling
  <2>3. QED
    BY <1>1, <1>4, <1>5, <2>1, <2>2, CallInTypes
       DEF RequestSearch, TypeInv, QueueInv, CallMoves, offerVars, TypeOK
<1>9. QED
  BY <1>1, <1>4, <1>5, <1>6, <1>7, <1>8 DEF TypeInv

(* The queue after an offer has been made or has found nobody. *)
LEMMA OfferedQueue ==
    ASSUME TypeInv, NEW t \in Trips, NEW s \in Offerable, NEW res, NEW pend,
           Offered(t, s, res, pend)
    PROVE  \A u \in Trips : /\ u \in retry' => state'[u] \in Offerable
                            /\ u # t => state'[u] = state[u]
                            /\ u \in active => u \in active'
  BY TypesAre DEF TypeInv, QueueInv, Offered, Queued, Sent, TripTypes

LEMMA RequestOfferMakes ==
    ASSUME TypeInv, NEW c \in Clients, RequestOffer(c)
    PROVE  /\ TypeInv'
           /\ call[c].pc = "offer" /\ call[c].t \in Trips
           /\ CallMoves(c, "idle", None, None, "pickup")
           /\ Offered(call[c].t, "requested", reserved, pending)
           /\ rider' \in [Riders -> RiderRecs]
           /\ owner[call[c].t] \in Riders =>
                rider'[owner[call[c].t]] = [status |-> "requesting", trip |-> call[c].t]
           /\ \A q \in Riders : q # owner[call[c].t] => rider'[q] = rider[q]
<1> DEFINE t == call[c].t
<1>1. call[c].pc = "offer" /\ t \in Trips /\ call[c] \in CallRecs /\ state[t] = "requested"
  BY CallInTypes DEF RequestOffer, TypeInv, QueueInv
<1>2. PICK found \in SUBSET call[c].found : Offer(t, "requested", found, reserved, pending)
  BY <1>1 DEF RequestOffer
<1>3. /\ Offered(t, "requested", reserved, pending)
      /\ state' \in [Trips -> TripState \cup {"none"}]
      /\ active' \subseteq Trips /\ retry' \subseteq active' /\ OfferTypes'
  <2>1. found \in SUBSET Drivers /\ reserved \in SUBSET Drivers
        /\ pending \in [Drivers -> Trips \cup {None}] /\ "requested" \in Offerable
    BY <1>1, TypesAre DEF CallRecs, TypeInv, OfferTypes, Offerable
  <2>2. QED
    BY <1>1, <1>2, <2>1, OfferMakes DEF TypeInv
<1>4. /\ CallMoves(c, "idle", None, None, "pickup")
      /\ rider' \in [Riders -> RiderRecs]
      /\ owner[t] \in Riders => rider'[owner[t]] = [status |-> "requesting", trip |-> t]
      /\ \A q \in Riders : q # owner[t] => rider'[q] = rider[q]
  BY <1>1, DoneMoves, SetRiderMakes DEF RequestOffer, TypeInv
<1>5. CallShape' /\ OneCallEach'
  BY <1>4, CallsStayApart DEF TypeInv
<1>6. TypeOK'
  <2>1. TripTypes' /\ AgentTypes' /\ ThreadTypes'
    BY <1>3, <1>4, TypesAre
       DEF RequestOffer, TypeInv, TripTypes, AgentTypes, ThreadTypes, CallMoves
  <2>2. QED
    BY <1>3, <2>1, TypesNext
<1>7. QueueInv'
  <2>1. search.t # t /\ search' = search /\ UNCHANGED <<drive>>
    BY <1>1 DEF RequestOffer, TypeInv, QueueInv
  <2>2. \A b \in Clients : b # c => call'[b] = call[b] /\ (Calling(b) => call[b].t # t)
    BY <1>1, <1>4 DEF TypeInv, OneCallEach, Calling, CallMoves
  <2>3. "requested" \in Offerable
    BY DEF Offerable
  <2>4. \A u \in Trips : /\ u \in retry' => state'[u] \in Offerable
                         /\ u # t => state'[u] = state[u]
                         /\ u \in active => u \in active'
    BY <1>1, <1>3, <2>3, OfferedQueue
  <2>5. active \subseteq Trips /\ retry' \subseteq Trips
    BY <1>3, TypesAre DEF TypeInv, TripTypes
  <2>6. ASSUME NEW b \in Clients, call'[b].pc \in {"search", "offer", "cancel"}
        PROVE  b # c /\ call'[b] = call[b] /\ call[b].t # t /\ call[b].t \in Trips
    BY <1>4, <2>2, <2>6, CallInTypes DEF CallMoves, Calling, TypeInv
  <2>7. QED
    BY <2>1, <2>4, <2>5, <2>6 DEF TypeInv, QueueInv
<1>8. QED
  BY <1>1, <1>3, <1>4, <1>5, <1>6, <1>7 DEF TypeInv

(* A step for one trip that no search is about, and for which no client is
   requesting. *)
LEMMA QueueKept ==
    ASSUME TypeInv, NEW t \in Trips,
           \A u \in Trips : u # t => state'[u] = state[u] /\ (u \in active => u \in active'),
           \A u \in retry' : u \in Trips /\ (u \in retry \/ u = t),
           t \in retry' => state'[t] \in Offerable,
           search' = search, search.t # t,
           \A b \in Clients : call'[b].pc \in {"search", "offer", "cancel"} =>
               /\ call'[b].pc = call[b].pc /\ call'[b].t = call[b].t
               /\ call[b].pc # "cancel" => call[b].t # t
    PROVE  QueueInv'
<1>1. \A b \in Clients : call[b].pc # "idle" => call[b].t \in Trips
  BY DEF TypeInv, CallShape
<1>2. active \subseteq Trips
  BY TypesAre DEF TypeInv, TripTypes
<1>3. QED
  BY <1>1, <1>2 DEF TypeInv, QueueInv

(* A step that changes no trip. *)
LEMMA QueueSame ==
    ASSUME TypeInv, UNCHANGED <<state, active, search>>, retry' \subseteq retry,
           \A b \in Clients : call'[b].pc \in {"search", "offer", "cancel"} =>
               call'[b].pc = call[b].pc /\ call'[b].t = call[b].t
    PROVE  QueueInv'
  BY DEF TypeInv, QueueInv

LEMMA AcceptMakes ==
    ASSUME TypeInv, NEW c \in Clients, NEW d \in Drivers, Accept(c, d)
    PROVE  /\ TypeInv'
           /\ pending[d] \in Trips /\ driver[d].status = "available" /\ Apart(d, pending[d])
           /\ pending' = [pending EXCEPT ![d] = None]
           /\ IF pending[d] \in active
              THEN /\ CallMoves(c, "assign", d, pending[d], "auto") /\ call[c].pc = "idle"
                   /\ UNCHANGED <<reserved, index>>
              ELSE /\ UNCHANGED call /\ reserved' = reserved \ {d}
                   /\ index' = Indexed(d, "available")
<1> DEFINE t == pending[d]
<1>1. /\ t \in Trips /\ driver[d].status = "available" /\ Apart(d, t)
      /\ pending' = [pending EXCEPT ![d] = None] /\ pending' \in [Drivers -> Trips \cup {None}]
      /\ UNCHANGED <<tripVars, cand, retry, driver, rider, drive, search>>
  BY TypesAre DEF Accept, MayAnswer, Begin, TypeInv, OfferTypes
<1>2. CASE t \in active
  <2>1. CallMoves(c, "assign", d, t, "auto") /\ call[c].pc = "idle"
        /\ UNCHANGED <<reserved, index>>
    BY <1>1, <1>2, BeginMoves DEF Accept, TypeInv, Legs
  <2>2. CallShape' /\ OneCallEach'
    BY <1>1, <2>1, CallsStayApart DEF TypeInv
  <2>3. TypeOK'
    BY <1>1, <2>1, TypesAre, TypesNext, KeptTypes
       DEF TypeInv, OfferTypes, ThreadTypes, CallMoves, agentVars
  <2>4. QueueInv'
    BY <1>1, <2>1, QueueSame DEF tripVars, CallMoves
  <2>5. QED
    BY <1>1, <1>2, <2>1, <2>2, <2>3, <2>4 DEF TypeInv
<1>3. CASE t \notin active
  <2>1. UNCHANGED call /\ reserved' = reserved \ {d} /\ index' = Indexed(d, "available")
    BY <1>3 DEF Accept
  <2>2. CallShape' /\ OneCallEach'
    BY <2>1, CallsSame DEF TypeInv
  <2>3. TypeOK'
    BY <1>1, <2>1, TypesAre, TypesNext, KeptTypes
       DEF TypeInv, OfferTypes, AgentTypes, Indexed
  <2>4. QueueInv'
    BY <1>1, <2>1, QueueSame DEF tripVars
  <2>5. QED
    BY <1>1, <1>3, <2>1, <2>2, <2>3, <2>4 DEF TypeInv
<1>4. QED
  BY <1>2, <1>3

LEMMA AssignMakes ==
    ASSUME TypeInv, NEW c \in Clients, Assign(c)
    PROVE  /\ TypeInv'
           /\ call[c].pc = "assign" /\ call[c].t \in Trips /\ call[c].d \in Drivers
           /\ Agents(call[c].d, "en_route_pickup", call[c].t)
           /\ assigned'[call[c].t] = call[c].d
           /\ \A u \in Trips : u # call[c].t =>
                state'[u] = state[u] /\ assigned'[u] = assigned[u]
           /\ state[call[c].t] = "offer_sent" =>
                /\ state'[call[c].t] = "en_route_pickup"
                /\ CallMoves(c, "route", call[c].d, call[c].t, call[c].leg)
                /\ owner[call[c].t] \in Riders =>
                     /\ rider'[owner[call[c].t]].trip = rider[owner[call[c].t]].trip
                     /\ rider[owner[call[c].t]].status = "requesting" =>
                          rider'[owner[call[c].t]].status = "awaiting_pickup"
                /\ \A q \in Riders : q # owner[call[c].t] => rider'[q] = rider[q]
<1> DEFINE t == call[c].t
           d == call[c].d
<1>1. /\ call[c].pc = "assign" /\ t \in Trips /\ d \in Drivers /\ call[c] \in CallRecs
      /\ Calling(c)
  BY CallInTypes DEF Assign, TypeInv
<1>2. Agents(d, "en_route_pickup", t)
  BY <1>1, SetDriverMakes DEF Assign, TypeInv
<1>3. /\ assigned' \in [Trips -> Drivers \cup {None}] /\ assigned'[t] = d
      /\ \A u \in Trips : u # t => assigned'[u] = assigned[u]
      /\ reserved' \subseteq Drivers
  BY <1>1, TypesAre DEF Assign, TypeInv, TripTypes, OfferTypes
<1>4. UNCHANGED <<owner, active, pending, cand, retry, drive, search>>
  BY DEF Assign
<1>5. CASE CanTransition(state[t], "driver_assigned")
  <2>1. state[t] = "offer_sent"
    BY <1>5 DEF CanTransition, Offerable
  <2>2. /\ state' \in [Trips -> TripState \cup {"none"}] /\ state'[t] = "en_route_pickup"
        /\ \A u \in Trips : u # t => state'[u] = state[u]
    BY <1>1, <1>5, TypesAre DEF Assign, TypeInv, TripTypes, TripState
  <2>3. CallMoves(c, "route", d, t, call[c].leg)
    BY <1>1, <1>5, ContinueMoves DEF Assign, TypeInv
  <2>4. /\ rider' \in [Riders -> RiderRecs]
        /\ owner[t] \in Riders =>
             /\ rider'[owner[t]].trip = rider[owner[t]].trip
             /\ rider[owner[t]].status = "requesting" =>
                  rider'[owner[t]].status = "awaiting_pickup"
        /\ \A q \in Riders : q # owner[t] => rider'[q] = rider[q]
    <3>1. rider' = [rider EXCEPT ![owner[t]].status =
                       IF rider[owner[t]].status = "requesting" THEN "awaiting_pickup"
                       ELSE rider[owner[t]].status]
      BY <1>5 DEF Assign
    <3>2. rider \in [Riders -> RiderRecs]
      BY TypesAre DEF TypeInv, AgentTypes
    <3>3. CASE owner[t] \in Riders
      <4>1. (IF rider[owner[t]].status = "requesting" THEN "awaiting_pickup"
             ELSE rider[owner[t]].status)
              \in {"offline", "requesting", "awaiting_pickup", "on_trip", "idle"}
        BY <3>2, <3>3 DEF RiderRecs
      <4>2. QED
        BY <3>1, <3>3, <4>1, RiderTold DEF TypeInv
    <3>4. CASE owner[t] \notin Riders
      BY <3>1, <3>2, <3>4
    <3>5. QED
      BY <3>3, <3>4
  <2>5. CallShape' /\ OneCallEach'
    BY <1>1, <2>3, CallsStayApart DEF TypeInv
  <2>6. TypeOK'
    <3>1. TripTypes' /\ OfferTypes' /\ AgentTypes' /\ ThreadTypes'
      BY <1>2, <1>3, <1>4, <2>2, <2>3, <2>4, TypesAre
         DEF TypeInv, TripTypes, OfferTypes, AgentTypes, ThreadTypes, Agents, CallMoves
    <3>2. QED
      BY <3>1, TypesNext
  <2>7. QueueInv'
    <3>1. t \notin retry /\ search.t # t
      BY <1>1, <2>1, Nones DEF TypeInv, QueueInv, Offerable
    <3>2. \A b \in Clients : call'[b].pc \in {"search", "offer", "cancel"} =>
               call'[b] = call[b] /\ call[b].t # t
      BY <1>1, <2>3 DEF CallMoves, TypeInv, OneCallEach, Calling
    <3>3. retry \subseteq Trips
      BY TypesAre DEF TypeInv, TripTypes
    <3>4. QED
      BY <1>1, <1>4, <2>2, <3>1, <3>2, <3>3, QueueKept
  <2>8. QED
    BY <1>1, <1>2, <1>3, <2>2, <2>3, <2>4, <2>5, <2>6, <2>7 DEF TypeInv
<1>6. CASE ~CanTransition(state[t], "driver_assigned")
  <2>1. Done(c) /\ UNCHANGED <<state, rider>> /\ state[t] # "offer_sent"
    BY <1>6 DEF Assign, CanTransition
  <2>2. CallMoves(c, "idle", None, None, "pickup")
    BY <2>1, DoneMoves DEF TypeInv
  <2>3. CallShape' /\ OneCallEach'
    BY <2>2, CallsStayApart DEF TypeInv
  <2>4. TypeOK'
    <3>1. TripTypes' /\ OfferTypes' /\ AgentTypes' /\ ThreadTypes'
      BY <1>2, <1>3, <1>4, <2>1, <2>2, TypesAre
         DEF TypeInv, TripTypes, OfferTypes, AgentTypes, ThreadTypes, Agents, CallMoves
    <3>2. QED
      BY <3>1, TypesNext
  <2>5. QueueInv'
    BY <1>4, <2>1, <2>2, QueueSame DEF CallMoves
  <2>6. QED
    BY <1>1, <1>2, <1>3, <2>1, <2>3, <2>4, <2>5 DEF TypeInv
<1>7. QED
  BY <1>5, <1>6

LEMMA DriveToMakes ==
    ASSUME TypeInv, NEW c \in Clients, NEW d \in Drivers, NEW leg \in Legs, DriveTo(c, d, leg)
    PROVE  /\ TypeInv'
           /\ driver[d].trip \in Trips /\ driver[d].status = Status(leg)
           /\ CallMoves(c, "route", d, driver[d].trip, leg)
           /\ call[c].pc = "idle" /\ Apart(d, driver[d].trip)
<1>1. driver[d].trip \in Trips
  BY TypesAre DEF DriveTo, TypeInv, AgentTypes, DriverRecs
<1>2. /\ CallMoves(c, "route", d, driver[d].trip, leg)
      /\ call[c].pc = "idle" /\ Apart(d, driver[d].trip)
  BY <1>1, BeginMoves DEF DriveTo, TypeInv
<1>3. CallShape' /\ OneCallEach'
  BY <1>1, <1>2, CallsStayApart DEF TypeInv
<1>4. TypeOK'
  BY <1>2, TypesAre, TypesNext, KeptTypes
     DEF DriveTo, TypeInv, ThreadTypes, CallMoves, offerVars
<1>5. QueueInv'
  BY <1>2, QueueSame DEF DriveTo, CallMoves, tripVars, offerVars
<1>6. QED
  BY <1>1, <1>2, <1>3, <1>4, <1>5 DEF TypeInv, DriveTo

LEMMA RouteMakes ==
    ASSUME TypeInv, NEW c \in Clients, Route(c)
    PROVE  /\ TypeInv'
           /\ call[c].pc = "route" /\ call[c].t \in Trips /\ call[c].d \in Drivers
           /\ \/ /\ CallMoves(c, "launch", call[c].d, call[c].t, call[c].leg)
                 /\ DriveMoves(call[c].d, drive[call[c].d].phase, drive[call[c].d].leg,
                               drive[call[c].d].t,
                               drive[call[c].d].stop \/ drive[call[c].d].phase # "none")
              \/ CallMoves(c, "idle", None, None, "pickup") /\ UNCHANGED drive
<1> DEFINE t == call[c].t
           d == call[c].d
<1>1. /\ call[c].pc = "route" /\ t \in Trips /\ d \in Drivers /\ call[c] \in CallRecs
  BY CallInTypes DEF Route, TypeInv
<1>2. \/ /\ CallMoves(c, "launch", d, t, call[c].leg)
         /\ DriveMoves(d, drive[d].phase, drive[d].leg, drive[d].t,
                       drive[d].stop \/ drive[d].phase # "none")
      \/ CallMoves(c, "idle", None, None, "pickup") /\ UNCHANGED drive
  <2>1. CASE t \in active /\ driver[d].status = Status(call[c].leg)
    BY <1>1, <2>1, ContinueMoves, StopMoves DEF Route, TypeInv
  <2>2. CASE ~(t \in active /\ driver[d].status = Status(call[c].leg))
    BY <1>1, <2>2, DoneMoves DEF Route, TypeInv
  <2>3. QED
    BY <2>1, <2>2
<1>3. CallShape' /\ OneCallEach'
  <2>1. CASE CallMoves(c, "launch", d, t, call[c].leg)
    BY <1>1, <2>1, CallsStayApart DEF TypeInv
  <2>2. CASE CallMoves(c, "idle", None, None, "pickup")
    BY <2>2, CallsStayApart DEF TypeInv
  <2>3. QED
    BY <1>2, <2>1, <2>2
<1>4. TypeOK'
  <2>1. ThreadTypes'
    BY <1>2, TypesAre DEF Route, TypeInv, ThreadTypes, CallMoves, DriveMoves
  <2>2. QED
    BY <2>1, TypesNext, KeptTypes DEF Route, TypeInv, offerVars
<1>5. QueueInv'
  BY <1>2, QueueSame DEF Route, CallMoves, tripVars, offerVars
<1>6. QED
  BY <1>1, <1>2, <1>3, <1>4, <1>5 DEF TypeInv

LEMMA LaunchMakes ==
    ASSUME TypeInv, NEW c \in Clients, Launch(c) \/ LaunchFails(c)
    PROVE  /\ TypeInv'
           /\ call[c].pc = "launch" /\ call[c].t \in Trips /\ call[c].d \in Drivers
           /\ drive[call[c].d].phase = "none"
           /\ CallMoves(c, "idle", None, None, "pickup")
           /\ \/ UNCHANGED drive
              \/ DriveMoves(call[c].d, "running", call[c].leg, call[c].t, FALSE)
<1> DEFINE t == call[c].t
           d == call[c].d
           j == [phase |-> "running", leg |-> call[c].leg, t |-> t, stop |-> FALSE]
<1>1. /\ call[c].pc = "launch" /\ t \in Trips /\ d \in Drivers /\ call[c] \in CallRecs
      /\ drive[d].phase = "none" /\ CallMoves(c, "idle", None, None, "pickup")
  BY CallInTypes, DoneMoves DEF Launch, LaunchFails, TypeInv
<1>2. UNCHANGED drive \/ DriveMoves(d, "running", call[c].leg, t, FALSE)
  <2>1. j \in DriveRecs /\ drive \in [Drivers -> DriveRecs]
    BY <1>1, TypesAre DEF CallRecs, DriveRecs, TypeInv, ThreadTypes
  <2>2. UNCHANGED drive \/ drive' = [drive EXCEPT ![d] = j]
    BY DEF Launch, LaunchFails
  <2>3. QED
    BY <1>1, <2>1, <2>2 DEF DriveMoves
<1>3. CallShape' /\ OneCallEach'
  BY <1>1, CallsStayApart DEF TypeInv
<1>4. UNCHANGED <<tripVars, offerVars, agentVars, search>>
  BY DEF Launch, LaunchFails
<1>5. TypeOK'
  <2>1. ThreadTypes'
    BY <1>1, <1>2, <1>4, TypesAre DEF TypeInv, ThreadTypes, CallMoves, DriveMoves
  <2>2. QED
    BY <1>4, <2>1, TypesNext, KeptTypes DEF TypeInv, offerVars
<1>6. QueueInv'
  BY <1>1, <1>4, QueueSame DEF CallMoves, tripVars, offerVars
<1>7. QED
  BY <1>1, <1>2, <1>3, <1>5, <1>6 DEF TypeInv

LEMMA StartMakes ==
    ASSUME TypeInv, NEW c \in Clients, NEW d \in Drivers, Start(c, d)
    PROVE  /\ TypeInv'
           /\ driver[d].trip \in active /\ driver[d].trip \in Trips
           /\ driver[d].status = "en_route_pickup"
           /\ Agents(d, "on_trip", driver[d].trip)
           /\ owner[driver[d].trip] \in Riders =>
                /\ rider'[owner[driver[d].trip]].status = "on_trip"
                /\ rider'[owner[driver[d].trip]].trip = rider[owner[driver[d].trip]].trip
           /\ \A q \in Riders : q # owner[driver[d].trip] => rider'[q] = rider[q]
           /\ state[driver[d].trip] = "at_pickup" =>
                /\ CallMoves(c, "route", d, driver[d].trip, "dest")
                /\ call[c].pc = "idle" /\ Apart(d, driver[d].trip)
                /\ state'[driver[d].trip] = "in_transit"
                /\ \A u \in Trips : u # driver[d].trip => state'[u] = state[u]
<1> DEFINE t == driver[d].trip
<1>1. t \in active /\ t \in Trips /\ driver[d].status = "en_route_pickup"
  BY TypesAre DEF Start, MayPickUp, TypeInv, TripTypes
<1>2. /\ Agents(d, "on_trip", t)
      /\ rider' \in [Riders -> RiderRecs]
      /\ owner[t] \in Riders => /\ rider'[owner[t]].status = "on_trip"
                                /\ rider'[owner[t]].trip = rider[owner[t]].trip
      /\ \A q \in Riders : q # owner[t] => rider'[q] = rider[q]
  BY <1>1, SetDriverMakes, RiderTold DEF Start, TypeInv
<1>3. UNCHANGED <<owner, assigned, active, offerVars, drive, search>>
  BY DEF Start
<1>4. AgentTypes' /\ OfferTypes'
  BY <1>2, <1>3, KeptTypes DEF TypeInv, AgentTypes, Agents, offerVars
<1>5. CASE CanTransition(state[t], "in_transit")
  <2>1. state[t] = "at_pickup"
    BY <1>5 DEF CanTransition, Offerable
  <2>2. /\ CallMoves(c, "route", d, t, "dest") /\ call[c].pc = "idle" /\ Apart(d, t)
    BY <1>1, <1>5, BeginMoves DEF Start, TypeInv, Legs
  <2>3. /\ state' \in [Trips -> TripState \cup {"none"}] /\ state'[t] = "in_transit"
        /\ \A u \in Trips : u # t => state'[u] = state[u]
    BY <1>1, <1>5, TypesAre DEF Start, TypeInv, TripTypes, TripState
  <2>4. CallShape' /\ OneCallEach'
    BY <1>1, <2>2, CallsStayApart DEF TypeInv
  <2>5. TypeOK'
    <3>1. TripTypes' /\ ThreadTypes'
      BY <1>3, <2>2, <2>3, TypesAre DEF TypeInv, TripTypes, ThreadTypes, CallMoves, offerVars
    <3>2. QED
      BY <1>4, <3>1, TypesNext
  <2>6. QueueInv'
    <3>1. t \notin retry /\ search.t # t
      BY <1>1, <2>1, Nones DEF TypeInv, QueueInv, Offerable
    <3>2. \A b \in Clients : call'[b].pc \in {"search", "offer", "cancel"} =>
               b # c /\ call'[b] = call[b] /\ call[b].t # t
      BY <1>1, <2>2, Nones DEF CallMoves, Apart, Calling
    <3>3. retry \subseteq Trips
      BY TypesAre DEF TypeInv, TripTypes
    <3>4. QED
      BY <1>1, <1>3, <2>3, <3>1, <3>2, <3>3, QueueKept DEF offerVars
  <2>7. QED
    BY <1>1, <1>2, <2>2, <2>3, <2>4, <2>5, <2>6 DEF TypeInv
<1>6. CASE ~CanTransition(state[t], "in_transit")
  <2>1. UNCHANGED <<state, call>> /\ state[t] # "at_pickup"
    BY <1>6 DEF Start, CanTransition
  <2>2. CallShape' /\ OneCallEach' /\ QueueInv'
    BY <1>3, <2>1, CallsSame, QueueSame DEF TypeInv, offerVars
  <2>3. TypeOK'
    BY <1>3, <1>4, <2>1, TypesNext, KeptTypes DEF TypeInv, tripVars, offerVars
  <2>4. QED
    BY <1>1, <1>2, <2>1, <2>2, <2>3 DEF TypeInv
<1>7. QED
  BY <1>5, <1>6

LEMMA CompleteMakes ==
    ASSUME TypeInv, NEW c \in Clients, NEW d \in Drivers, Complete(c, d)
    PROVE  /\ TypeInv'
           /\ driver[d].trip \in active /\ driver[d].trip \in Trips
           /\ driver[d].status = "on_trip"
           /\ CallMoves(c, "close", d, driver[d].trip, "dest")
           /\ call[c].pc = "idle" /\ Apart(d, driver[d].trip)
           /\ Agents(d, "available", None)
           /\ \A q \in Riders : q # owner[driver[d].trip] => rider'[q] = rider[q]
           /\ owner[driver[d].trip] \in Riders =>
                rider'[owner[driver[d].trip]] = [status |-> "idle", trip |-> None]
<1> DEFINE t == driver[d].trip
<1>1. t \in active /\ t \in Trips /\ driver[d].status = "on_trip"
  BY TypesAre DEF Complete, TypeInv, TripTypes
<1>2. CallMoves(c, "close", d, t, "dest") /\ call[c].pc = "idle" /\ Apart(d, t)
  BY <1>1, BeginMoves DEF Complete, TypeInv, Legs
<1>3. /\ Agents(d, "available", None) /\ rider' \in [Riders -> RiderRecs]
      /\ \A q \in Riders : q # owner[t] => rider'[q] = rider[q]
      /\ owner[t] \in Riders => rider'[owner[t]] = [status |-> "idle", trip |-> None]
  BY <1>1, LeaveMakes DEF Complete, TypeInv
<1>4. CallShape' /\ OneCallEach'
  BY <1>1, <1>2, CallsStayApart DEF TypeInv
<1>5. TypeOK'
  <2>1. AgentTypes' /\ ThreadTypes'
    BY <1>2, <1>3, TypesAre DEF Complete, TypeInv, AgentTypes, ThreadTypes, Agents, CallMoves
  <2>2. QED
    BY <2>1, TypesNext, KeptTypes DEF Complete, TypeInv, offerVars
<1>6. QueueInv'
  BY <1>2, QueueSame DEF Complete, CallMoves, tripVars, offerVars
<1>7. QED
  BY <1>1, <1>2, <1>3, <1>4, <1>5, <1>6 DEF TypeInv

(* complete_trip by a client's call or by the end of a drive. *)
LEMMA EndMakes ==
    ASSUME TypeInv, NEW t \in Trips,
           IF CanTransition(state[t], "completed")
           THEN Close(t, "completed") ELSE UNCHANGED <<state, active, reserved>>,
           UNCHANGED <<owner, assigned, pending, cand, retry, agentVars, search>>,
           \A b \in Clients : call'[b].pc # "idle" => call'[b] = call[b],
           drive' \in [Drivers -> DriveRecs], call' \in [Clients -> CallRecs]
    PROVE  /\ TypeOK' /\ QueueInv'
           /\ IF state[t] = "in_transit" THEN Closed(t, "completed")
              ELSE UNCHANGED <<state, active, reserved>>
<1>1. CanTransition(state[t], "completed") <=> state[t] = "in_transit"
  BY DEF CanTransition, Offerable
<1>2. search \in SearchRecs /\ retry \subseteq active /\ active \subseteq Trips
  BY TypesAre DEF TypeInv, TripTypes, ThreadTypes
<1>3. ThreadTypes'
  BY <1>2 DEF ThreadTypes
<1>4. CASE state[t] = "in_transit"
  <2>1. /\ Closed(t, "completed") /\ state' \in [Trips -> TripState \cup {"none"}]
        /\ active' \subseteq Trips /\ reserved' \subseteq Drivers
    BY <1>1, <1>4, CloseMakes DEF TypeInv, Terminal
  <2>2. t \notin retry /\ search.t # t
    BY <1>4, Nones DEF TypeInv, QueueInv, Offerable
  <2>3. TripTypes' /\ OfferTypes'
    BY <1>2, <2>1, <2>2, TypesAre DEF TypeInv, TripTypes, OfferTypes, Closed
  <2>4. TypeOK'
    BY <1>3, <2>3, TypesNext, KeptTypes DEF TypeInv
  <2>5. QueueInv'
    <3>1. \A b \in Clients : call'[b].pc \in {"search", "offer"} => call[b].t # t
      BY <1>4 DEF TypeInv, QueueInv
    <3>2. QED
      BY <1>2, <2>1, <2>2, <3>1, QueueKept DEF Closed
  <2>6. QED
    BY <1>4, <2>1, <2>4, <2>5
<1>5. CASE state[t] # "in_transit"
  <2>1. UNCHANGED <<state, active, reserved>>
    BY <1>1, <1>5
  <2>2. TypeOK'
    BY <1>3, <2>1, TypesNext, KeptTypes DEF TypeInv, tripVars
  <2>3. QueueInv'
    BY <2>1, QueueSame
  <2>4. QED
    BY <1>5, <2>1, <2>2, <2>3
<1>6. QED
  BY <1>4, <1>5

LEMMA CompleteTripMakes ==
    ASSUME TypeInv, NEW c \in Clients, CompleteTrip(c)
    PROVE  /\ TypeInv'
           /\ call[c].pc = "close" /\ call[c].t \in Trips /\ call[c].d \in Drivers
           /\ CallMoves(c, "idle", None, None, "pickup")
           /\ IF state[call[c].t] = "in_transit" THEN Closed(call[c].t, "completed")
              ELSE UNCHANGED <<state, active, reserved>>
<1>1. /\ call[c].pc = "close" /\ call[c].t \in Trips /\ call[c].d \in Drivers
      /\ CallMoves(c, "idle", None, None, "pickup")
  BY CallInTypes, DoneMoves DEF CompleteTrip, TypeInv
<1>2. CallShape' /\ OneCallEach'
  BY <1>1, CallsStayApart DEF TypeInv
<1>3. /\ \A b \in Clients : call'[b].pc # "idle" => call'[b] = call[b]
      /\ drive' \in [Drivers -> DriveRecs] /\ call' \in [Clients -> CallRecs]
  BY <1>1, TypesAre DEF CompleteTrip, CallMoves, TypeInv, ThreadTypes
<1>4. /\ TypeOK' /\ QueueInv'
      /\ IF state[call[c].t] = "in_transit" THEN Closed(call[c].t, "completed")
         ELSE UNCHANGED <<state, active, reserved>>
  BY <1>1, <1>3, EndMakes DEF CompleteTrip
<1>5. QED
  BY <1>1, <1>2, <1>4 DEF TypeInv

LEMMA DriveCompletesMakes ==
    ASSUME TypeInv, NEW d \in Drivers, drive[d].t \in Trips, DriveCompletes(d)
    PROVE  /\ TypeInv'
           /\ drive[d].phase = "ending" /\ DriveMoves(d, "none", "pickup", None, FALSE)
           /\ IF state[drive[d].t] = "in_transit" THEN Closed(drive[d].t, "completed")
              ELSE UNCHANGED <<state, active, reserved>>
<1>1. drive[d].phase = "ending" /\ DriveMoves(d, "none", "pickup", None, FALSE) /\ UNCHANGED call
  BY NoDriveMoves DEF DriveCompletes, TypeInv
<1>2. CallShape' /\ OneCallEach'
  BY <1>1, CallsSame DEF TypeInv
<1>3. drive' \in [Drivers -> DriveRecs] /\ call' \in [Clients -> CallRecs]
  BY <1>1, TypesAre DEF DriveMoves, TypeInv, ThreadTypes
<1>4. /\ TypeOK' /\ QueueInv'
      /\ IF state[drive[d].t] = "in_transit" THEN Closed(drive[d].t, "completed")
         ELSE UNCHANGED <<state, active, reserved>>
  BY <1>1, <1>3, EndMakes DEF DriveCompletes
<1>5. QED
  BY <1>1, <1>2, <1>4 DEF TypeInv

LEMMA CancelMakes ==
    ASSUME "late_cancel" \notin Races, TypeInv, NEW c \in Clients, NEW t \in Trips, Cancel(c, t)
    PROVE  /\ TypeInv'
           /\ t \in active /\ search.t # t
           /\ CallMoves(c, "cancel", assigned[t], t, "pickup")
           /\ call[c].pc = "idle" /\ Apart(assigned[t], t)
           /\ IF assigned[t] = None THEN UNCHANGED drive
              ELSE /\ assigned[t] \in Drivers
                   /\ drive[assigned[t]].phase \notin {"last", "ending"}
                   /\ DriveMoves(assigned[t], drive[assigned[t]].phase, drive[assigned[t]].leg,
                                 drive[assigned[t]].t,
                                 drive[assigned[t]].stop \/ drive[assigned[t]].phase # "none")
<1> DEFINE d == assigned[t]
<1>1. t \in active /\ search.t # t /\ d \in Drivers \cup {None}
  BY TypesAre DEF Cancel, TypeInv, TripTypes
<1>2. CallMoves(c, "cancel", d, t, "pickup") /\ call[c].pc = "idle" /\ Apart(d, t)
  BY <1>1, BeginMoves DEF Cancel, TypeInv, Legs
<1>3. IF d = None THEN UNCHANGED drive
      ELSE /\ d \in Drivers /\ drive[d].phase \notin {"last", "ending"}
           /\ DriveMoves(d, drive[d].phase, drive[d].leg, drive[d].t,
                         drive[d].stop \/ drive[d].phase # "none")
  BY <1>1, StopMoves DEF Cancel, TypeInv
<1>4. CallShape' /\ OneCallEach'
  BY <1>1, <1>2, CallsStayApart DEF TypeInv
<1>5. TypeOK'
  <2>1. ThreadTypes'
    BY <1>2, <1>3, TypesAre DEF Cancel, TypeInv, ThreadTypes, CallMoves, DriveMoves
  <2>2. QED
    BY <2>1, TypesNext, KeptTypes DEF Cancel, TypeInv, offerVars
<1>6. QueueInv'
  BY <1>1, <1>2 DEF Cancel, TypeInv, QueueInv, CallMoves, tripVars, offerVars
<1>7. QED
  BY <1>1, <1>2, <1>3, <1>4, <1>5, <1>6 DEF TypeInv

LEMMA CancelTripMakes ==
    ASSUME TypeInv, NEW c \in Clients, CancelTrip(c)
    PROVE  /\ TypeInv'
           /\ call[c].pc = "cancel" /\ call[c].t \in Trips
           /\ CallMoves(c, "idle", None, None, "pickup")
           /\ Closed(call[c].t, "cancelled")
           /\ retry' = retry \ {call[c].t}
           /\ IF call[c].d = None THEN UNCHANGED <<driver, index>>
              ELSE /\ call[c].d \in Drivers /\ drive[call[c].d].phase = "none"
                   /\ Agents(call[c].d, "available", None)
           /\ \A q \in Riders : q # owner[call[c].t] => rider'[q] = rider[q]
           /\ owner[call[c].t] \in Riders =>
                rider'[owner[call[c].t]] = [status |-> "idle", trip |-> None]
<1> DEFINE t == call[c].t
           d == call[c].d
<1>1. /\ call[c].pc = "cancel" /\ t \in Trips /\ d \in Drivers \cup {None} /\ Calling(c)
      /\ CallMoves(c, "idle", None, None, "pickup")
  BY CallInTypes, DoneMoves DEF CancelTrip, TypeInv, CallRecs
<1>2. /\ Closed(t, "cancelled") /\ state' \in [Trips -> TripState \cup {"none"}]
      /\ active' \subseteq Trips /\ reserved' \subseteq Drivers
  BY <1>1, CloseMakes DEF CancelTrip, TypeInv, Terminal
<1>3. /\ IF d = None THEN UNCHANGED <<driver, index>>
         ELSE d \in Drivers /\ drive[d].phase = "none" /\ Agents(d, "available", None)
      /\ rider' \in [Riders -> RiderRecs]
      /\ \A q \in Riders : q # owner[t] => rider'[q] = rider[q]
      /\ owner[t] \in Riders => rider'[owner[t]] = [status |-> "idle", trip |-> None]
  <2>1. CASE d = None
    <3>1. SetRider(owner[t], "idle", None) /\ UNCHANGED <<driver, index>>
      BY <2>1 DEF CancelTrip
    <3>2. /\ rider' \in [Riders -> RiderRecs]
          /\ owner[t] \in Riders => rider'[owner[t]] = [status |-> "idle", trip |-> None]
          /\ \A q \in Riders : q # owner[t] => rider'[q] = rider[q]
      <4>1. TypeOK /\ "idle" \in {"requesting", "idle"} /\ None \in Trips \cup {None}
        BY DEF TypeInv
      <4> HIDE DEF t, d
      <4>2. QED
        BY <3>1, <4>1, SetRiderMakes
    <3>3. QED
      BY <2>1, <3>1, <3>2
  <2>2. CASE d # None
    BY <1>1, <2>2, LeaveMakes DEF CancelTrip, TypeInv
  <2>3. QED
    BY <2>1, <2>2
<1>4. /\ UNCHANGED <<owner, assigned, pending, drive, search>>
      /\ retry' = retry \ {t} /\ cand' = [cand EXCEPT ![t] = {}]
  BY DEF CancelTrip
<1>5. CallShape' /\ OneCallEach'
  BY <1>1, CallsStayApart DEF TypeInv
<1>6. TypeOK'
  <2>1. TripTypes /\ OfferTypes /\ AgentTypes /\ ThreadTypes
    BY TypesAre DEF TypeInv
  <2>2. TripTypes' /\ OfferTypes' /\ ThreadTypes'
    BY <1>1, <1>2, <1>4, <2>1 DEF TripTypes, OfferTypes, ThreadTypes, CallMoves, Closed
  <2>3. AgentTypes'
    BY <1>3, <2>1 DEF AgentTypes, Agents
  <2>4. QED
    BY <2>2, <2>3, TypesNext
<1>7. QueueInv'
  <2>1. search.t # t /\ retry \subseteq Trips
    BY <1>1, TypesAre DEF TypeInv, QueueInv, TripTypes
  <2>2. \A b \in Clients : call'[b].pc # "idle" => call'[b] = call[b] /\ call[b].t # t
    BY <1>1 DEF CallMoves, TypeInv, OneCallEach, Calling
  <2>3. QED
    BY <1>1, <1>2, <1>4, <2>1, <2>2, QueueKept DEF Closed
<1>8. QED
  BY <1>1, <1>2, <1>3, <1>4, <1>5, <1>6, <1>7 DEF TypeInv

LEMMA GoMakes ==
    ASSUME TypeInv, NEW d \in Drivers, GoOnline(d) \/ GoOffline(d)
    PROVE  /\ TypeInv'
           /\ driver'[d].trip = driver[d].trip
           /\ \/ /\ driver[d].status = "offline"
                 /\ driver'[d].status = "available" /\ index'[d] = "available"
              \/ /\ driver[d] = [status |-> "available", trip |-> None]
                 /\ driver'[d].status = "offline" /\ index'[d] = "absent"
           /\ \A e \in Drivers : e # d => driver'[e] = driver[e] /\ index'[e] = index[e]
<1>1. AgentTypes
  BY TypesAre DEF TypeInv
<1>2. PICK s \in {"available", "offline"} : driver' = [driver EXCEPT ![d].status = s]
  BY DEF GoOnline, GoOffline
<1> DEFINE j == [driver[d] EXCEPT !.status = s]
<1>3. j \in DriverRecs /\ j.status = s /\ j.trip = driver[d].trip
  BY <1>1 DEF AgentTypes, DriverRecs
<1>4. driver' = [driver EXCEPT ![d] = j]
  BY <1>1, <1>2
<1>5. AgentTypes'
  BY <1>1, <1>3, <1>4 DEF AgentTypes, GoOnline, GoOffline
<1>6. UNCHANGED <<tripVars, offerVars, rider, drive, call, search>>
  BY DEF GoOnline, GoOffline
<1>7. TypeOK' /\ CallShape' /\ OneCallEach' /\ QueueInv'
  BY <1>5, <1>6, TypesNext, KeptTypes, CallsSame, QueueSame DEF TypeInv, tripVars, offerVars
<1>8. \/ /\ driver[d].status = "offline"
         /\ driver'[d].status = "available" /\ index'[d] = "available"
      \/ /\ driver[d] = [status |-> "available", trip |-> None]
         /\ driver'[d].status = "offline" /\ index'[d] = "absent"
  <2>1. ASSUME NEW x \in {"available", "offline"}, driver' = [driver EXCEPT ![d].status = x]
        PROVE  driver'[d].status = x
    <3>1. driver'[d] = [driver[d] EXCEPT !.status = x]
      BY <1>1, <2>1 DEF AgentTypes
    <3>2. QED
      BY <1>1, <3>1 DEF AgentTypes, DriverRecs
  <2>2. CASE GoOnline(d)
    BY <1>1, <2>1, <2>2 DEF GoOnline, AgentTypes
  <2>3. CASE GoOffline(d)
    BY <1>1, <2>1, <2>3 DEF GoOffline, AgentTypes
  <2>4. QED
    BY <2>2, <2>3
<1>9. \A e \in Drivers : e # d => driver'[e] = driver[e] /\ index'[e] = index[e]
  BY <1>1, <1>4 DEF AgentTypes, GoOnline, GoOffline
<1>10. QED
  BY <1>1, <1>3, <1>4, <1>7, <1>8, <1>9 DEF TypeInv, AgentTypes

LEMMA ArriveMakes ==
    ASSUME TypeInv, NEW d \in Drivers, Arrive(d)
    PROVE  /\ TypeInv'
           /\ driver[d].trip \in Trips /\ Apart(d, driver[d].trip)
           /\ state[driver[d].trip] = "en_route_pickup" /\ state'[driver[d].trip] = "at_pickup"
           /\ \A u \in Trips : u # driver[d].trip => state'[u] = state[u]
<1> DEFINE t == driver[d].trip
<1>1. t \in Trips /\ Apart(d, t) /\ state[t] = "en_route_pickup"
  BY TypesAre DEF Arrive, TypeInv, TripTypes, CanTransition, Offerable
<1>2. /\ state' \in [Trips -> TripState \cup {"none"}] /\ state'[t] = "at_pickup"
      /\ \A u \in Trips : u # t => state'[u] = state[u]
  BY <1>1, TypesAre DEF Arrive, TypeInv, TripTypes, TripState
<1>3. UNCHANGED <<owner, assigned, active, offerVars, agentVars, drive, call, search>>
  BY DEF Arrive
<1>4. TypeOK'
  <2>1. TripTypes'
    BY <1>2, <1>3, TypesAre DEF TypeInv, TripTypes, offerVars
  <2>2. QED
    BY <1>3, <2>1, TypesNext, KeptTypes DEF TypeInv, offerVars
<1>5. QueueInv'
  <2>1. t \notin retry /\ search.t # t /\ retry \subseteq Trips
    BY <1>1, Nones, TypesAre DEF TypeInv, QueueInv, Offerable, TripTypes
  <2>2. \A b \in Clients : call[b].pc \in {"search", "offer"} => call[b].t # t
    BY <1>1 DEF TypeInv, QueueInv
  <2>3. QED
    BY <1>1, <1>2, <1>3, <2>1, <2>2, QueueKept DEF offerVars
<1>6. QED
  BY <1>1, <1>2, <1>3, <1>4, <1>5, CallsSame DEF TypeInv

LEMMA DriveOnMakes ==
    ASSUME TypeInv, NEW d \in Drivers, DriveOn(d)
    PROVE  /\ TypeInv'
           /\ drive[d].phase = "running"
           /\ IF drive[d].stop THEN DriveMoves(d, "none", "pickup", None, FALSE)
              ELSE DriveMoves(d, "last", drive[d].leg, drive[d].t, drive[d].stop)
<1>1. IF drive[d].stop THEN DriveMoves(d, "none", "pickup", None, FALSE)
      ELSE DriveMoves(d, "last", drive[d].leg, drive[d].t, drive[d].stop)
  <2>1. CASE drive[d].stop
    BY <2>1, NoDriveMoves DEF DriveOn, TypeInv
  <2>2. CASE ~drive[d].stop
    BY <2>2, PhaseMoves DEF DriveOn, TypeInv
  <2>3. QED
    BY <2>1, <2>2
<1>2. ThreadTypes'
  BY <1>1, TypesAre DEF DriveOn, TypeInv, ThreadTypes, DriveMoves
<1>3. QED
  BY <1>1, <1>2, TypesNext, KeptTypes, CallsSame, QueueSame
     DEF DriveOn, TypeInv, tripVars, offerVars

LEMMA DriveArrivesMakes ==
    ASSUME TypeInv, NEW d \in Drivers, drive[d].t \in Trips, DriveArrives(d)
    PROVE  /\ TypeInv'
           /\ drive[d].phase = "last"
           /\ IF drive[d].leg = "dest" /\ drive[d].t \in active
              THEN /\ DriveMoves(d, "ending", drive[d].leg, drive[d].t, drive[d].stop)
                   /\ Agents(d, "available", None)
                   /\ \A q \in Riders : q # owner[drive[d].t] => rider'[q] = rider[q]
                   /\ owner[drive[d].t] \in Riders =>
                        rider'[owner[drive[d].t]] = [status |-> "idle", trip |-> None]
                   /\ UNCHANGED state
              ELSE /\ DriveMoves(d, "none", "pickup", None, FALSE)
                   /\ UNCHANGED agentVars
                   /\ \/ UNCHANGED state
                      \/ /\ state[drive[d].t] = "en_route_pickup"
                         /\ state'[drive[d].t] = "at_pickup"
                         /\ \A u \in Trips : u # drive[d].t => state'[u] = state[u]
<1> DEFINE t == drive[d].t
           ends == drive[d].leg = "dest" /\ t \in active
<1>1. drive[d].phase = "last" /\ UNCHANGED <<owner, assigned, active, offerVars, call, search>>
  BY DEF DriveArrives
<1>2. CallShape' /\ OneCallEach'
  BY <1>1, CallsSame DEF TypeInv
<1>3. CASE ends
  <2>1. DriveMoves(d, "ending", drive[d].leg, t, drive[d].stop) /\ UNCHANGED state
    BY <1>3, PhaseMoves DEF DriveArrives, TypeInv
  <2>2. /\ Agents(d, "available", None) /\ rider' \in [Riders -> RiderRecs]
        /\ \A q \in Riders : q # owner[t] => rider'[q] = rider[q]
        /\ owner[t] \in Riders => rider'[owner[t]] = [status |-> "idle", trip |-> None]
    BY <1>3, LeaveMakes DEF DriveArrives, TypeInv
  <2>3. AgentTypes' /\ ThreadTypes'
    BY <1>1, <2>1, <2>2, TypesAre DEF TypeInv, AgentTypes, ThreadTypes, Agents, DriveMoves
  <2>4. TypeOK' /\ QueueInv'
    BY <1>1, <2>1, <2>3, TypesNext, KeptTypes, QueueSame DEF TypeInv, tripVars, offerVars
  <2>5. QED
    BY <1>1, <1>2, <1>3, <2>1, <2>2, <2>4 DEF TypeInv
<1>4. CASE ~ends
  <2>1. DriveMoves(d, "none", "pickup", None, FALSE) /\ UNCHANGED agentVars
    BY <1>4, NoDriveMoves DEF DriveArrives, TypeInv
  <2>2. ThreadTypes'
    BY <1>1, <2>1, TypesAre DEF TypeInv, ThreadTypes, DriveMoves
  <2>3. CASE UNCHANGED state
    <3>1. TypeOK' /\ QueueInv'
      BY <1>1, <2>1, <2>2, <2>3, TypesNext, KeptTypes, QueueSame DEF TypeInv, tripVars, offerVars
    <3>2. QED
      BY <1>1, <1>2, <1>4, <2>1, <2>3, <3>1 DEF TypeInv
  <2>4. CASE t \in active /\ state[t] = "en_route_pickup"
             /\ state' = [state EXCEPT ![t] = "at_pickup"]
    <3>1. /\ state' \in [Trips -> TripState \cup {"none"}] /\ state'[t] = "at_pickup"
          /\ \A u \in Trips : u # t => state'[u] = state[u]
      BY <2>4, TypesAre DEF TypeInv, TripTypes, TripState
    <3>2. TripTypes'
      BY <1>1, <3>1, TypesAre DEF TypeInv, TripTypes, offerVars
    <3>3. TypeOK'
      BY <1>1, <2>1, <2>2, <3>2, TypesNext, KeptTypes DEF TypeInv, offerVars
    <3>4. t \notin retry /\ search.t # t /\ retry \subseteq Trips
      BY <2>4, Nones, TypesAre DEF TypeInv, QueueInv, Offerable, TripTypes
    <3>5. \A b \in Clients : call[b].pc \in {"search", "offer"} => call[b].t # t
      BY <2>4 DEF TypeInv, QueueInv
    <3>6. QueueInv'
      BY <1>1, <3>1, <3>4, <3>5, QueueKept DEF offerVars
    <3>7. QED
      BY <1>1, <1>2, <1>4, <2>1, <2>4, <3>1, <3>3, <3>6 DEF TypeInv
  <2>5. QED
    BY <2>3, <2>4 DEF DriveArrives
<1>5. QED
  BY <1>3, <1>4

LEMMA DeclineMakes ==
    ASSUME TypeInv, NEW d \in Drivers, NEW n \in {"offer_rejected", "offer_expired"}, Decline(d, n)
    PROVE  /\ TypeInv'
           /\ pending[d] \in Trips /\ Apart(d, pending[d]) /\ index' = Indexed(d, "available")
           /\ IF state[pending[d]] = "offer_sent"
              THEN Offered(pending[d], n, reserved \ {d}, [pending EXCEPT ![d] = None])
              ELSE /\ reserved' = reserved \ {d} /\ pending' = [pending EXCEPT ![d] = None]
                   /\ UNCHANGED <<state, active, retry>>
<1> DEFINE t == pending[d]
           res == reserved \ {d}
           pend == [pending EXCEPT ![d] = None]
<1>1. /\ t \in Trips /\ Apart(d, t) /\ index' = Indexed(d, "available")
      /\ res \in SUBSET Drivers /\ pend \in [Drivers -> Trips \cup {None}]
      /\ cand[t] \in SUBSET Drivers /\ cand \in [Trips -> SUBSET Drivers]
  BY TypesAre DEF Decline, MayAnswer, MayTimeOut, TypeInv, OfferTypes
<1>2. UNCHANGED <<owner, assigned, driver, rider, drive, call, search>>
  BY DEF Decline
<1>3. AgentTypes'
  BY <1>1, <1>2, TypesAre DEF TypeInv, AgentTypes, Indexed
<1>4. CASE state[t] = "offer_sent"
  <2>1. n \in Offerable /\ Offer(t, n, cand[t], res, pend)
    BY <1>4 DEF Decline, Offerable
  <2>2. /\ Offered(t, n, res, pend) /\ state' \in [Trips -> TripState \cup {"none"}]
        /\ active' \subseteq Trips /\ retry' \subseteq active' /\ OfferTypes'
    BY <1>1, <2>1, OfferMakes DEF TypeInv
  <2>3. TypeOK'
    <3>1. TripTypes'
      BY <1>2, <2>2, TypesAre DEF TypeInv, TripTypes
    <3>2. QED
      BY <1>2, <1>3, <2>2, <3>1, TypesNext, KeptTypes DEF TypeInv
  <2>4. QueueInv'
    <3>1. \A u \in Trips : /\ u \in retry' => state'[u] \in Offerable
                           /\ u # t => state'[u] = state[u]
                           /\ u \in active => u \in active'
      BY <1>1, <2>1, <2>2, OfferedQueue
    <3>2. search.t # t
      BY <1>1, <1>4, Nones DEF TypeInv, QueueInv, Offerable
    <3>3. \A b \in Clients : call[b].pc \in {"search", "offer"} => call[b].t # t
      BY <1>4 DEF TypeInv, QueueInv
    <3>4. \A u \in retry' : u \in Trips /\ (u \in retry \/ u = t)
      BY <2>2 DEF Offered, Queued, Sent
    <3>5. QED
      BY <1>1, <1>2, <3>1, <3>2, <3>3, <3>4, QueueKept
  <2>5. QED
    BY <1>1, <1>2, <1>4, <2>2, <2>3, <2>4, CallsSame DEF TypeInv
<1>5. CASE state[t] # "offer_sent"
  <2>1. reserved' = res /\ pending' = pend /\ UNCHANGED <<state, active, retry>>
    BY <1>5 DEF Decline
  <2>2. cand' \in [Trips -> SUBSET Drivers]
    BY <1>1, <1>5 DEF Decline
  <2>3. OfferTypes'
    BY <1>1, <2>1, <2>2 DEF OfferTypes
  <2>4. TypeOK' /\ QueueInv'
    BY <1>2, <1>3, <2>1, <2>3, TypesNext, KeptTypes, QueueSame DEF TypeInv, tripVars
  <2>5. QED
    BY <1>1, <1>2, <1>5, <2>1, <2>4, CallsSame DEF TypeInv
<1>6. QED
  BY <1>4, <1>5

LEMMA SearchMakes ==
    ASSUME "late_cancel" \notin Races, TypeInv, NEW t \in Trips, Search(t)
    PROVE  TypeInv' /\ UNCHANGED retry
<1>1. /\ t \in retry /\ t \in active /\ state[t] \in Offerable /\ Apart(None, t)
      /\ search' = [t |-> t, found |-> Eligible]
      /\ UNCHANGED <<tripVars, retry, reserved, pending, cand, agentVars, drive, call>>
  BY TypesAre DEF Search, TypeInv, TripTypes, QueueInv
<1>2. search' \in SearchRecs
  BY <1>1 DEF SearchRecs, Eligible
<1>3. TypeOK'
  <2>1. ThreadTypes'
    BY <1>1, <1>2, TypesAre DEF TypeInv, ThreadTypes
  <2>2. QED
    BY <1>1, <2>1, TypesNext, KeptTypes DEF TypeInv
<1>4. QueueInv'
  BY <1>1, Nones DEF TypeInv, QueueInv, tripVars, Apart, Calling
<1>5. QED
  BY <1>1, <1>3, <1>4, CallsSame DEF TypeInv

LEMMA SearchEndsMakes ==
    ASSUME TypeInv, SearchEnds
    PROVE  /\ TypeInv'
           /\ search.t \in Trips /\ state[search.t] \in Offerable /\ search.t \in active
           /\ \/ Offered(search.t, state[search.t], reserved, pending)
              \/ /\ retry' = retry \cup {search.t}
                 /\ UNCHANGED <<state, active, reserved, pending>>
<1> DEFINE t == search.t
<1>1. t \in Trips /\ state[t] \in Offerable /\ t \in active /\ search \in SearchRecs
  BY TypesAre DEF SearchEnds, TypeInv, QueueInv, TripTypes, ThreadTypes
<1>2. UNCHANGED <<owner, assigned, agentVars, drive, call>> /\ search' = NoSearch
  BY DEF SearchEnds
<1>3. PICK found \in SUBSET search.found :
        \/ /\ retry' = retry \cup {t} /\ UNCHANGED <<state, active, reserved, pending, cand>>
        \/ Offer(t, state[t], found, reserved, pending)
  BY DEF SearchEnds
<1>4. ThreadTypes' /\ AgentTypes' /\ CallShape' /\ OneCallEach'
  BY <1>2, TypesAre, NoThings, KeptTypes, CallsSame DEF TypeInv, ThreadTypes
<1>5. search'.t = None
  BY <1>2 DEF NoSearch
<1>6. \A b \in Clients : call[b].pc \in {"search", "offer", "cancel"} =>
          call[b].t # t /\ call[b].t \in Trips
  BY DEF TypeInv, QueueInv, CallShape
<1>7. CASE retry' = retry \cup {t} /\ UNCHANGED <<state, active, reserved, pending, cand>>
  <2>1. TypeOK'
    <3>1. TripTypes' /\ OfferTypes'
      BY <1>1, <1>2, <1>7, TypesAre DEF TypeInv, TripTypes, OfferTypes
    <3>2. QED
      BY <1>4, <3>1, TypesNext
  <2>2. QueueInv'
    BY <1>1, <1>2, <1>5, <1>6, <1>7, Nones DEF TypeInv, QueueInv
  <2>3. QED
    BY <1>1, <1>4, <1>7, <2>1, <2>2 DEF TypeInv
<1>8. CASE Offer(t, state[t], found, reserved, pending)
  <2>1. found \in SUBSET Drivers /\ reserved \in SUBSET Drivers
        /\ pending \in [Drivers -> Trips \cup {None}]
    BY <1>1, TypesAre DEF SearchRecs, TypeInv, OfferTypes
  <2>2. /\ Offered(t, state[t], reserved, pending)
        /\ state' \in [Trips -> TripState \cup {"none"}]
        /\ active' \subseteq Trips /\ retry' \subseteq active' /\ OfferTypes'
    BY <1>1, <1>8, <2>1, OfferMakes DEF TypeInv
  <2>3. TypeOK'
    <3>1. TripTypes'
      BY <1>2, <2>2, TypesAre DEF TypeInv, TripTypes
    <3>2. QED
      BY <1>4, <2>2, <3>1, TypesNext
  <2>4. QueueInv'
    <3>1. \A u \in Trips : /\ u \in retry' => state'[u] \in Offerable
                           /\ u # t => state'[u] = state[u]
                           /\ u \in active => u \in active'
      BY <1>1, <2>2, OfferedQueue
    <3>2. retry' \subseteq Trips
      BY <2>2
    <3>3. QED
      BY <1>2, <1>5, <1>6, <3>1, <3>2, Nones DEF TypeInv, QueueInv
  <2>5. QED
    BY <1>1, <1>4, <2>2, <2>3, <2>4 DEF TypeInv
<1>9. QED
  BY <1>3, <1>7, <1>8

LEMMA TypeInit == Init => TypeInv /\ DriveShape
<1> SUFFICES ASSUME Init PROVE TypeInv /\ DriveShape
  OBVIOUS
<1>1. TypeOK
  BY TypesAre, NoThings
     DEF Init, TripTypes, OfferTypes, AgentTypes, ThreadTypes, DriverRecs, RiderRecs
<1>2. CallShape /\ OneCallEach /\ QueueInv /\ DriveShape
  BY DEF Init, NoCall, NoDrive, NoSearch, CallShape, OneCallEach, Calling, QueueInv, DriveShape
<1>3. QED
  BY <1>1, <1>2 DEF TypeInv

LEMMA TypeStep ==
    ASSUME "late_cancel" \notin Races, TypeInv, DriveShape, [Next]_vars
    PROVE  TypeInv' /\ DriveShape'
<1>1. CASE UNCHANGED vars
  <2> USE <1>1 DEF vars, tripVars, offerVars, agentVars
  <2>1. TypeOK'
    BY TypesNext, KeptTypes DEF TypeInv
  <2>2. CallShape' /\ OneCallEach'
    BY CallsSame DEF TypeInv
  <2>3. QueueInv'
    BY QueueSame
  <2>4. QED
    BY <2>1, <2>2, <2>3 DEF TypeInv, DriveShape
<1>2. ASSUME NEW c \in Clients,
             \/ \E r \in Riders, t \in Trips : Request(c, r, t)
             \/ RequestSearch(c) \/ RequestOffer(c) \/ Assign(c) \/ CompleteTrip(c)
             \/ \E d \in Drivers : \/ Accept(c, d) \/ Start(c, d) \/ Complete(c, d)
                                   \/ \E leg \in Legs : DriveTo(c, d, leg)
      PROVE  TypeInv' /\ DriveShape'
  <2>1. TypeInv'
    BY <1>2, RequestMakes, RequestSearchMakes, RequestOfferMakes, AssignMakes, CompleteTripMakes,
       AcceptMakes, StartMakes, CompleteMakes, DriveToMakes
  <2>2. UNCHANGED drive
    BY <1>2 DEF Request, RequestSearch, RequestOffer, Assign, CompleteTrip, Accept, Start,
                Complete, DriveTo
  <2>3. QED
    BY <2>1, <2>2 DEF DriveShape
<1>3. ASSUME NEW c \in Clients, Route(c) PROVE TypeInv' /\ DriveShape'
  BY <1>3, RouteMakes DEF DriveShape, DriveMoves
<1>4. ASSUME NEW c \in Clients, Launch(c) \/ LaunchFails(c) PROVE TypeInv' /\ DriveShape'
  BY <1>4, LaunchMakes DEF DriveShape, DriveMoves
<1>5. ASSUME NEW c \in Clients, NEW t \in Trips, Cancel(c, t) PROVE TypeInv' /\ DriveShape'
  BY <1>5, CancelMakes DEF DriveShape, DriveMoves
<1>6. ASSUME NEW c \in Clients, CancelTrip(c) PROVE TypeInv' /\ DriveShape'
  BY <1>6, CancelTripMakes DEF CancelTrip, DriveShape
<1>7. ASSUME NEW d \in Drivers,
             \/ GoOnline(d) \/ GoOffline(d) \/ Arrive(d)
             \/ \E n \in {"offer_rejected", "offer_expired"} : Decline(d, n)
      PROVE  TypeInv' /\ DriveShape'
  <2>1. TypeInv'
    BY <1>7, GoMakes, ArriveMakes, DeclineMakes
  <2>2. UNCHANGED drive
    BY <1>7 DEF GoOnline, GoOffline, Arrive, Decline
  <2>3. QED
    BY <2>1, <2>2 DEF DriveShape
<1>8. ASSUME NEW d \in Drivers, DriveOn(d) PROVE TypeInv' /\ DriveShape'
  BY <1>8, DriveOnMakes DEF DriveShape, DriveMoves
<1>9. ASSUME NEW d \in Drivers, DriveArrives(d) PROVE TypeInv' /\ DriveShape'
  <2>1. drive[d].t \in Trips
    BY <1>9 DEF DriveShape, DriveArrives
  <2>2. QED
    BY <1>9, <2>1, DriveArrivesMakes DEF DriveShape, DriveMoves
<1>10. ASSUME NEW d \in Drivers, DriveCompletes(d) PROVE TypeInv' /\ DriveShape'
  <2>1. drive[d].t \in Trips
    BY <1>10 DEF DriveShape, DriveCompletes
  <2>2. QED
    BY <1>10, <2>1, DriveCompletesMakes DEF DriveShape, DriveMoves
<1>11. ASSUME NEW t \in Trips, Search(t) PROVE TypeInv' /\ DriveShape'
  BY <1>11, SearchMakes DEF Search, DriveShape
<1>12. CASE SearchEnds
  BY <1>12, SearchEndsMakes DEF SearchEnds, DriveShape
<1>13. QED
  BY <1>1, <1>2, <1>3, <1>4, <1>5, <1>6, <1>7, <1>8, <1>9, <1>10, <1>11, <1>12 DEF Next

LEMMA TypeAlways ==
    ASSUME "late_cancel" \notin Races
    PROVE  Spec => [](TypeInv /\ DriveShape)
<1>1. TypeInv /\ DriveShape /\ [Next]_vars => TypeInv' /\ DriveShape'
  BY TypeStep
<1>2. QED
  BY <1>1, TypeInit, PTL DEF Spec

(* Every variable keeps its type, and the retry queue holds none but active
   trips, whatever calls, drives and searches overlap: as long as nobody
   cancels a trip that the event loop is searching drivers for, or whose drive
   can no longer be stopped.  (With such a cancellation TLC finds a cancelled
   trip back in the queue.) *)
THEOREM PuppetTypes == "late_cancel" \notin Races /\ Spec => []TypeOK
<1> SUFFICES ASSUME "late_cancel" \notin Races PROVE Spec => []TypeOK
  OBVIOUS
<1>1. TypeInv => TypeOK
  BY DEF TypeInv
<1>2. QED
  BY <1>1, TypeAlways, PTL
-----------------------------------------------------------------------------
(* Every call, drive and search keeps trips and agents together *)

(* What calls, drives and agents a trip or a driver can meet. *)
LEMMA CallFacts ==
    ASSUME TypeInv, NEW c \in Clients, call[c].pc # "idle"
    PROVE  /\ call[c].t \in Trips
           /\ call[c].pc \in {"assign", "route", "launch", "close"} => call[c].d \in Drivers
           /\ \A b \in Clients : b # c /\ call[b].pc # "idle" =>
                /\ call[b].t # call[c].t
                /\ call[c].d # None => call[b].d # call[c].d
  BY DEF TypeInv, CallShape, OneCallEach, Calling

LEMMA DriveOnKeeps ==
    ASSUME TypeInv, DriveShape, PInv, NEW d \in Drivers, DriveOn(d)
    PROVE  PInv'
<1>1. /\ drive[d].phase = "running"
      /\ IF drive[d].stop THEN DriveMoves(d, "none", "pickup", None, FALSE)
         ELSE DriveMoves(d, "last", drive[d].leg, drive[d].t, drive[d].stop)
  BY DriveOnMakes
<1>2. UNCHANGED <<state, owner, assigned, active, reserved, pending, cand, retry, driver, index,
                  rider, call, search>>
  BY DEF DriveOn, tripVars, offerVars, agentVars
<1>3. ASSUME NEW t \in Trips PROVE TripOK(t)' /\ OwnerOK(t)'
  <2>1. OnIt(t) /\ assigned[t] \in Drivers => OnIt(t)'
    BY <1>1, <1>2 DEF OnIt, OnCall, DriveMoves
  <2>2. QED
    BY <1>2, <2>1 DEF PInv, TripOK, OwnerOK, OnCall
<1>4. ASSUME NEW e \in Drivers PROVE OfferOK(e)' /\ DriverOK(e)' /\ DriveOK(e)'
  BY <1>1, <1>2 DEF PInv, OfferOK, DriverOK, DriveOK, Drives, DriveMoves, OnCall, Accepting
<1>5. ASSUME NEW c \in Clients PROVE CallOK(c)'
  <2>1. call[c].d = None \/ call[c].d \in Drivers
    BY TypesAre DEF TypeInv, ThreadTypes, CallRecs
  <2>2. QED
    BY <1>1, <1>2, <2>1 DEF PInv, CallOK, Drives, DriveMoves
<1>6. QED
  BY <1>3, <1>4, <1>5 DEF PInv

LEMMA GoKeeps ==
    ASSUME TypeInv, PInv, NEW d \in Drivers, GoOnline(d) \/ GoOffline(d)
    PROVE  PInv'
<1>1. /\ driver'[d].trip = driver[d].trip
      /\ \/ /\ driver[d].status = "offline"
            /\ driver'[d].status = "available" /\ index'[d] = "available"
         \/ /\ driver[d] = [status |-> "available", trip |-> None]
            /\ driver'[d].status = "offline" /\ index'[d] = "absent"
      /\ \A e \in Drivers : e # d => driver'[e] = driver[e] /\ index'[e] = index[e]
  BY GoMakes
<1>2. /\ UNCHANGED <<state, owner, assigned, active, reserved, pending, cand, retry, rider,
                     drive, call, search>>
      /\ \A c \in Clients : call[c].pc # "idle" => call[c].d # d
  BY Nones DEF GoOnline, GoOffline, tripVars, offerVars, agentVars, Apart, Calling
<1>3. \A e \in Drivers : driver'[e].trip = driver[e].trip
  BY <1>1
<1>4. ASSUME NEW t \in Trips PROVE TripOK(t)' /\ OwnerOK(t)'
  <2>1. OnIt(t) /\ assigned[t] \in Drivers => OnIt(t)'
    BY <1>2, <1>3 DEF OnIt, OnCall
  <2>2. QED
    BY <1>2, <2>1 DEF PInv, TripOK, OwnerOK, OnCall
<1>5. ASSUME NEW e \in Drivers PROVE OfferOK(e)' /\ DriverOK(e)' /\ DriveOK(e)'
  <2>1. OfferOK(e)' /\ DriveOK(e)'
    BY <1>2, <1>3 DEF PInv, OfferOK, DriveOK, Drives, OnCall, Accepting
  <2>2. DriverOK(e)'
    BY <1>1, <1>2 DEF PInv, DriverOK, Status
  <2>3. QED
    BY <2>1, <2>2
<1>6. ASSUME NEW c \in Clients PROVE CallOK(c)'
  <2>1. call[c].d = None \/ call[c].d \in Drivers
    BY TypesAre DEF TypeInv, ThreadTypes, CallRecs
  <2>2. QED
    BY <1>1, <1>2, <1>3, <2>1, CallFacts DEF PInv, CallOK, Drives
<1>7. QED
  BY <1>4, <1>5, <1>6 DEF PInv

LEMMA SearchKeeps ==
    ASSUME "late_cancel" \notin Races, TypeInv, PInv, NEW t \in Trips, Search(t)
    PROVE  PInv'
<1>1. UNCHANGED <<state, owner, assigned, active, reserved, pending, cand, retry, driver, index,
                  rider, drive, call>>
  BY SearchMakes DEF Search, tripVars, agentVars
<1>2. QED
  BY <1>1 DEF PInv, TripOK, OwnerOK, OfferOK, DriverOK, DriveOK, CallOK, Drives, OnIt, OnCall,
              Accepting

(* Where calls are that others are told of, before and after a step. *)
SameCalls ==
    /\ \A u \in Trips :
         /\ OnCall(u, {"offer"})' <=> OnCall(u, {"offer"})
         /\ OnCall(u, {"search"})' <=> OnCall(u, {"search"})
         /\ OnCall(u, {"search", "offer"})' <=> OnCall(u, {"search", "offer"})
         /\ OnCall(u, {"assign"})' <=> OnCall(u, {"assign"})
         /\ OnCall(u, {"close"})' <=> OnCall(u, {"close"})
    /\ \A e \in Drivers : Accepting(e)' <=> Accepting(e)

(* A call that moves in a way no other part is told of. *)
LEMMA QuietCall ==
    ASSUME NEW c \in Clients, NEW pc, NEW d, NEW t, NEW leg, CallMoves(c, pc, d, t, leg),
           pc \in {"idle", "route", "launch", "cancel"},
           call[c].pc \in {"idle", "route", "launch", "cancel"}
    PROVE  SameCalls
  BY DEF CallMoves, OnCall, Accepting, SameCalls

(* Trips that a step leaves alone, when calls are where they were. *)
LEMMA TripsKept ==
    ASSUME PInv, SameCalls, UNCHANGED <<state, owner, assigned, active, retry, pending, rider>>,
           \A u \in Trips : state[u] \in Moving /\ assigned[u] \in Drivers /\ OnIt(u) => OnIt(u)'
    PROVE  \A u \in Trips : TripOK(u)' /\ OwnerOK(u)'
<1> SUFFICES ASSUME NEW u \in Trips PROVE TripOK(u)' /\ OwnerOK(u)'
  OBVIOUS
<1>1. TripOK(u) /\ OwnerOK(u)
  BY DEF PInv
<1>2. TripOK(u)'
  BY <1>1 DEF TripOK, SameCalls
<1>3. OwnerOK(u)'
  BY <1>1 DEF OwnerOK, SameCalls
<1>4. QED
  BY <1>2, <1>3

(* The same of offers ... *)
LEMMA OffersKept ==
    ASSUME PInv, SameCalls, TypeInv, UNCHANGED <<state, reserved, pending, driver>>
    PROVE  \A e \in Drivers : OfferOK(e)'
<1> SUFFICES ASSUME NEW e \in Drivers PROVE OfferOK(e)'
  OBVIOUS
<1>1. OfferOK(e)
  BY DEF PInv
<1>2. pending[e] = None \/ pending[e] \in Trips
  BY TypesAre DEF TypeInv, OfferTypes
<1>3. QED
  BY <1>1, <1>2 DEF OfferOK, SameCalls

(* ... and of drivers, whose drives go on. *)
LEMMA DriversKept ==
    ASSUME PInv, UNCHANGED <<state, owner, assigned, reserved, driver, index, rider>>,
           \A e \in Drivers : /\ drive'[e].phase = drive[e].phase /\ drive'[e].leg = drive[e].leg
                             /\ drive'[e].t = drive[e].t
    PROVE  \A e \in Drivers : DriverOK(e)' /\ DriveOK(e)'
<1> SUFFICES ASSUME NEW e \in Drivers PROVE DriverOK(e)' /\ DriveOK(e)'
  OBVIOUS
<1>1. DriverOK(e) /\ DriveOK(e)
  BY DEF PInv
<1>2. DriverOK(e)'
  BY <1>1 DEF DriverOK
<1>3. DriveOK(e)'
  BY <1>1 DEF DriveOK, Drives
<1>4. QED
  BY <1>2, <1>3

LEMMA DriveToKeeps ==
    ASSUME TypeInv, PInv, NEW c \in Clients, NEW d \in Drivers, NEW leg \in Legs, DriveTo(c, d, leg)
    PROVE  PInv'
<1> DEFINE t == driver[d].trip
<1>1. /\ t \in Trips /\ driver[d].status = Status(leg)
      /\ CallMoves(c, "route", d, t, leg) /\ call[c].pc = "idle"
  BY DriveToMakes
<1>2. UNCHANGED <<state, owner, assigned, active, reserved, pending, cand, retry, driver, index,
                  rider, drive, search>>
  BY DEF DriveTo, tripVars, offerVars, agentVars
<1>3. Drives(d, t, leg)
  BY <1>1, Nones DEF PInv, DriverOK, Drives, Status
<1>. HIDE DEF t
<1>0. SameCalls
  BY <1>1, QuietCall
<1>4. \A u \in Trips : TripOK(u)' /\ OwnerOK(u)'
  <2>1. \A u \in Trips : OnIt(u) => OnIt(u)'
    BY <1>2, <1>0 DEF OnIt, SameCalls
  <2>2. QED
    BY <1>2, <1>0, <2>1, TripsKept
<1>5. \A e \in Drivers : OfferOK(e)' /\ DriverOK(e)' /\ DriveOK(e)'
  BY <1>2, <1>0, OffersKept, DriversKept
<1>6. \A b \in Clients : CallOK(b)'
  BY <1>1, <1>2, <1>3 DEF PInv, CallOK, Drives, CallMoves
<1>7. QED
  BY <1>4, <1>5, <1>6 DEF PInv

LEMMA RouteKeeps ==
    ASSUME TypeInv, DriveShape, PInv, NEW c \in Clients, Route(c)
    PROVE  PInv'
<1> DEFINE d == call[c].d
           t == call[c].t
<1>1. /\ call[c].pc = "route" /\ t \in Trips /\ d \in Drivers
      /\ \/ /\ CallMoves(c, "launch", d, t, call[c].leg)
            /\ DriveMoves(d, drive[d].phase, drive[d].leg, drive[d].t,
                          drive[d].stop \/ drive[d].phase # "none")
         \/ CallMoves(c, "idle", None, None, "pickup") /\ UNCHANGED drive
  BY RouteMakes
<1>2. UNCHANGED <<state, owner, assigned, active, reserved, pending, cand, retry, driver, index,
                  rider, search>>
  BY DEF Route, tripVars, offerVars, agentVars
<1>3. \A e \in Drivers : /\ drive'[e].phase = drive[e].phase /\ drive'[e].leg = drive[e].leg
                         /\ drive'[e].t = drive[e].t
                         /\ drive[e].stop /\ drive[e].phase # "none" => drive'[e].stop
  BY <1>1 DEF DriveMoves
<1>0. SameCalls
  BY <1>1, QuietCall
<1>4. \A u \in Trips : TripOK(u)' /\ OwnerOK(u)'
  <2>1. \A u \in Trips : assigned[u] \in Drivers /\ OnIt(u) => OnIt(u)'
    BY <1>2, <1>3, <1>0 DEF OnIt, SameCalls
  <2>2. QED
    BY <1>2, <1>0, <2>1, TripsKept
<1>5. \A e \in Drivers : OfferOK(e)' /\ DriverOK(e)' /\ DriveOK(e)'
  BY <1>2, <1>3, <1>0, OffersKept, DriversKept
<1>6. ASSUME NEW b \in Clients PROVE CallOK(b)'
  <2>1. call[b].d = None \/ call[b].d \in Drivers
    BY TypesAre DEF TypeInv, ThreadTypes, CallRecs
  <2>2. CallOK(b) /\ CallOK(c)
    BY DEF PInv
  <2>3. CASE b = c
    BY <1>1, <1>2, <2>2, <2>3 DEF CallOK, Drives, CallMoves
  <2>4. CASE b # c
    BY <1>1, <1>2, <1>3, <2>1, <2>2, <2>4 DEF CallOK, Drives, CallMoves
  <2>5. QED
    BY <2>3, <2>4
<1>7. QED
  BY <1>4, <1>5, <1>6 DEF PInv

LEMMA LaunchKeeps ==
    ASSUME TypeInv, DriveShape, PInv, NEW c \in Clients, Launch(c) \/ LaunchFails(c)
    PROVE  PInv'
<1> DEFINE d == call[c].d
           t == call[c].t
<1>1. /\ call[c].pc = "launch" /\ t \in Trips /\ d \in Drivers /\ drive[d].phase = "none"
      /\ CallMoves(c, "idle", None, None, "pickup")
      /\ UNCHANGED drive \/ DriveMoves(d, "running", call[c].leg, t, FALSE)
  BY LaunchMakes
<1>2. UNCHANGED <<state, owner, assigned, active, reserved, pending, cand, retry, driver, index,
                  rider, search>>
  BY DEF Launch, LaunchFails, tripVars, offerVars, agentVars
<1>0. SameCalls
  BY <1>1, QuietCall
<1>3. \A u \in Trips : TripOK(u)' /\ OwnerOK(u)'
  <2>1. \A u \in Trips : assigned[u] \in Drivers /\ OnIt(u) => OnIt(u)'
    BY <1>1, <1>2, <1>0 DEF OnIt, SameCalls, DriveMoves
  <2>2. QED
    BY <1>2, <1>0, <2>1, TripsKept
<1>4. Drives(d, t, call[c].leg)
  BY <1>1 DEF PInv, CallOK
<1>5. ASSUME NEW e \in Drivers PROVE OfferOK(e)' /\ DriverOK(e)' /\ DriveOK(e)'
  <2>1. OfferOK(e)' /\ DriverOK(e)'
    BY <1>2, <1>0, OffersKept DEF PInv, DriverOK
  <2>2. DriveOK(e)'
    BY <1>1, <1>2, <1>4 DEF PInv, DriveOK, Drives, DriveMoves
  <2>3. QED
    BY <2>1, <2>2
<1>6. ASSUME NEW b \in Clients PROVE CallOK(b)'
  <2>1. call[b].d = None \/ call[b].d \in Drivers
    BY TypesAre DEF TypeInv, ThreadTypes, CallRecs
  <2>2. CallOK(b)
    BY DEF PInv
  <2>3. CASE b = c
    BY <1>1, <2>3 DEF CallOK, CallMoves
  <2>4. CASE b # c
    BY <1>1, <1>2, <2>1, <2>2, <2>4, CallFacts, Nones DEF CallOK, Drives, CallMoves, DriveMoves
  <2>5. QED
    BY <2>3, <2>4
<1>7. QED
  BY <1>3, <1>5, <1>6 DEF PInv

LEMMA CancelKeeps ==
    ASSUME "late_cancel" \notin Races, TypeInv, DriveShape, PInv,
           NEW c \in Clients, NEW t \in Trips, Cancel(c, t)
    PROVE  PInv'
<1> DEFINE d == assigned[t]
<1>1. /\ t \in active /\ CallMoves(c, "cancel", d, t, "pickup")
      /\ call[c].pc = "idle" /\ Apart(d, t)
      /\ IF d = None THEN UNCHANGED drive
         ELSE /\ d \in Drivers /\ drive[d].phase \notin {"last", "ending"}
              /\ DriveMoves(d, drive[d].phase, drive[d].leg, drive[d].t,
                            drive[d].stop \/ drive[d].phase # "none")
  BY CancelMakes
<1>2. UNCHANGED <<state, owner, assigned, active, reserved, pending, cand, retry, driver, index,
                  rider, search>>
  BY DEF Cancel, tripVars, offerVars, agentVars
<1>3. \A e \in Drivers : /\ drive'[e].phase = drive[e].phase /\ drive'[e].leg = drive[e].leg
                         /\ drive'[e].t = drive[e].t
                         /\ drive[e].stop /\ drive[e].phase # "none" => drive'[e].stop
  BY <1>1 DEF DriveMoves
<1>0. SameCalls
  BY <1>1, QuietCall
<1>4. \A u \in Trips : TripOK(u)' /\ OwnerOK(u)'
  <2>1. \A u \in Trips : assigned[u] \in Drivers /\ OnIt(u) => OnIt(u)'
    BY <1>2, <1>3, <1>0 DEF OnIt, SameCalls
  <2>2. QED
    BY <1>2, <1>0, <2>1, TripsKept
<1>5. \A e \in Drivers : OfferOK(e)' /\ DriverOK(e)' /\ DriveOK(e)'
  BY <1>2, <1>3, <1>0, OffersKept, DriversKept
<1>6. /\ state[t] \in Waiting \cup Moving
      /\ d # None => /\ d \in Drivers /\ driver[d].trip = t
                     /\ drive'[d].phase # "none" => drive'[d].phase = "running" /\ drive'[d].stop
  <2>1. TripOK(t) /\ state[t] \in Waiting \cup Moving
    BY <1>1 DEF PInv, TripOK
  <2>2. ASSUME d # None
        PROVE  /\ d \in Drivers /\ driver[d].trip = t
               /\ drive'[d].phase # "none" => drive'[d].phase = "running" /\ drive'[d].stop
    <3>1. d \in Drivers /\ OnIt(t) /\ drive[d].phase \in {"none", "running"}
      BY <1>1, <2>1, <2>2, TypesAre DEF TripOK, TypeInv, ThreadTypes, DriveRecs
    <3>2. ~OnCall(t, {"close"})
      BY <1>1, Nones DEF OnCall, Apart, Calling
    <3>3. QED
      BY <1>1, <2>2, <3>1, <3>2 DEF OnIt, DriveMoves
  <2>3. QED
    BY <2>1, <2>2
<1>7. ASSUME NEW b \in Clients PROVE CallOK(b)'
  <2>1. call[b].d = None \/ call[b].d \in Drivers
    BY TypesAre DEF TypeInv, ThreadTypes, CallRecs
  <2>2. CallOK(b)
    BY DEF PInv
  <2>3. CASE b = c
    BY <1>1, <1>2, <1>6, <2>3 DEF CallOK, CallMoves
  <2>4. CASE b # c
    BY <1>1, <1>2, <1>3, <2>1, <2>2, <2>4 DEF CallOK, Drives, CallMoves
  <2>5. QED
    BY <2>3, <2>4
<1>8. QED
  BY <1>4, <1>5, <1>7 DEF PInv

(* What a step about trip t and the drivers in D may touch. *)
Around(t, D) ==
    /\ owner' = owner
    /\ \A u \in Trips : u # t => /\ state'[u] = state[u] /\ assigned'[u] = assigned[u]
                                 /\ u \in active' <=> u \in active
                                 /\ u \in retry => u \in retry'
    /\ \A q \in Riders : q # owner[t] => rider'[q] = rider[q]
    /\ \A e \in Drivers \ D :
         /\ driver'[e] = driver[e] /\ index'[e] = index[e] /\ pending'[e] = pending[e]
         /\ drive'[e] = drive[e] /\ (e \in reserved' <=> e \in reserved)
         /\ driver[e].trip # t /\ assigned[t] # e
         /\ pending[e] = t => /\ state'[t] \in {"offer_sent"} \cup Terminal
                              /\ ~OnCall(t, {"assign"})'
                              /\ \A d \in D : pending'[d] # t
    /\ \A d \in D :
         /\ pending[d] \in {None, t} /\ pending'[d] \in {None, t} /\ driver[d].trip \in {None, t}
         /\ drive[d].phase = "ending" /\ drive[d].t # t => drive'[d] = drive[d]
    /\ \A b \in Clients : call'[b] = call[b]
         \/ /\ call[b].t \in {None, t} /\ call'[b].t \in {None, t}
            /\ call[b].d \in {None} \cup D /\ call'[b].d \in {None} \cup D

LEMMA AroundCalls ==
    ASSUME NEW t \in Trips, NEW D \in SUBSET Drivers, Around(t, D)
    PROVE  /\ \A u \in Trips \ {t} :
                /\ OnCall(u, {"offer"})' <=> OnCall(u, {"offer"})
                /\ OnCall(u, {"search"})' <=> OnCall(u, {"search"})
                /\ OnCall(u, {"search", "offer"})' <=> OnCall(u, {"search", "offer"})
                /\ OnCall(u, {"assign"})' <=> OnCall(u, {"assign"})
                /\ OnCall(u, {"close"})' <=> OnCall(u, {"close"})
           /\ \A e \in Drivers \ D : Accepting(e)' <=> Accepting(e)
<1>1. \A b \in Clients : call'[b] = call[b]
         \/ /\ call[b].t \in {None, t} /\ call'[b].t \in {None, t}
            /\ call[b].d \in {None} \cup D /\ call'[b].d \in {None} \cup D
  BY DEF Around
<1>2. QED
  BY <1>1, Nones DEF OnCall, Accepting

(* The other trips do not notice. *)
LEMMA AroundTrips ==
    ASSUME TypeInv, PInv, NEW t \in Trips, NEW D \in SUBSET Drivers, Around(t, D),
           NEW u \in Trips, u # t
    PROVE  TripOK(u)' /\ OwnerOK(u)'
<1>1. TripOK(u) /\ OwnerOK(u) /\ (owner[u] = owner[t] => owner[u] = None)
  BY DEF PInv, OwnerOK
<1>2. /\ OnCall(u, {"offer"})' <=> OnCall(u, {"offer"})
      /\ OnCall(u, {"search"})' <=> OnCall(u, {"search"})
      /\ OnCall(u, {"search", "offer"})' <=> OnCall(u, {"search", "offer"})
      /\ OnCall(u, {"assign"})' <=> OnCall(u, {"assign"})
      /\ OnCall(u, {"close"})' <=> OnCall(u, {"close"})
  BY AroundCalls
<1>3. /\ owner' = owner /\ state'[u] = state[u] /\ assigned'[u] = assigned[u]
      /\ u \in active' <=> u \in active
      /\ u \in retry => u \in retry'
      /\ owner[u] \in Riders => rider'[owner[u]] = rider[owner[u]]
  BY <1>1, Nones DEF Around
<1>4. owner[u] = None \/ owner[u] \in Riders
  BY TypesAre DEF TypeInv, TripTypes
<1>5. ASSUME assigned[u] \in Drivers, OnIt(u) PROVE OnIt(u)'
  <2>1. CASE assigned[u] \in D
    BY <1>2, <1>3, <1>5, <2>1, Nones DEF Around, OnIt
  <2>2. CASE assigned[u] \notin D
    BY <1>2, <1>3, <1>5, <2>2 DEF Around, OnIt
  <2>3. QED
    BY <2>1, <2>2
<1>6. ASSUME NEW e \in Drivers, pending[e] = u PROVE pending'[e] = u
  BY <1>6, Nones DEF Around
<1>7. TripOK(u)'
  BY <1>1, <1>2, <1>3, <1>4, <1>5, <1>6 DEF TripOK, OwnerOK, Waiting, Offerable
<1>8. OwnerOK(u)'
  BY <1>1, <1>2, <1>3, <1>4 DEF OwnerOK
<1>9. QED
  BY <1>7, <1>8

(* Nor do the other drivers ... *)
LEMMA AroundDrivers ==
    ASSUME TypeInv, DriveShape, PInv, NEW t \in Trips, NEW D \in SUBSET Drivers, Around(t, D),
           NEW e \in Drivers, e \notin D
    PROVE  OfferOK(e)' /\ DriverOK(e)' /\ DriveOK(e)'
<1>1. OfferOK(e) /\ DriverOK(e) /\ DriveOK(e)
  BY DEF PInv
<1>2. /\ driver'[e] = driver[e] /\ index'[e] = index[e] /\ pending'[e] = pending[e]
      /\ drive'[e] = drive[e] /\ (e \in reserved' <=> e \in reserved)
      /\ driver[e].trip # t /\ assigned[t] # e
      /\ pending[e] = t => /\ state'[t] \in {"offer_sent"} \cup Terminal
                           /\ ~OnCall(t, {"assign"})'
                           /\ \A d \in D : pending'[d] # t
      /\ Accepting(e)' <=> Accepting(e)
  BY AroundCalls DEF Around
<1>3. \A u \in Trips \ {t} : /\ state'[u] = state[u] /\ assigned'[u] = assigned[u]
                             /\ OnCall(u, {"assign"})' <=> OnCall(u, {"assign"})
  BY AroundCalls DEF Around
<1>4. pending[e] \in Trips \cup {None} /\ driver[e].trip \in Trips \cup {None}
      /\ drive[e].t \in Trips \cup {None}
  BY TypesAre DEF TypeInv, OfferTypes, AgentTypes, ThreadTypes, DriverRecs, DriveRecs
<1>5. OfferOK(e)'
  <2>1. ASSUME NEW f \in Drivers, pending[e] # None, pending'[f] = pending[e] PROVE f = e
    <3>1. CASE f \in D
      BY <1>2, <2>1, <3>1 DEF Around
    <3>2. CASE f \notin D
      BY <1>1, <2>1, <3>2 DEF Around, OfferOK
    <3>3. QED
      BY <3>1, <3>2
  <2>2. QED
    BY <1>1, <1>2, <1>3, <1>4, <2>1 DEF OfferOK
<1>6. DriverOK(e)'
  <2>1. ASSUME NEW u \in Trips, driver[e].trip = u
        PROVE  rider'[owner[u]] = rider[owner[u]] /\ owner' = owner
    <3>1. u # t /\ state[u] # "none"
      BY <1>1, <1>2, <2>1, Nones DEF DriverOK, Moving, Engaged
    <3>2. owner[u] \in Riders /\ owner[u] # owner[t]
      BY <3>1, Nones DEF PInv, OwnerOK
    <3>3. QED
      BY <3>2 DEF Around
  <2>2. QED
    BY <1>1, <1>2, <1>3, <1>4, <2>1 DEF DriverOK
<1>7. DriveOK(e)'
  <2>1. drive[e].phase # "none" => drive[e].t \in Trips \ {t}
    BY <1>1, <1>2 DEF DriveOK, Drives, DriveShape
  <2>2. QED
    BY <1>1, <1>2, <1>3, <2>1 DEF DriveOK, Drives
<1>8. QED
  BY <1>5, <1>6, <1>7

(* ... or other calls. *)
LEMMA AroundOtherCalls ==
    ASSUME TypeInv, PInv, NEW t \in Trips, NEW D \in SUBSET Drivers, Around(t, D),
           NEW b \in Clients, call'[b] = call[b], call[b].t # t, call[b].d \notin D
    PROVE  CallOK(b)'
<1>1. CallOK(b)
  BY DEF PInv
<1>2. CASE call[b].pc = "idle"
  BY <1>2 DEF CallOK
<1>3. CASE call[b].pc # "idle"
  <2>1. call[b].t \in Trips /\ (call[b].d = None \/ call[b].d \in Drivers \ D)
        /\ (call[b].pc \in {"assign", "route", "launch", "close"} => call[b].d \in Drivers \ D)
    BY <1>3, CallFacts, TypesAre DEF TypeInv, ThreadTypes, CallRecs
  <2>2. state'[call[b].t] = state[call[b].t] /\ assigned'[call[b].t] = assigned[call[b].t]
    BY <2>1 DEF Around
  <2>3. call[b].d # None =>
          /\ pending'[call[b].d] = pending[call[b].d] /\ driver'[call[b].d] = driver[call[b].d]
          /\ drive'[call[b].d] = drive[call[b].d]
          /\ call[b].d \in reserved' <=> call[b].d \in reserved
    BY <2>1 DEF Around
  <2>4. QED
    BY <1>1, <2>1, <2>2, <2>3, Nones DEF CallOK, Drives
<1>4. QED
  BY <1>2, <1>3

LEMMA AroundKeeps ==
    ASSUME TypeInv, DriveShape, PInv, NEW t \in Trips, NEW D \in SUBSET Drivers, Around(t, D),
           TripOK(t)', owner[t] \in Riders,
           rider'[owner[t]].status # "offline" \/ OnCall(t, {"search", "offer"})',
           \A d \in D : OfferOK(d)' /\ DriverOK(d)' /\ DriveOK(d)',
           \A b \in Clients :
               CallOK(b)' \/ (call'[b] = call[b] /\ call[b].t # t /\ call[b].d \notin D)
    PROVE  PInv'
<1>1. owner' = owner /\ \A u \in Trips : owner[t] = owner[u] => t = u
  BY Nones DEF PInv, OwnerOK, Around
<1>2. OwnerOK(t)'
  BY <1>1 DEF OwnerOK
<1>3. \A u \in Trips : TripOK(u)' /\ OwnerOK(u)'
  BY <1>2, AroundTrips
<1>4. \A e \in Drivers : OfferOK(e)' /\ DriverOK(e)' /\ DriveOK(e)'
  BY AroundDrivers
<1>5. \A b \in Clients : CallOK(b)'
  BY AroundOtherCalls
<1>6. QED
  BY <1>3, <1>4, <1>5 DEF PInv

(* What the invariant says of a driver with a trip ... *)
LEMMA OnTrip ==
    ASSUME TypeInv, PInv, NEW d \in Drivers, driver[d].trip \in Trips
    PROVE  LET t == driver[d].trip
           IN  /\ state[t] \in Moving /\ assigned[t] = d /\ t \in active /\ t \notin retry
               /\ owner[t] \in Riders /\ rider[owner[t]].trip = t
               /\ rider[owner[t]].status \in {"awaiting_pickup", "on_trip"}
               /\ pending[d] = None /\ ~Accepting(d) /\ d \notin reserved
               /\ driver[d].status \in {"en_route_pickup", "on_trip"}
               /\ index[d] = driver[d].status
               /\ \A e \in Drivers \ {d} : driver[e].trip # t
               /\ \A e \in Drivers : pending[e] # t
<1> DEFINE t == driver[d].trip
<1>1. /\ state[t] \in Moving /\ assigned[t] = d /\ rider[owner[t]].trip = t
      /\ rider[owner[t]].status \in {"awaiting_pickup", "on_trip"}
      /\ driver[d].status \in {"en_route_pickup", "on_trip"}
      /\ index[d] = driver[d].status
  BY Nones DEF PInv, DriverOK, Status
<1>2. pending[d] = None
  BY Nones DEF PInv, OfferOK
<1>3. ~Accepting(d)
  BY Nones DEF PInv, CallOK, Accepting
<1>4. d \notin reserved
  BY <1>2, <1>3 DEF PInv, OfferOK
<1>5. owner[t] \in Riders /\ t \in active /\ t \notin retry
  BY <1>1 DEF PInv, OwnerOK, TripOK, TypeInv, QueueInv, Moving, Engaged, Offerable
<1>6. \A e \in Drivers \ {d} : driver[e].trip # t
  BY <1>1, Nones DEF PInv, DriverOK
<1>7. \A e \in Drivers : pending[e] # t
  BY <1>1, Nones DEF PInv, OfferOK, Moving, Engaged, Terminal
<1>8. QED
  BY <1>1, <1>2, <1>3, <1>4, <1>5, <1>6, <1>7

(* ... and of a trip that has no driver yet. *)
LEMMA NoDriver ==
    ASSUME TypeInv, DriveShape, PInv, NEW t \in Trips, state[t] \in Waiting \cup {"none"}
    PROVE  /\ assigned[t] = None
           /\ \A e \in Drivers : /\ driver[e].trip # t /\ assigned[t] # e
                                 /\ drive[e].phase # "none" => drive[e].t # t
                                 /\ state[t] # "offer_sent" => pending[e] # t
           /\ state[t] # "none" => owner[t] \in Riders
<1>1. assigned[t] = None /\ (state[t] # "none" => owner[t] \in Riders)
  BY DEF PInv, TripOK, OwnerOK
<1>2. ASSUME NEW e \in Drivers
      PROVE  /\ driver[e].trip # t /\ assigned[t] # e
             /\ drive[e].phase # "none" => drive[e].t # t
             /\ state[t] # "offer_sent" => pending[e] # t
  BY <1>1, Nones DEF PInv, DriverOK, DriveOK, Drives, OfferOK, Waiting, Offerable, Terminal
<1>3. QED
  BY <1>1, <1>2

LEMMA ArriveKeeps ==
    ASSUME TypeInv, DriveShape, PInv, NEW d \in Drivers, Arrive(d)
    PROVE  PInv'
<1> DEFINE t == driver[d].trip
<1>1. /\ t \in Trips /\ Apart(d, t)
      /\ state[t] = "en_route_pickup" /\ state'[t] = "at_pickup"
      /\ \A u \in Trips : u # t => state'[u] = state[u]
  BY ArriveMakes
<1>2. UNCHANGED <<owner, assigned, active, reserved, pending, cand, retry, driver, index, rider,
                  drive, call, search>>
  BY DEF Arrive, offerVars, agentVars
<1>3. /\ assigned[t] = d /\ owner[t] \in Riders /\ rider[owner[t]].status # "offline"
      /\ pending[d] = None /\ ~Accepting(d) /\ d \notin reserved
      /\ \A e \in Drivers \ {d} : driver[e].trip # t /\ pending[e] # t
  BY <1>1, OnTrip
<1>4. Around(t, {d})
  BY <1>1, <1>2, <1>3 DEF Around
<1>5. TripOK(t)'
  BY <1>1, <1>2, Nones DEF PInv, TripOK, OnIt, OnCall, Waiting, Moving, Engaged, Offerable
<1>6. OfferOK(d)' /\ DriverOK(d)' /\ DriveOK(d)'
  <2>1. OfferOK(d)'
    BY <1>2, <1>3 DEF OfferOK, Accepting
  <2>2. DriverOK(d)'
    BY <1>1, <1>2, Nones DEF PInv, DriverOK, Moving, Engaged
  <2>3. DriveOK(d)'
    BY <1>1, <1>2 DEF PInv, DriveOK, Drives, DriveShape, Moving, Engaged, Terminal
  <2>4. QED
    BY <2>1, <2>2, <2>3
<1>7. ASSUME NEW b \in Clients
      PROVE  CallOK(b)' \/ (call'[b] = call[b] /\ call[b].t # t /\ call[b].d \notin {d})
  BY <1>1, <1>2, Nones DEF CallOK, Apart, Calling
<1>8. QED
  BY <1>1, <1>2, <1>3, <1>4, <1>5, <1>6, <1>7, AroundKeeps

LEMMA RequestSearchKeeps ==
    ASSUME TypeInv, DriveShape, PInv, NEW c \in Clients, RequestSearch(c)
    PROVE  PInv'
<1>1. PICK t \in Trips :
      /\ call[c].t = t /\ call[c].pc = "search" /\ state[t] = "none"
      /\ CallMoves(c, "offer", call[c].d, t, call[c].leg)
      /\ state'[t] = "requested" /\ active' = active \cup {t}
      /\ \A u \in Trips : u # t => state'[u] = state[u]
  BY RequestSearchMakes
<1>2. UNCHANGED <<owner, assigned, reserved, pending, cand, retry, driver, index, rider,
                  drive, search>>
  BY DEF RequestSearch, offerVars, agentVars
<1>3. /\ call[c].d = None /\ owner[t] \in Riders /\ assigned[t] = None
      /\ \A e \in Drivers : driver[e].trip # t /\ pending[e] # t
  BY <1>1, NoDriver DEF TypeInv, CallShape, PInv, OwnerOK, OnCall
<1>4. Around(t, {})
  <2>1. \A e \in Drivers : assigned[t] # e
    BY <1>3, Nones
  <2>2. \A b \in Clients : call'[b] = call[b] \/ (b = c /\ call'[b].t = t /\ call'[b].d = None)
    BY <1>1, <1>3 DEF CallMoves
  <2>3. QED
    BY <1>1, <1>2, <1>3, <2>1, <2>2 DEF Around
<1>5. OnCall(t, {"offer"})' /\ OnCall(t, {"search", "offer"})'
  BY <1>1 DEF OnCall, CallMoves
<1>6. TripOK(t)'
  BY <1>1, <1>2, <1>3, <1>5 DEF TripOK, Waiting, Moving, Engaged, Offerable
<1>7. ASSUME NEW b \in Clients
      PROVE  CallOK(b)' \/ (call'[b] = call[b] /\ call[b].t # t)
  <2>1. CASE b = c
    BY <1>1, <2>1 DEF CallOK, CallMoves
  <2>2. CASE b # c /\ call[b].pc = "idle"
    BY <1>1, <2>2 DEF CallOK, CallMoves
  <2>3. CASE b # c /\ call[b].pc # "idle"
    BY <1>1, <2>3, CallFacts DEF CallMoves
  <2>4. QED
    BY <2>1, <2>2, <2>3
<1>8. QED
  BY <1>1, <1>3, <1>4, <1>5, <1>6, <1>7, AroundKeeps

(* An offer for trip t, after the drivers in D0 have been released from it. *)
LEMMA OfferedKeeps ==
    ASSUME Races = {}, TypeInv, DriveShape, PInv,
           NEW t \in Trips, NEW s \in Offerable, NEW D0 \in SUBSET Drivers,
           NEW res, NEW pend \in [Drivers -> Trips \cup {None}], Offered(t, s, res, pend),
           state[t] \in Waiting, owner[t] \in Riders, res = reserved \ D0,
           \A e \in Drivers : IF e \in D0 THEN pending[e] = t /\ pend[e] = None
                              ELSE pending[e] # t /\ pend[e] = pending[e],
           UNCHANGED <<owner, assigned, driver, index, drive>>,
           \A q \in Riders : q # owner[t] => rider'[q] = rider[q],
           rider'[owner[t]] = [status |-> "requesting", trip |-> t],
           \A b \in Clients : \/ call'[b] = call[b] /\ call[b].t # t
                              \/ /\ call[b].t \in {None, t} /\ call[b].d = None
                                 /\ call'[b].pc = "idle" /\ call'[b].d = None
                                 /\ call'[b].t = None
    PROVE  PInv'
<1>1. PICK D \in SUBSET Drivers :
        /\ D0 \subseteq D /\ active' = active \cup {t}
        /\ \/ D = D0 /\ Queued(t, s, res, pend)
           \/ \E d \in Drivers : D = D0 \cup {d} /\ Sent(t, d, res, pend)
  <2>1. CASE Queued(t, s, res, pend)
    BY <2>1 DEF Offered
  <2>2. CASE \E d \in Drivers : Sent(t, d, res, pend)
    <3>1. PICK d \in Drivers : Sent(t, d, res, pend)
      BY <2>2
    <3>2. D0 \cup {d} \in SUBSET Drivers
      OBVIOUS
    <3>3. QED
      BY <3>1, <3>2 DEF Offered
  <2>3. QED
    BY <2>1, <2>2 DEF Offered
<1>2. /\ assigned[t] = None
      /\ \A e \in Drivers : /\ driver[e].trip # t /\ assigned[t] # e
                            /\ drive[e].phase # "none" => drive[e].t # t
  BY NoDriver
<1>3. /\ state'[t] \in Waiting /\ \A u \in Trips : u # t => state'[u] = state[u]
      /\ \A u \in Trips : u # t => (u \in retry => u \in retry')
  BY <1>1 DEF Offered, Queued, Sent, Waiting
<1>4. \A e \in D : /\ driver[e].trip = None
                   /\ pending[e] \in {None, t} /\ pending'[e] \in {None, t}
                   /\ drive[e].phase # "ending" /\ ~Accepting(e)
                   /\ \A b \in Clients : call[b].d = e => call[b].pc # "close"
                   /\ e \in reserved' <=> pending'[e] = t
                   /\ pending'[e] = t => state'[t] = "offer_sent"
  <2>1. ASSUME NEW e \in D0
        PROVE  /\ driver[e].trip = None /\ pending[e] = t /\ e \in reserved
               /\ drive[e].phase # "ending" /\ ~Accepting(e)
               /\ \A b \in Clients : call[b].d = e => call[b].pc # "close"
    BY <2>1, Nones DEF PInv, OfferOK, DriveOK, CallOK, Accepting
  <2>2. CASE D = D0 /\ Queued(t, s, res, pend)
    BY <2>1, <2>2, Nones DEF Queued
  <2>3. CASE \E d \in Drivers : D = D0 \cup {d} /\ Sent(t, d, res, pend)
    <3>1. PICK d \in Drivers : D = D0 \cup {d} /\ Sent(t, d, res, pend)
      BY <2>3
    <3>2. /\ d \notin res /\ driver[d].trip = None /\ ~InHand(d) /\ state'[t] = "offer_sent"
          /\ reserved' = res \cup {d} /\ pending' = [pend EXCEPT ![d] = t]
      BY <3>1 DEF Sent
    <3>3. /\ drive[d].phase # "ending" /\ ~Accepting(d)
          /\ \A b \in Clients : call[b].d = d => call[b].pc # "close"
      BY <3>2 DEF InHand, Accepting
    <3>4. pending[d] \in {None, t}
      <4>1. d \in D0 \/ d \notin reserved
        BY <3>2
      <4>2. QED
        BY <2>1, <4>1 DEF PInv, OfferOK
    <3>5. QED
      BY <2>1, <3>1, <3>2, <3>3, <3>4, Nones
  <2>4. QED
    BY <1>1, <2>2, <2>3
<1>5. \A e \in Drivers \ D : /\ pending'[e] = pending[e] /\ pending[e] # t
                             /\ e \in reserved' <=> e \in reserved
  BY <1>1 DEF Queued, Sent
<1>6. \A e, f \in Drivers : pending'[e] = t /\ pending'[f] = t => e = f
  <2>1. CASE D = D0 /\ Queued(t, s, res, pend)
    BY <2>1, Nones DEF Queued
  <2>2. CASE \E d \in Drivers : D = D0 \cup {d} /\ Sent(t, d, res, pend)
    BY <2>2, Nones DEF Sent
  <2>3. QED
    BY <1>1, <2>1, <2>2
<1>7. Around(t, D)
  BY <1>1, <1>2, <1>3, <1>4, <1>5 DEF Around
<1>8. ~OnCall(t, {"assign"})'
  BY Nones DEF OnCall
<1>9. TripOK(t)'
  <2>1. /\ state'[t] \in Offerable => t \in retry'
        /\ state'[t] = "offer_sent" => \E e \in Drivers : pending'[e] = t
    BY <1>1 DEF Queued, Sent, Offerable
  <2>2. t \in active'
    BY <1>1
  <2>3. QED
    BY <1>2, <1>3, <2>1, <2>2 DEF TripOK, Waiting, Moving, Engaged, Offerable
<1>10. ASSUME NEW e \in D PROVE OfferOK(e)' /\ DriverOK(e)' /\ DriveOK(e)'
  <2>1. Accepting(e)' <=> Accepting(e)
    BY Nones DEF Accepting
  <2>2. OfferOK(e)'
    BY <1>4, <1>6, <1>8, <2>1, Nones DEF OfferOK
  <2>3. DriverOK(e)'
    BY <1>4, Nones DEF PInv, DriverOK
  <2>4. DriveOK(e)'
    BY <1>2, <1>3, <1>4 DEF PInv, DriveOK, Drives, DriveShape
  <2>5. QED
    BY <2>2, <2>3, <2>4
<1>11. ASSUME NEW b \in Clients
       PROVE  CallOK(b)' \/ (call'[b] = call[b] /\ call[b].t # t /\ call[b].d \notin D)
  <2>1. CASE call'[b].pc = "idle"
    BY <2>1 DEF CallOK
  <2>2. CASE call'[b].pc # "idle" /\ call[b].d \in D
    <3>1. call'[b] = call[b] /\ call[b].t \in Trips \ {t} /\ call[b].d \in Drivers
      BY <2>2, CallFacts
    <3>2. CallOK(b) /\ OfferOK(call[b].d) /\ driver[call[b].d].trip = None
          /\ ~Accepting(call[b].d)
      BY <1>4, <2>2 DEF PInv
    <3>3. call[b].pc \notin {"assign", "cancel"}
      BY <3>1, <3>2, Nones DEF CallOK, Accepting
    <3>4. call[b].pc # "close"
      BY <1>4, <2>2
    <3>5. QED
      BY <1>3, <3>1, <3>2, <3>3, <3>4 DEF CallOK, Drives
  <2>3. CASE call'[b].pc # "idle" /\ call[b].d \notin D
    BY <2>3
  <2>4. QED
    BY <2>1, <2>2, <2>3
<1>12. QED
  BY <1>7, <1>9, <1>10, <1>11, AroundKeeps

(* The same when no driver has to be released first. *)
LEMMA FirstOfferKeeps ==
    ASSUME Races = {}, TypeInv, DriveShape, PInv,
           NEW t \in Trips, NEW s \in Offerable, Offered(t, s, reserved, pending),
           state[t] \in Waiting, owner[t] \in Riders, \A e \in Drivers : pending[e] # t,
           UNCHANGED <<owner, assigned, driver, index, drive>>,
           \A q \in Riders : q # owner[t] => rider'[q] = rider[q],
           rider'[owner[t]] = [status |-> "requesting", trip |-> t],
           \A b \in Clients : \/ call'[b] = call[b] /\ call[b].t # t
                              \/ /\ call[b].t \in {None, t} /\ call[b].d = None
                                 /\ call'[b].pc = "idle" /\ call'[b].d = None
                                 /\ call'[b].t = None
    PROVE  PInv'
<1> DEFINE D0 == {}
<1>1. /\ D0 \in SUBSET Drivers /\ reserved = reserved \ D0
      /\ pending \in [Drivers -> Trips \cup {None}]
      /\ \A e \in Drivers : IF e \in D0 THEN pending[e] = t /\ pending[e] = None
                            ELSE pending[e] # t /\ pending[e] = pending[e]
  BY TypesAre DEF TypeInv, OfferTypes
<1> HIDE DEF D0
<1>2. QED
  BY <1>1, OfferedKeeps

LEMMA RequestOfferKeeps ==
    ASSUME Races = {}, TypeInv, DriveShape, PInv, NEW c \in Clients, RequestOffer(c)
    PROVE  PInv'
<1>1. PICK t \in Trips :
      /\ call[c].t = t /\ call[c].pc = "offer"
      /\ CallMoves(c, "idle", None, None, "pickup")
      /\ Offered(t, "requested", reserved, pending)
      /\ owner[t] \in Riders => rider'[owner[t]] = [status |-> "requesting", trip |-> t]
      /\ \A q \in Riders : q # owner[t] => rider'[q] = rider[q]
  BY RequestOfferMakes
<1>2. /\ state[t] = "requested" /\ call[c].d = None /\ "requested" \in Offerable
      /\ state[t] \in Waiting
  BY <1>1 DEF TypeInv, QueueInv, CallShape, Waiting, Offerable
<1>3. owner[t] \in Riders /\ \A e \in Drivers : pending[e] # t
  BY <1>2, NoDriver
<1>4. UNCHANGED <<owner, assigned, driver, index, drive>>
  BY DEF RequestOffer
<1>5. ASSUME NEW b \in Clients
      PROVE  \/ call'[b] = call[b] /\ call[b].t # t
             \/ /\ call[b].t \in {None, t} /\ call[b].d = None
                /\ call'[b].pc = "idle" /\ call'[b].d = None /\ call'[b].t = None
  <2>1. CASE b = c
    BY <1>1, <1>2, <2>1 DEF CallMoves
  <2>2. CASE b # c /\ call[b].pc = "idle"
    BY <1>1, <2>2 DEF CallMoves, TypeInv, CallShape
  <2>3. CASE b # c /\ call[b].pc # "idle"
    BY <1>1, <2>3, CallFacts DEF CallMoves
  <2>4. QED
    BY <2>1, <2>2, <2>3
<1>6. QED
  BY <1>1, <1>2, <1>3, <1>4, <1>5, FirstOfferKeeps

(* No call is at work on a trip that is offered or searched for. *)
LEMMA WaitingTrip ==
    ASSUME TypeInv, DriveShape, PInv, NEW t \in Trips, state[t] \in Waiting,
           NEW b \in Clients, call[b].t = t
    PROVE  \/ call[b].pc \in {"offer", "cancel"}
           \/ call[b].pc = "assign" /\ state[t] = "offer_sent"
<1>1. call[b].pc # "idle" /\ call[b].pc # "search"
  BY Nones DEF TypeInv, CallShape, QueueInv, Waiting, Offerable
<1>2. call[b].pc \in {"route", "launch", "close"} => call[b].d \in Drivers /\ assigned[t] = call[b].d
  BY <1>1 DEF PInv, CallOK, Drives, TypeInv, CallShape
<1>3. call[b].pc \notin {"route", "launch", "close"}
  BY <1>2, NoDriver
<1>4. call[b].pc = "assign" => state[t] = "offer_sent"
  BY DEF PInv, CallOK
<1>5. call[b].pc \in {"idle", "assign", "route", "launch", "close", "cancel", "search", "offer"}
  BY TypesAre DEF TypeInv, ThreadTypes, CallRecs
<1>6. QED
  BY <1>1, <1>3, <1>4, <1>5

LEMMA SearchEndsKeeps ==
    ASSUME Races = {}, TypeInv, DriveShape, PInv, SearchEnds
    PROVE  PInv'
<1>1. PICK t \in Trips :
      /\ search.t = t /\ state[t] \in Offerable /\ t \in active
      /\ \/ Offered(t, state[t], reserved, pending)
         \/ /\ retry' = retry \cup {t}
            /\ UNCHANGED <<state, active, reserved, pending>>
  BY SearchEndsMakes
<1>2. UNCHANGED <<owner, assigned, driver, index, rider, drive, call>>
  BY DEF SearchEnds, agentVars
<1>3. state[t] \in Waiting /\ state[t] # "offer_sent"
  BY <1>1 DEF Waiting, Offerable
<1>4. \A b \in Clients : call[b].t # t
  BY <1>1, <1>3, WaitingTrip DEF TypeInv, QueueInv
<1>5. owner[t] \in Riders /\ \A e \in Drivers : pending[e] # t
  BY <1>3, NoDriver DEF Waiting, Offerable
<1>6. rider[owner[t]] = [status |-> "requesting", trip |-> t]
  BY <1>3, <1>4 DEF PInv, TripOK, OnCall
<1>7. CASE Offered(t, state[t], reserved, pending)
  BY <1>1, <1>2, <1>3, <1>4, <1>5, <1>6, <1>7, FirstOfferKeeps
<1>8. CASE retry' = retry \cup {t} /\ UNCHANGED <<state, active, reserved, pending>>
  <2>1. ASSUME NEW u \in Trips PROVE TripOK(u)' /\ OwnerOK(u)'
    BY <1>2, <1>8 DEF PInv, TripOK, OwnerOK, OnIt, OnCall
  <2>2. ASSUME NEW e \in Drivers PROVE OfferOK(e)' /\ DriverOK(e)' /\ DriveOK(e)'
    BY <1>2, <1>8 DEF PInv, OfferOK, DriverOK, DriveOK, Drives, Accepting, OnCall
  <2>3. ASSUME NEW b \in Clients PROVE CallOK(b)'
    BY <1>2, <1>8 DEF PInv, CallOK, Drives
  <2>4. QED
    BY <2>1, <2>2, <2>3 DEF PInv
<1>9. QED
  BY <1>1, <1>7, <1>8

(* An offer that its trip no longer waits for is taken back. *)
LEMMA ReleaseKeeps ==
    ASSUME TypeInv, DriveShape, PInv, NEW d \in Drivers, pending[d] \in Trips,
           state[pending[d]] # "offer_sent", Apart(d, pending[d]),
           reserved' = reserved \ {d}, pending' = [pending EXCEPT ![d] = None],
           index' = Indexed(d, "available"),
           UNCHANGED <<state, owner, assigned, active, retry, driver, rider, drive, call>>
    PROVE  PInv'
<1>1. /\ driver[d].trip = None
      /\ pending'[d] = None /\ \A e \in Drivers \ {d} : pending'[e] = pending[e]
      /\ index' = index
  <2>1. driver[d].trip = None
    BY Nones DEF PInv, OfferOK
  <2>2. index[d] \in {"absent", "available"}
    BY <2>1 DEF PInv, DriverOK
  <2>3. QED
    BY <2>1, <2>2, TypesAre DEF Indexed, TypeInv, AgentTypes, OfferTypes
<1>2. ~Accepting(d) /\ \A b \in Clients : call[b].d # d
  BY Nones DEF Apart, Calling, Accepting, TypeInv, CallShape
<1>3. ASSUME NEW u \in Trips PROVE TripOK(u)' /\ OwnerOK(u)'
  <2>1. (\E e \in Drivers : pending[e] = u) /\ state[u] = "offer_sent"
          => \E e \in Drivers : pending'[e] = u
    BY <1>1
  <2>2. QED
    BY <2>1 DEF PInv, TripOK, OwnerOK, OnIt, OnCall
<1>4. ASSUME NEW e \in Drivers PROVE OfferOK(e)' /\ DriverOK(e)' /\ DriveOK(e)'
  <2>1. OfferOK(e)'
    BY <1>1, <1>2, Nones DEF PInv, OfferOK, Accepting, OnCall
  <2>2. DriverOK(e)' /\ DriveOK(e)'
    BY <1>1 DEF PInv, DriverOK, DriveOK, Drives
  <2>3. QED
    BY <2>1, <2>2
<1>5. ASSUME NEW b \in Clients PROVE CallOK(b)'
  <2>1. CallOK(b) /\ (call[b].d = None \/ call[b].d \in Drivers)
    BY TypesAre DEF PInv, TypeInv, ThreadTypes, CallRecs
  <2>2. QED
    BY <1>1, <1>2, <2>1, CallFacts DEF CallOK, Drives
<1>6. QED
  BY <1>3, <1>4, <1>5 DEF PInv

LEMMA DeclineKeeps ==
    ASSUME Races = {}, TypeInv, DriveShape, PInv,
           NEW d \in Drivers, NEW n \in {"offer_rejected", "offer_expired"}, Decline(d, n)
    PROVE  PInv'
<1>1. PICK t \in Trips :
      /\ pending[d] = t /\ Apart(d, t) /\ index' = Indexed(d, "available")
      /\ IF state[t] = "offer_sent"
         THEN Offered(t, n, reserved \ {d}, [pending EXCEPT ![d] = None])
         ELSE /\ reserved' = reserved \ {d} /\ pending' = [pending EXCEPT ![d] = None]
              /\ UNCHANGED <<state, active, retry>>
  BY DeclineMakes
<1>2. UNCHANGED <<owner, assigned, driver, rider, drive, call>>
  BY DEF Decline
<1>3. CASE state[t] # "offer_sent"
  BY <1>1, <1>2, <1>3, ReleaseKeeps
<1>4. CASE state[t] = "offer_sent"
  <2>1. state[t] \in Waiting /\ n \in Offerable
    BY <1>4 DEF Waiting, Offerable
  <2>2. owner[t] \in Riders
    BY <2>1, NoDriver, <1>4
  <2>3. \A b \in Clients : call[b].t # t
    BY <1>1, Nones DEF Apart, Calling, TypeInv, CallShape
  <2>4. rider[owner[t]] = [status |-> "requesting", trip |-> t]
    BY <2>1, <2>3 DEF PInv, TripOK, OnCall
  <2>5. index' = index
    <3>1. driver[d].trip = None
      BY <1>1, Nones DEF PInv, OfferOK
    <3>2. index[d] \in {"absent", "available"}
      BY <3>1 DEF PInv, DriverOK
    <3>3. QED
      BY <1>1, <3>2, TypesAre DEF Indexed, TypeInv, AgentTypes
  <2> DEFINE pend == [pending EXCEPT ![d] = None]
             res == reserved \ {d}
  <2>6. /\ pend \in [Drivers -> Trips \cup {None}]
        /\ \A e \in Drivers : IF e \in {d} THEN pending[e] = t /\ pend[e] = None
                              ELSE pending[e] # t /\ pend[e] = pending[e]
    <3>1. \A e \in Drivers \ {d} : pending[e] # t
      BY <1>1, Nones DEF PInv, OfferOK
    <3>2. QED
      BY <1>1, <3>1, TypesAre DEF TypeInv, OfferTypes
  <2>7. Offered(t, n, res, pend) /\ {d} \in SUBSET Drivers /\ res = reserved \ {d}
    BY <1>1, <1>4
  <2>8. /\ UNCHANGED <<owner, assigned, driver, index, drive>>
        /\ \A q \in Riders : q # owner[t] => rider'[q] = rider[q]
        /\ rider'[owner[t]] = [status |-> "requesting", trip |-> t]
        /\ \A b \in Clients : call'[b] = call[b] /\ call[b].t # t
    BY <1>2, <2>3, <2>4, <2>5
  <2> DEFINE D0 == {d}
  <2>9. /\ D0 \in SUBSET Drivers /\ res = reserved \ D0
        /\ \A e \in Drivers : IF e \in D0 THEN pending[e] = t /\ pend[e] = None
                              ELSE pending[e] # t /\ pend[e] = pending[e]
    BY <2>6, <2>7
  <2> HIDE DEF pend, res, D0
  <2>10. QED
    BY <2>1, <2>2, <2>6, <2>7, <2>8, <2>9, OfferedKeeps
<1>5. QED
  BY <1>3, <1>4

(* The other calls, when one begins about trip t and driver d, or goes on. *)
LEMMA OneCallMoves ==
    ASSUME TypeInv, NEW c \in Clients, NEW t \in Trips, NEW d \in Drivers,
           \/ call[c].pc = "idle" /\ Apart(d, t)
           \/ call[c].pc # "idle" /\ call[c].t = t /\ call[c].d = d,
           NEW pc, NEW e, NEW u, NEW leg, CallMoves(c, pc, e, u, leg)
    PROVE  /\ \A b \in Clients \ {c} : call'[b] = call[b] /\ call[b].t # t /\ call[b].d # d
           /\ call[c].t \in {None, t} /\ call[c].d \in {None, d}
<1>1. \A b \in Clients \ {c} : call'[b] = call[b]
  BY DEF CallMoves
<1>2. ASSUME NEW b \in Clients, call[b].pc = "idle" PROVE call[b].t # t /\ call[b].d # d
  BY <1>2, Nones DEF TypeInv, CallShape
<1>3. ASSUME NEW b \in Clients \ {c}, call[b].pc # "idle" PROVE call[b].t # t /\ call[b].d # d
  BY <1>3, Nones, CallFacts DEF Apart, Calling
<1>4. call[c].t \in {None, t} /\ call[c].d \in {None, d}
  BY DEF TypeInv, CallShape
<1>5. QED
  BY <1>1, <1>2, <1>3, <1>4

LEMMA AcceptKeeps ==
    ASSUME TypeInv, DriveShape, PInv, NEW c \in Clients, NEW d \in Drivers, Accept(c, d)
    PROVE  PInv'
<1>1. PICK t \in Trips :
      /\ pending[d] = t /\ driver[d].status = "available" /\ Apart(d, t)
      /\ pending' = [pending EXCEPT ![d] = None]
      /\ IF t \in active
         THEN CallMoves(c, "assign", d, t, "auto") /\ call[c].pc = "idle"
              /\ UNCHANGED <<reserved, index>>
         ELSE /\ UNCHANGED call /\ reserved' = reserved \ {d}
              /\ index' = Indexed(d, "available")
  BY AcceptMakes
<1>2. UNCHANGED <<state, owner, assigned, active, retry, driver, rider, drive>>
  BY DEF Accept, tripVars
<1>3. CASE t \notin active
  <2>1. state[t] # "offer_sent"
    BY <1>3 DEF PInv, TripOK, Waiting
  <2>2. QED
    BY <1>1, <1>2, <1>3, <2>1, ReleaseKeeps
<1>4. CASE t \in active
  <2>1. CallMoves(c, "assign", d, t, "auto") /\ call[c].pc = "idle" /\ UNCHANGED <<reserved, index>>
    BY <1>1, <1>4
  <2>2. /\ state[t] = "offer_sent" /\ state[t] \in Waiting /\ d \in reserved
        /\ driver[d].trip = None
    <3>1. state[t] \in {"offer_sent"} \cup Terminal /\ d \in reserved /\ driver[d].trip = None
      BY <1>1, Nones DEF PInv, OfferOK
    <3>2. state[t] \in Waiting \cup Moving
      BY <1>4 DEF PInv, TripOK
    <3>3. QED
      BY <3>1, <3>2 DEF Waiting, Moving, Engaged, Offerable, Terminal
  <2>3. /\ assigned[t] = None /\ owner[t] \in Riders
        /\ \A e \in Drivers : /\ driver[e].trip # t /\ assigned[t] # e
                              /\ e # d => pending[e] # t
    BY <1>1, <2>2, Nones, NoDriver DEF PInv, OfferOK
  <2>4. /\ \A b \in Clients \ {c} : call'[b] = call[b] /\ call[b].t # t /\ call[b].d # d
        /\ call[c].t \in {None, t} /\ call[c].d \in {None, d}
    BY <1>1, <2>1, OneCallMoves
  <2>5. pending'[d] = None /\ \A e \in Drivers \ {d} : pending'[e] = pending[e]
    BY <1>1, TypesAre DEF TypeInv, OfferTypes
  <2>6. Around(t, {d})
    BY <1>1, <1>2, <2>1, <2>2, <2>3, <2>4, <2>5 DEF Around, CallMoves
  <2>7. rider[owner[t]] = [status |-> "requesting", trip |-> t]
    BY <2>1, <2>2, <2>4 DEF PInv, TripOK, OnCall
  <2>8. TripOK(t)'
    <3>1. OnCall(t, {"assign"})'
      BY <2>1 DEF OnCall, CallMoves
    <3>2. QED
      BY <1>2, <1>4, <2>2, <2>3, <2>7, <3>1 DEF TripOK, Offerable, Moving, Engaged
  <2>9. OfferOK(d)' /\ DriverOK(d)' /\ DriveOK(d)'
    <3>1. OfferOK(d)'
      BY <2>1, <2>2, <2>5 DEF OfferOK, Accepting, CallMoves
    <3>2. DriverOK(d)'
      BY <1>2, <2>1 DEF PInv, DriverOK
    <3>3. DriveOK(d)'
      BY <1>2, <2>1 DEF PInv, DriveOK, Drives
    <3>4. QED
      BY <3>1, <3>2, <3>3
  <2>10. CallOK(c)'
    BY <1>1, <1>2, <2>1, <2>2, <2>5 DEF CallOK, CallMoves
  <2>11. QED
    BY <1>2, <2>3, <2>4, <2>6, <2>7, <2>8, <2>9, <2>10, AroundKeeps
<1>5. QED
  BY <1>3, <1>4

LEMMA AssignKeeps ==
    ASSUME TypeInv, DriveShape, PInv, NEW c \in Clients, Assign(c)
    PROVE  PInv'
<1>1. PICK t \in Trips, d \in Drivers :
      /\ call[c].t = t /\ call[c].d = d /\ call[c].pc = "assign"
  BY AssignMakes
<1>2. /\ state[t] = "offer_sent" /\ state[t] \in Waiting
      /\ pending[d] = None /\ call[c].leg = "auto"
      /\ driver[d].status = "available" /\ driver[d].trip = None
  BY <1>1 DEF PInv, CallOK, Waiting
<1>3. /\ Agents(d, "en_route_pickup", t) /\ assigned'[t] = d
      /\ state'[t] = "en_route_pickup" /\ CallMoves(c, "route", d, t, "auto")
      /\ \A u \in Trips : u # t => state'[u] = state[u] /\ assigned'[u] = assigned[u]
      /\ owner[t] \in Riders =>
           /\ rider'[owner[t]].trip = rider[owner[t]].trip
           /\ rider[owner[t]].status = "requesting" =>
                rider'[owner[t]].status = "awaiting_pickup"
      /\ \A q \in Riders : q # owner[t] => rider'[q] = rider[q]
  BY <1>1, <1>2, AssignMakes
<1>4. UNCHANGED <<owner, active, pending, retry, drive>> /\ reserved' = reserved \ {d}
  BY <1>1 DEF Assign
<1>5. /\ assigned[t] = None /\ owner[t] \in Riders
      /\ \A e \in Drivers : /\ driver[e].trip # t /\ assigned[t] # e
                            /\ drive[e].phase # "none" => drive[e].t # t
  BY <1>2, NoDriver
<1>6. /\ \A b \in Clients \ {c} : call'[b] = call[b] /\ call[b].t # t /\ call[b].d # d
      /\ call[c].t \in {None, t} /\ call[c].d \in {None, d}
  BY <1>1, <1>3, OneCallMoves
<1>7. OnCall(t, {"assign"}) /\ Accepting(d)
  BY <1>1 DEF OnCall, Accepting
<1>8. d \in reserved /\ drive[d].phase # "ending" /\ \A e \in Drivers : pending[e] # t
  BY <1>7, Nones DEF PInv, OfferOK, DriveOK
<1>9. rider[owner[t]] = [status |-> "requesting", trip |-> t]
  BY <1>1, <1>2, <1>6 DEF PInv, TripOK, OnCall
<1>10. Around(t, {d})
  BY <1>2, <1>3, <1>4, <1>5, <1>6, <1>8 DEF Around, Agents, CallMoves
<1>11. TripOK(t)'
  <2>1. t \in active
    BY <1>2 DEF PInv, TripOK
  <2>2. OnIt(t)'
    BY <1>3 DEF OnIt, Agents
  <2>3. QED
    BY <1>3, <1>4, <2>1, <2>2 DEF TripOK, Waiting, Moving, Engaged, Offerable
<1>12. OfferOK(d)' /\ DriverOK(d)' /\ DriveOK(d)'
  <2>1. ~Accepting(d)'
    BY <1>3, <1>6 DEF Accepting, CallMoves
  <2>2. OfferOK(d)'
    BY <1>2, <1>4, <2>1 DEF OfferOK
  <2>3. index[d] = "available"
    BY <1>2 DEF PInv, DriverOK
  <2>4. DriverOK(d)'
    BY <1>3, <1>4, <1>5, <1>9, <2>3, Nones DEF DriverOK, Agents, Status, Moving, Engaged
  <2>5. DriveOK(d)'
    BY <1>3, <1>4, <1>5, <1>8 DEF PInv, DriveOK, Drives, DriveShape
  <2>6. QED
    BY <2>2, <2>4, <2>5
<1>13. CallOK(c)'
  BY <1>3 DEF CallOK, CallMoves, Drives, Moving, Engaged
<1>14. rider'[owner[t]].status # "offline"
  BY <1>3, <1>5, <1>9
<1>15. QED
  BY <1>5, <1>6, <1>10, <1>11, <1>12, <1>13, <1>14, AroundKeeps

LEMMA StartKeeps ==
    ASSUME Races = {}, TypeInv, DriveShape, PInv,
           NEW c \in Clients, NEW d \in Drivers, Start(c, d)
    PROVE  PInv'
<1>1. PICK t \in Trips : driver[d].trip = t /\ t \in active
  BY StartMakes
<1>2. state[t] = "at_pickup"
  BY <1>1 DEF Start
<1>3. /\ Agents(d, "on_trip", t)
      /\ owner[t] \in Riders => /\ rider'[owner[t]].status = "on_trip"
                                /\ rider'[owner[t]].trip = rider[owner[t]].trip
      /\ \A q \in Riders : q # owner[t] => rider'[q] = rider[q]
      /\ CallMoves(c, "route", d, t, "dest") /\ call[c].pc = "idle" /\ Apart(d, t)
      /\ state'[t] = "in_transit" /\ \A u \in Trips : u # t => state'[u] = state[u]
  BY <1>1, <1>2, StartMakes
<1>4. UNCHANGED <<owner, assigned, active, reserved, pending, retry, drive>>
  BY DEF Start, offerVars
<1>5. /\ assigned[t] = d /\ owner[t] \in Riders /\ rider[owner[t]].trip = t
      /\ pending[d] = None /\ d \notin reserved
      /\ index[d] = driver[d].status /\ driver[d].status \in {"en_route_pickup", "on_trip"}
      /\ \A e \in Drivers \ {d} : driver[e].trip # t
      /\ \A e \in Drivers : pending[e] # t
  BY <1>1, OnTrip
<1>6. /\ \A b \in Clients \ {c} : call'[b] = call[b] /\ call[b].t # t /\ call[b].d # d
      /\ call[c].t \in {None, t} /\ call[c].d \in {None, d}
  BY <1>3, OneCallMoves
<1>7. Around(t, {d})
  BY <1>1, <1>3, <1>4, <1>5, <1>6 DEF Around, Agents, CallMoves
<1>8. TripOK(t)'
  <2>1. OnIt(t)'
    BY <1>3, <1>4, <1>5 DEF OnIt, Agents
  <2>2. QED
    BY <1>1, <1>3, <1>4, <1>5, <2>1 DEF TripOK, Waiting, Moving, Engaged, Offerable
<1>9. OfferOK(d)' /\ DriverOK(d)' /\ DriveOK(d)'
  <2>1. ~Accepting(d)'
    BY <1>3, <1>6 DEF Accepting, CallMoves
  <2>2. OfferOK(d)'
    BY <1>4, <1>5, <2>1 DEF OfferOK
  <2>3. DriverOK(d)'
    BY <1>3, <1>4, <1>5, Nones DEF DriverOK, Agents, Status, Moving, Engaged
  <2>4. drive[d].phase # "ending"
    BY <1>1, Nones DEF PInv, DriveOK
  <2>5. drive[d].phase # "none" /\ drive[d].t = t => drive[d].leg # "dest"
    BY <1>2 DEF PInv, DriveOK, Drives, Terminal
  <2>6. DriveOK(d)'
    BY <1>2, <1>3, <1>4, <2>4, <2>5 DEF PInv, DriveOK, Drives, DriveShape, Moving, Engaged
  <2>7. QED
    BY <2>2, <2>3, <2>6
<1>10. CallOK(c)'
  BY <1>3, <1>4, <1>5 DEF CallOK, CallMoves, Drives
<1>11. QED
  BY <1>3, <1>5, <1>6, <1>7, <1>8, <1>9, <1>10, AroundKeeps

LEMMA CompleteKeeps ==
    ASSUME TypeInv, DriveShape, PInv, NEW c \in Clients, NEW d \in Drivers, Complete(c, d)
    PROVE  PInv'
<1>1. PICK t \in Trips :
      /\ driver[d].trip = t /\ t \in active /\ driver[d].status = "on_trip"
      /\ CallMoves(c, "close", d, t, "dest") /\ call[c].pc = "idle" /\ Apart(d, t)
      /\ Agents(d, "available", None)
      /\ \A q \in Riders : q # owner[t] => rider'[q] = rider[q]
      /\ owner[t] \in Riders => rider'[owner[t]] = [status |-> "idle", trip |-> None]
  BY CompleteMakes
<1>2. UNCHANGED <<state, owner, assigned, active, reserved, pending, retry, drive>>
  BY DEF Complete, tripVars, offerVars
<1>3. /\ assigned[t] = d /\ owner[t] \in Riders
      /\ pending[d] = None /\ d \notin reserved
      /\ index[d] = driver[d].status /\ driver[d].status \in {"en_route_pickup", "on_trip"}
      /\ \A e \in Drivers \ {d} : driver[e].trip # t
      /\ \A e \in Drivers : pending[e] # t
  BY <1>1, OnTrip
<1>4. state[t] = "in_transit"
  BY <1>1, Nones DEF PInv, DriverOK, Status
<1>5. /\ \A b \in Clients \ {c} : call'[b] = call[b] /\ call[b].t # t /\ call[b].d # d
      /\ call[c].t \in {None, t} /\ call[c].d \in {None, d}
  BY <1>1, OneCallMoves
<1>6. Around(t, {d})
  BY <1>1, <1>2, <1>3, <1>5 DEF Around, Agents, CallMoves
<1>7. TripOK(t)'
  <2>1. OnCall(t, {"close"})'
    BY <1>1 DEF OnCall, CallMoves
  <2>2. QED
    BY <1>1, <1>2, <1>3, <1>4, <2>1 DEF TripOK, OnIt, Waiting, Moving, Engaged, Offerable
<1>8. OfferOK(d)' /\ DriverOK(d)' /\ DriveOK(d)'
  <2>1. ~Accepting(d)'
    BY <1>1, <1>5 DEF Accepting, CallMoves
  <2>2. OfferOK(d)'
    BY <1>2, <1>3, <2>1 DEF OfferOK
  <2>3. DriverOK(d)'
    BY <1>1, <1>3 DEF DriverOK, Agents
  <2>4. DriveOK(d)'
    BY <1>1, <1>2, <1>3 DEF PInv, DriveOK, Drives, Agents
  <2>5. QED
    BY <2>2, <2>3, <2>4
<1>9. CallOK(c)'
  BY <1>1, <1>2, <1>3, <1>4 DEF CallOK, CallMoves, Drives, Agents
<1>10. QED
  BY <1>1, <1>3, <1>5, <1>6, <1>7, <1>8, <1>9, AroundKeeps

(* The second half of the end of a trip, by its call or by its drive. *)
LEMMA EndKeeps ==
    ASSUME TypeInv, DriveShape, PInv, NEW t \in Trips, NEW d \in Drivers,
           assigned[t] = d, state[t] \in Terminal \cup {"in_transit"},
           d \notin reserved, driver[d].trip = None,
           IF state[t] = "in_transit" THEN Closed(t, "completed")
           ELSE UNCHANGED <<state, active, reserved>>,
           UNCHANGED <<owner, assigned, pending, retry, driver, index, rider>>,
           \A b \in Clients : \/ call'[b] = call[b]
                              \/ /\ call[b].t = t /\ call[b].d = d /\ call'[b].pc = "idle"
                                 /\ call'[b].d = None /\ call'[b].t = None,
           \/ drive' = drive
           \/ DriveMoves(d, "none", "pickup", None, FALSE) /\ drive[d].t = t
    PROVE  PInv'
<1>1. /\ state'[t] \in Terminal /\ \A u \in Trips : u # t => state'[u] = state[u]
      /\ \A u \in Trips : u # t => (u \in active' <=> u \in active)
      /\ t \notin active'
      /\ \A e \in Drivers : e \in reserved' <=> e \in reserved
  <2>1. CASE state[t] = "in_transit"
    BY <2>1 DEF Closed, Terminal
  <2>2. CASE state[t] # "in_transit"
    BY <2>2 DEF PInv, TripOK, Waiting, Moving, Engaged, Offerable, Terminal
  <2>3. QED
    BY <2>1, <2>2
<1>2. pending[d] = None /\ ~Accepting(d)
  BY DEF PInv, OfferOK
<1>3. \A b \in Clients : call[b].t = t => call[b].pc \notin {"assign", "search", "offer"}
  BY DEF PInv, CallOK, TypeInv, QueueInv, Terminal
<1>4. ~OnCall(t, {"assign"})' /\ ~OnCall(t, {"search", "offer"}) /\ ~Accepting(d)'
  <2>1. \A b \in Clients : call'[b] = call[b] \/ call'[b].pc = "idle"
    OBVIOUS
  <2>2. QED
    BY <1>2, <1>3, <2>1 DEF OnCall, Accepting
<1>5. owner[t] \in Riders /\ rider[owner[t]].status # "offline"
  BY <1>4, Nones DEF PInv, OwnerOK, Terminal
<1>6. \A e \in Drivers \ {d} : driver[e].trip # t /\ assigned[t] # e
  BY Nones DEF PInv, DriverOK
<1>7. /\ \A e \in Drivers \ {d} : drive'[e] = drive[e]
      /\ drive[d].t # t => drive' = drive
  BY DEF DriveMoves
<1>8. Around(t, {d})
  BY <1>1, <1>2, <1>4, <1>6, <1>7, Nones DEF Around
<1>9. TripOK(t)'
  BY <1>1 DEF TripOK, Waiting, Moving, Engaged, Offerable, Terminal
<1>10. OfferOK(d)' /\ DriverOK(d)' /\ DriveOK(d)'
  <2>1. OfferOK(d)'
    BY <1>1, <1>2, <1>4 DEF OfferOK
  <2>2. DriverOK(d)'
    BY Nones DEF PInv, DriverOK
  <2>3. DriveOK(d)'
    BY <1>1 DEF PInv, DriveOK, Drives, DriveShape, DriveMoves
  <2>4. QED
    BY <2>1, <2>2, <2>3
<1>11. ASSUME NEW b \in Clients
       PROVE  CallOK(b)' \/ (call'[b] = call[b] /\ call[b].t # t /\ call[b].d \notin {d})
  <2>1. CASE call'[b].pc = "idle"
    BY <2>1 DEF CallOK
  <2>2. CASE call'[b] = call[b] /\ call[b].pc # "idle"
    <3>1. CallOK(b) /\ call[b].t \in Trips
      BY <2>2, CallFacts DEF PInv
    <3>2. CASE call[b].d = d
      BY <1>1, <1>2, <2>2, <3>1, <3>2, Nones DEF CallOK, Drives, Accepting
    <3>3. CASE call[b].d # d /\ call[b].t = t
      BY <1>1, <1>3, <2>2, <3>1, <3>3, CallFacts, Nones DEF CallOK, Drives, Waiting, Moving, Terminal
    <3>4. QED
      BY <2>2, <3>2, <3>3
  <2>3. QED
    BY <2>1, <2>2
<1>12. QED
  BY <1>5, <1>8, <1>9, <1>10, <1>11, AroundKeeps

LEMMA CompleteTripKeeps ==
    ASSUME TypeInv, DriveShape, PInv, NEW c \in Clients, CompleteTrip(c)
    PROVE  PInv'
<1>1. PICK t \in Trips, d \in Drivers :
      /\ call[c].t = t /\ call[c].d = d /\ call[c].pc = "close"
      /\ CallMoves(c, "idle", None, None, "pickup")
      /\ IF state[t] = "in_transit" THEN Closed(t, "completed")
         ELSE UNCHANGED <<state, active, reserved>>
  BY CompleteTripMakes
<1>2. UNCHANGED <<owner, assigned, pending, retry, driver, index, rider, drive>>
  BY DEF CompleteTrip, agentVars
<1>3. /\ assigned[t] = d /\ state[t] \in Terminal \cup {"in_transit"}
      /\ d \notin reserved /\ driver[d].trip = None
  BY <1>1 DEF PInv, CallOK, Drives
<1>4. \A b \in Clients : \/ call'[b] = call[b]
                         \/ /\ call[b].t = t /\ call[b].d = d /\ call'[b].pc = "idle"
                            /\ call'[b].d = None /\ call'[b].t = None
  BY <1>1 DEF CallMoves
<1>5. QED
  BY <1>1, <1>2, <1>3, <1>4, EndKeeps

LEMMA DriveCompletesKeeps ==
    ASSUME TypeInv, DriveShape, PInv, NEW d \in Drivers, DriveCompletes(d)
    PROVE  PInv'
<1>1. PICK t \in Trips :
      /\ drive[d].t = t /\ drive[d].phase = "ending"
      /\ DriveMoves(d, "none", "pickup", None, FALSE)
      /\ IF state[t] = "in_transit" THEN Closed(t, "completed")
         ELSE UNCHANGED <<state, active, reserved>>
  BY DriveCompletesMakes DEF DriveShape, DriveCompletes
<1>2. UNCHANGED <<owner, assigned, pending, retry, driver, index, rider, call>>
  BY DEF DriveCompletes, agentVars
<1>3. /\ assigned[t] = d /\ state[t] \in Terminal \cup {"in_transit"}
      /\ d \notin reserved /\ driver[d].trip = None
  BY <1>1 DEF PInv, DriveOK, Drives
<1>4. QED
  BY <1>1, <1>2, <1>3, EndKeeps

LEMMA CancelTripKeeps ==
    ASSUME TypeInv, DriveShape, PInv, NEW c \in Clients, CancelTrip(c)
    PROVE  PInv'
<1>1. PICK t \in Trips :
      /\ call[c].t = t /\ call[c].pc = "cancel"
      /\ CallMoves(c, "idle", None, None, "pickup")
      /\ Closed(t, "cancelled") /\ retry' = retry \ {t}
      /\ IF call[c].d = None THEN UNCHANGED <<driver, index>>
         ELSE /\ call[c].d \in Drivers /\ drive[call[c].d].phase = "none"
              /\ Agents(call[c].d, "available", None)
      /\ \A q \in Riders : q # owner[t] => rider'[q] = rider[q]
      /\ owner[t] \in Riders => rider'[owner[t]] = [status |-> "idle", trip |-> None]
  BY CancelTripMakes
<1>2. UNCHANGED <<owner, assigned, pending, drive>>
  BY DEF CancelTrip
<1>3. /\ call[c].d = assigned[t] /\ state[t] \in Waiting \cup Moving
      /\ call[c].d # None => driver[call[c].d].trip = t
  BY <1>1 DEF PInv, CallOK
<1>4. owner[t] \in Riders
  BY <1>3 DEF PInv, OwnerOK, Waiting, Moving, Offerable, Engaged
<1>5. TripOK(t)'
  BY <1>1 DEF TripOK, Closed, Waiting, Moving, Engaged, Offerable
<1>6. /\ \A b \in Clients \ {c} : call'[b] = call[b] /\ call[b].t # t
      /\ \A b \in Clients \ {c} : call[c].d # None => call[b].d # call[c].d
  <2>1. ASSUME NEW b \in Clients \ {c}
        PROVE  call'[b] = call[b] /\ call[b].t # t
               /\ (call[c].d # None => call[b].d # call[c].d)
    <3>1. CASE call[b].pc = "idle"
      BY <1>1, <3>1, Nones DEF CallMoves, TypeInv, CallShape
    <3>2. CASE call[b].pc # "idle"
      BY <1>1, <3>2, CallFacts DEF CallMoves
    <3>3. QED
      BY <3>1, <3>2
  <2>2. QED
    BY <2>1
<1>7. ~OnCall(t, {"assign"})' /\ CallOK(c)'
  BY <1>1, <1>6 DEF OnCall, CallOK, CallMoves
<1>8. CASE call[c].d = None
  <2>1. \A e \in Drivers : /\ driver[e].trip # t /\ assigned[t] # e
                           /\ e \in reserved' <=> e \in reserved
    <3>1. assigned[t] = None
      BY <1>3, <1>8
    <3>2. \A e \in Drivers : driver[e].trip # t
      BY <3>1, Nones DEF PInv, DriverOK
    <3>3. reserved' = reserved \ {None}
      BY <1>1, <3>1 DEF Closed
    <3>4. QED
      BY <3>1, <3>2, <3>3, Nones
  <2>2. Around(t, {})
    BY <1>1, <1>2, <1>6, <1>7, <1>8, <2>1 DEF Around, CallMoves, Closed, Terminal
  <2>3. QED
    BY <1>1, <1>4, <1>5, <1>6, <1>7, <2>2, AroundKeeps
<1>9. CASE call[c].d # None
  <2>1. PICK d \in Drivers :
        /\ call[c].d = d /\ drive[d].phase = "none" /\ Agents(d, "available", None)
        /\ driver[d].trip = t /\ assigned[t] = d
    BY <1>1, <1>3, <1>9
  <2>2. /\ pending[d] = None /\ d \notin reserved
        /\ index[d] = driver[d].status /\ driver[d].status \in {"en_route_pickup", "on_trip"}
        /\ \A e \in Drivers \ {d} : driver[e].trip # t
        /\ \A e \in Drivers : pending[e] # t
    BY <2>1, OnTrip
  <2>3. Around(t, {d})
    BY <1>1, <1>2, <1>6, <1>7, <2>1, <2>2 DEF Around, CallMoves, Closed, Agents
  <2>4. OfferOK(d)' /\ DriverOK(d)' /\ DriveOK(d)'
    <3>1. ~Accepting(d)'
      BY <1>1, <1>6, <1>9, <2>1 DEF Accepting, CallMoves
    <3>2. OfferOK(d)'
      BY <1>1, <1>2, <2>2, <3>1 DEF OfferOK, Closed
    <3>3. DriverOK(d)'
      BY <2>1, <2>2 DEF DriverOK, Agents
    <3>4. DriveOK(d)'
      BY <1>2, <2>1 DEF DriveOK
    <3>5. QED
      BY <3>2, <3>3, <3>4
  <2>5. QED
    BY <1>1, <1>4, <1>5, <1>6, <1>7, <1>9, <2>1, <2>3, <2>4, AroundKeeps
<1>10. QED
  BY <1>8, <1>9

(* The drive of a driver who completes no trip by arriving. *)
LEMMA DriveStopsKeeps ==
    ASSUME TypeInv, DriveShape, PInv, NEW d \in Drivers, drive[d].phase = "last",
           DriveMoves(d, "none", "pickup", None, FALSE),
           UNCHANGED <<state, owner, assigned, active, retry, reserved, pending, driver, index,
                       rider, call>>
    PROVE  PInv'
<1>1. SameCalls
  BY DEF SameCalls, OnCall, Accepting
<1>2. \A u \in Trips : TripOK(u)' /\ OwnerOK(u)'
  <2>1. \A u \in Trips : assigned[u] \in Drivers /\ OnIt(u) => OnIt(u)'
    BY <1>1 DEF OnIt, SameCalls, DriveMoves
  <2>2. QED
    BY <1>1, <2>1, TripsKept
<1>3. \A e \in Drivers : OfferOK(e)' /\ DriverOK(e)' /\ DriveOK(e)'
  <2>1. ASSUME NEW e \in Drivers PROVE DriverOK(e)' /\ DriveOK(e)'
    BY DEF PInv, DriverOK, DriveOK, Drives, DriveMoves
  <2>2. QED
    BY <1>1, <2>1, OffersKept
<1>4. ASSUME NEW b \in Clients PROVE CallOK(b)'
  <2>1. CallOK(b) /\ (call[b].d = None \/ call[b].d \in Drivers)
    BY TypesAre DEF PInv, TypeInv, ThreadTypes, CallRecs
  <2>2. QED
    BY <2>1 DEF CallOK, Drives, DriveMoves
<1>5. QED
  BY <1>2, <1>3, <1>4 DEF PInv

(* A pickup drive that signals the arrival. *)
LEMMA DriveSignalsKeeps ==
    ASSUME TypeInv, DriveShape, PInv, NEW d \in Drivers, NEW t \in Trips,
           drive[d].phase = "last", drive[d].t = t,
           state[t] = "en_route_pickup", state'[t] = "at_pickup",
           \A u \in Trips : u # t => state'[u] = state[u],
           DriveMoves(d, "none", "pickup", None, FALSE),
           UNCHANGED <<owner, assigned, active, retry, reserved, pending, driver, index,
                       rider, call>>
    PROVE  PInv'
<1>1. assigned[t] = d /\ t \in active
  BY DEF PInv, DriveOK, Drives, TripOK, Moving, Engaged
<1>2. \A b \in Clients : call[b].t = t => call[b].pc \notin {"assign", "close", "search", "offer"}
  BY DEF PInv, CallOK, Drives, TypeInv, QueueInv, Terminal
<1>3. driver[d].trip = t
  <2>1. OnIt(t) /\ ~OnCall(t, {"close"})
    BY <1>2 DEF PInv, TripOK, OnCall, Moving, Engaged
  <2>2. QED
    BY <1>1, <2>1 DEF OnIt
<1>4. /\ owner[t] \in Riders /\ rider[owner[t]].status # "offline"
      /\ pending[d] = None /\ ~Accepting(d) /\ d \notin reserved
      /\ \A e \in Drivers \ {d} : driver[e].trip # t
      /\ \A e \in Drivers : pending[e] # t
  BY <1>3, OnTrip
<1>5. Around(t, {d})
  BY <1>1, <1>3, <1>4 DEF Around, DriveMoves
<1>6. TripOK(t)'
  <2>1. OnIt(t)'
    BY <1>1, <1>3 DEF OnIt
  <2>2. QED
    BY <1>1, <2>1 DEF TripOK, Waiting, Moving, Engaged, Offerable
<1>7. OfferOK(d)' /\ DriverOK(d)' /\ DriveOK(d)'
  <2>1. OfferOK(d)'
    BY <1>4 DEF OfferOK, Accepting
  <2>2. DriverOK(d)'
    BY <1>3, Nones DEF PInv, DriverOK, Moving, Engaged
  <2>3. DriveOK(d)'
    BY DEF DriveOK, DriveMoves
  <2>4. QED
    BY <2>1, <2>2, <2>3
<1>8. ASSUME NEW b \in Clients
      PROVE  CallOK(b)' \/ (call'[b] = call[b] /\ call[b].t # t /\ call[b].d \notin {d})
  <2>1. CASE call[b].pc = "idle"
    BY <2>1 DEF CallOK
  <2>2. CASE call[b].pc # "idle"
    <3>1. /\ CallOK(b) /\ call[b].t \in Trips
          /\ call[b].d = None \/ call[b].d \in Drivers
      BY <2>2, CallFacts, TypesAre DEF PInv, TypeInv, ThreadTypes, CallRecs
    <3>2. CASE call[b].t = t
      BY <1>1, <1>2, <1>3, <3>1, <3>2
         DEF CallOK, Drives, DriveMoves, Waiting, Moving, Engaged, Terminal
    <3>3. CASE call[b].t # t /\ call[b].d = d
      BY <1>3, <1>4, <2>2, <3>1, <3>3, Nones DEF CallOK, Drives, Accepting, DriveMoves
    <3>4. QED
      BY <3>2, <3>3
  <2>3. QED
    BY <2>1, <2>2
<1>9. QED
  BY <1>4, <1>5, <1>6, <1>7, <1>8, AroundKeeps

(* A drive that reaches the destination of its trip. *)
LEMMA DriveEndsKeeps ==
    ASSUME TypeInv, DriveShape, PInv, NEW d \in Drivers, NEW t \in Trips,
           drive[d].phase = "last", drive[d].t = t, drive[d].leg = "dest", t \in active,
           DriveMoves(d, "ending", "dest", t, drive[d].stop), Agents(d, "available", None),
           \A q \in Riders : q # owner[t] => rider'[q] = rider[q],
           owner[t] \in Riders => rider'[owner[t]] = [status |-> "idle", trip |-> None],
           UNCHANGED <<state, owner, assigned, active, retry, reserved, pending, call>>
    PROVE  PInv'
<1>1. assigned[t] = d /\ state[t] = "in_transit"
  BY DEF PInv, DriveOK, Drives, TripOK, Waiting, Moving, Engaged, Offerable, Terminal
<1>2. \A b \in Clients : call[b].t = t => call[b].pc \notin {"assign", "search", "offer"}
  BY <1>1 DEF PInv, CallOK, TypeInv, QueueInv
<1>3. driver[d].trip = t \/ \E b \in Clients : call[b].t = t /\ call[b].pc = "close"
  <2>1. OnIt(t)
    BY <1>1 DEF PInv, TripOK, Moving, Engaged
  <2>2. QED
    BY <1>1, <2>1 DEF OnIt, OnCall
<1>4. /\ driver[d].trip \in {None, t} /\ driver[d].status # "offline"
      /\ pending[d] = None /\ ~Accepting(d) /\ d \notin reserved
  <2>1. CASE driver[d].trip = t
    BY <2>1, OnTrip
  <2>2. ASSUME NEW b \in Clients, call[b].t = t, call[b].pc = "close"
        PROVE  /\ driver[d].trip = None /\ driver[d].status = "available" /\ d \notin reserved
               /\ pending[d] = None /\ ~Accepting(d)
    <3>1. call[b].d = d
      BY <1>1, <2>2 DEF PInv, CallOK, Drives
    <3>2. driver[d].trip = None /\ driver[d].status = "available" /\ d \notin reserved
      BY <2>2, <3>1 DEF PInv, CallOK
    <3>3. QED
      BY <3>2 DEF PInv, OfferOK
  <2>3. QED
    BY <1>3, <2>1, <2>2
<1>5. owner[t] \in Riders
  BY <1>1 DEF PInv, OwnerOK
<1>6. /\ \A e \in Drivers \ {d} : driver[e].trip # t
      /\ \A e \in Drivers : pending[e] # t
  BY <1>1, Nones DEF PInv, DriverOK, OfferOK, Terminal
<1>7. index[d] # "absent"
  BY <1>4, TypesAre DEF PInv, DriverOK, TypeInv, AgentTypes, DriverRecs
<1>8. Around(t, {d})
  BY <1>1, <1>4, <1>6 DEF Around, DriveMoves, Agents
<1>9. TripOK(t)'
  <2>1. OnIt(t)'
    BY <1>1 DEF OnIt, DriveMoves
  <2>2. QED
    BY <1>1, <2>1 DEF TripOK, Waiting, Moving, Engaged, Offerable
<1>10. OfferOK(d)' /\ DriverOK(d)' /\ DriveOK(d)'
  <2>1. OfferOK(d)'
    BY <1>4 DEF OfferOK, Accepting
  <2>2. DriverOK(d)'
    BY <1>7 DEF DriverOK, Agents
  <2>3. DriveOK(d)'
    BY <1>1, <1>4 DEF DriveOK, Drives, DriveMoves, Agents
  <2>4. QED
    BY <2>1, <2>2, <2>3
<1>11. ASSUME NEW b \in Clients
       PROVE  CallOK(b)' \/ (call'[b] = call[b] /\ call[b].t # t /\ call[b].d \notin {d})
  <2>1. CASE call[b].pc = "idle"
    BY <2>1 DEF CallOK
  <2>2. CASE call[b].pc # "idle"
    <3>1. /\ CallOK(b) /\ call[b].t \in Trips
          /\ call[b].d = None \/ call[b].d \in Drivers
      BY <2>2, CallFacts, TypesAre DEF PInv, TypeInv, ThreadTypes, CallRecs
    <3>2. CASE call[b].d = d
      BY <1>1, <1>4, <1>7, <2>2, <3>1, <3>2, Nones
         DEF CallOK, Drives, Accepting, DriveMoves, Agents
    <3>3. CASE call[b].t = t /\ call[b].d # d
      BY <1>1, <1>2, <2>2, <3>1, <3>3, Nones DEF CallOK, Drives, DriveMoves
    <3>4. QED
      BY <3>2, <3>3
  <2>3. QED
    BY <2>1, <2>2
<1>12. QED
  BY <1>5, <1>8, <1>9, <1>10, <1>11, AroundKeeps

LEMMA DriveArrivesKeeps ==
    ASSUME TypeInv, DriveShape, PInv, NEW d \in Drivers, DriveArrives(d)
    PROVE  PInv'
<1>1. PICK t \in Trips :
      /\ drive[d].t = t /\ drive[d].phase = "last"
      /\ IF drive[d].leg = "dest" /\ t \in active
         THEN /\ DriveMoves(d, "ending", drive[d].leg, t, drive[d].stop)
              /\ Agents(d, "available", None)
              /\ \A q \in Riders : q # owner[t] => rider'[q] = rider[q]
              /\ owner[t] \in Riders => rider'[owner[t]] = [status |-> "idle", trip |-> None]
              /\ UNCHANGED state
         ELSE /\ DriveMoves(d, "none", "pickup", None, FALSE)
              /\ UNCHANGED agentVars
              /\ \/ UNCHANGED state
                 \/ /\ state[t] = "en_route_pickup" /\ state'[t] = "at_pickup"
                    /\ \A u \in Trips : u # t => state'[u] = state[u]
  BY DriveArrivesMakes DEF DriveShape, DriveArrives
<1>2. UNCHANGED <<owner, assigned, active, retry, reserved, pending, call>>
  BY DEF DriveArrives, offerVars
<1>3. CASE drive[d].leg = "dest" /\ t \in active
  BY <1>1, <1>2, <1>3, DriveEndsKeeps
<1>4. CASE ~(drive[d].leg = "dest" /\ t \in active)
  <2>1. UNCHANGED <<driver, index, rider>> /\ DriveMoves(d, "none", "pickup", None, FALSE)
    BY <1>1, <1>4 DEF agentVars
  <2>2. CASE UNCHANGED state
    BY <1>1, <1>2, <2>1, <2>2, DriveStopsKeeps
  <2>3. CASE /\ state[t] = "en_route_pickup" /\ state'[t] = "at_pickup"
             /\ \A u \in Trips : u # t => state'[u] = state[u]
    BY <1>1, <1>2, <2>1, <2>3, DriveSignalsKeeps
  <2>4. QED
    BY <1>1, <1>4, <2>2, <2>3
<1>5. QED
  BY <1>3, <1>4

LEMMA RequestKeeps ==
    ASSUME TypeInv, DriveShape, PInv,
           NEW c \in Clients, NEW r \in Riders, NEW t \in Trips, Request(c, r, t)
    PROVE  PInv'
<1>1. /\ CallMoves(c, "search", None, t, "pickup") /\ call[c].pc = "idle" /\ Apart(None, t)
      /\ owner'[t] = r /\ \A u \in Trips : u # t => owner'[u] = owner[u]
  BY RequestMakes
<1>2. /\ UNCHANGED <<state, assigned, active, reserved, pending, retry, driver, index, rider,
                     drive>>
      /\ state[t] = "none" /\ rider[r].status = "offline"
      /\ \A e \in Clients : call[e].t # None => owner[call[e].t] # r
  BY DEF Request, offerVars, agentVars
<1>3. \A b \in Clients \ {c} : call'[b] = call[b] /\ call[b].t # t
  BY <1>1, Nones DEF CallMoves, Apart, Calling, TypeInv, CallShape
<1>4. /\ \A u \in Trips \ {t} :
           /\ OnCall(u, {"offer"})' <=> OnCall(u, {"offer"})
           /\ OnCall(u, {"search"})' <=> OnCall(u, {"search"})
           /\ OnCall(u, {"search", "offer"})' <=> OnCall(u, {"search", "offer"})
           /\ OnCall(u, {"assign"})' <=> OnCall(u, {"assign"})
           /\ OnCall(u, {"close"})' <=> OnCall(u, {"close"})
      /\ \A e \in Drivers : Accepting(e)' <=> Accepting(e)
      /\ OnCall(t, {"search", "offer"})'
  BY <1>1, <1>3 DEF OnCall, Accepting, CallMoves
<1>5. \A u \in Trips : u # t => owner[u] # r
  <2>1. ASSUME NEW u \in Trips, owner[u] = r PROVE FALSE
    <3>1. OnCall(u, {"search", "offer"})
      BY <1>2, <2>1, Nones DEF PInv, OwnerOK
    <3>2. QED
      BY <1>2, <2>1, <3>1, Nones DEF OnCall
  <2>2. QED
    BY <2>1
<1>6. ASSUME NEW u \in Trips PROVE TripOK(u)' /\ OwnerOK(u)'
  <2>1. TripOK(u) /\ OwnerOK(u)
    BY DEF PInv
  <2>2. CASE u = t
    <3>1. TripOK(t)'
      BY <1>2, <2>1, <2>2 DEF TripOK, Waiting, Moving, Engaged, Offerable
    <3>2. OwnerOK(t)'
      BY <1>1, <1>4, <1>5 DEF OwnerOK
    <3>3. QED
      BY <2>2, <3>1, <3>2
  <2>3. CASE u # t
    <3>1. /\ owner'[u] = owner[u] /\ owner'[u] # r
          /\ OnCall(u, {"offer"})' <=> OnCall(u, {"offer"})
          /\ OnCall(u, {"search"})' <=> OnCall(u, {"search"})
          /\ OnCall(u, {"search", "offer"})' <=> OnCall(u, {"search", "offer"})
          /\ OnCall(u, {"assign"})' <=> OnCall(u, {"assign"})
          /\ OnCall(u, {"close"})' <=> OnCall(u, {"close"})
      BY <1>1, <1>4, <1>5, <2>3
    <3>2. OnIt(u)' <=> OnIt(u)
      BY <1>2, <3>1 DEF OnIt
    <3>3. TripOK(u)'
      BY <1>2, <2>1, <3>1, <3>2 DEF TripOK
    <3>4. OwnerOK(u)'
      BY <1>1, <1>2, <2>1, <3>1 DEF OwnerOK
    <3>5. QED
      BY <3>3, <3>4
  <2>4. QED
    BY <2>2, <2>3
<1>7. ASSUME NEW e \in Drivers PROVE OfferOK(e)' /\ DriverOK(e)' /\ DriveOK(e)'
  <2>1. OfferOK(e) /\ DriverOK(e) /\ DriveOK(e)
    BY DEF PInv
  <2>2. /\ pending[e] # t
        /\ pending[e] = None \/ pending[e] \in Trips
        /\ driver[e].trip = None \/ driver[e].trip \in Trips \ {t}
    BY <1>2, <2>1, Nones, TypesAre
       DEF OfferOK, DriverOK, Terminal, Moving, Engaged, TypeInv, OfferTypes, AgentTypes, DriverRecs
  <2>3. OfferOK(e)'
    BY <1>2, <1>4, <2>1, <2>2 DEF OfferOK
  <2>4. DriverOK(e)'
    BY <1>1, <1>2, <2>1, <2>2 DEF DriverOK
  <2>5. DriveOK(e)'
    BY <1>2, <2>1 DEF DriveOK, Drives
  <2>6. QED
    BY <2>3, <2>4, <2>5
<1>8. ASSUME NEW b \in Clients PROVE CallOK(b)'
  <2>1. CASE b = c
    BY <1>1, <2>1 DEF CallOK, CallMoves
  <2>2. CASE b # c
    BY <1>2, <1>3, <2>2 DEF PInv, CallOK, Drives
  <2>3. QED
    BY <2>1, <2>2
<1>9. QED
  BY <1>6, <1>7, <1>8 DEF PInv

LEMMA PInit == Init => PInv
<1> SUFFICES ASSUME Init PROVE PInv
  OBVIOUS
<1>1. /\ \A c \in Clients : call[c].pc = "idle" /\ call[c].t = None /\ call[c].d = None
      /\ \A d \in Drivers : /\ driver[d].status = "offline" /\ driver[d].trip = None
                            /\ drive[d].phase = "none" /\ pending[d] = None
                            /\ index[d] = "absent"
      /\ \A t \in Trips : state[t] = "none" /\ owner[t] = None /\ assigned[t] = None
      /\ active = {} /\ reserved = {} /\ retry = {}
  BY DEF Init, NoCall, NoDrive
<1>2. ASSUME NEW t \in Trips PROVE TripOK(t) /\ OwnerOK(t)
  BY <1>1, Nones DEF TripOK, OwnerOK, OnCall, Waiting, Moving, Engaged, Offerable
<1>3. ASSUME NEW d \in Drivers PROVE OfferOK(d) /\ DriverOK(d) /\ DriveOK(d)
  BY <1>1 DEF OfferOK, DriverOK, DriveOK, Accepting
<1>4. ASSUME NEW c \in Clients PROVE CallOK(c)
  BY <1>1 DEF CallOK
<1>5. QED
  BY <1>2, <1>3, <1>4 DEF PInv

LEMMA PStep ==
    ASSUME Races = {}, TypeInv, DriveShape, PInv, [Next]_vars
    PROVE  PInv'
<1>1. CASE UNCHANGED vars
  <2>1. UNCHANGED <<state, owner, assigned, active, reserved, pending, retry, driver, index,
                    rider, drive, call>>
    BY <1>1 DEF vars, tripVars, offerVars, agentVars
  <2>2. SameCalls
    BY <2>1 DEF SameCalls, OnCall, Accepting
  <2>3. \A u \in Trips : TripOK(u)' /\ OwnerOK(u)'
    <3>1. \A u \in Trips : OnIt(u) => OnIt(u)'
      BY <2>1, <2>2 DEF OnIt, SameCalls
    <3>2. QED
      BY <2>1, <2>2, <3>1, TripsKept
  <2>4. \A e \in Drivers : OfferOK(e)' /\ DriverOK(e)' /\ DriveOK(e)'
    BY <2>1, <2>2, OffersKept, DriversKept
  <2>5. \A b \in Clients : CallOK(b)'
    BY <2>1 DEF PInv, CallOK, Drives
  <2>6. QED
    BY <2>3, <2>4, <2>5 DEF PInv
<1>2. "late_cancel" \notin Races
  OBVIOUS
<1>3. ASSUME NEW c \in Clients,
             \/ \E r \in Riders, t \in Trips : Request(c, r, t)
             \/ \E t \in Trips : Cancel(c, t)
             \/ RequestSearch(c) \/ RequestOffer(c) \/ Assign(c)
      PROVE  PInv'
  BY <1>2, <1>3, RequestKeeps, CancelKeeps, RequestSearchKeeps, RequestOfferKeeps, AssignKeeps
<1>4. ASSUME NEW c \in Clients,
             \/ Route(c) \/ Launch(c) \/ LaunchFails(c) \/ CompleteTrip(c) \/ CancelTrip(c)
      PROVE  PInv'
  BY <1>4, RouteKeeps, LaunchKeeps, CompleteTripKeeps, CancelTripKeeps
<1>5. ASSUME NEW c \in Clients, NEW d \in Drivers,
             \/ Accept(c, d) \/ Start(c, d) \/ Complete(c, d)
             \/ \E leg \in Legs : DriveTo(c, d, leg)
      PROVE  PInv'
  BY <1>5, AcceptKeeps, StartKeeps, CompleteKeeps, DriveToKeeps
<1>6. ASSUME NEW d \in Drivers,
             \/ GoOnline(d) \/ GoOffline(d) \/ Arrive(d)
             \/ \E n \in {"offer_rejected", "offer_expired"} : Decline(d, n)
             \/ DriveOn(d) \/ DriveArrives(d) \/ DriveCompletes(d)
      PROVE  PInv'
  BY <1>6, GoKeeps, ArriveKeeps, DeclineKeeps, DriveOnKeeps, DriveArrivesKeeps, DriveCompletesKeeps
<1>7. ASSUME NEW t \in Trips, Search(t) PROVE PInv'
  BY <1>2, <1>7, SearchKeeps
<1>8. CASE SearchEnds
  BY <1>8, SearchEndsKeeps
<1>9. QED
  BY <1>1, <1>3, <1>4, <1>5, <1>6, <1>7, <1>8 DEF Next

LEMMA PAlways ==
    ASSUME Races = {}
    PROVE  Spec => [](TypeInv /\ DriveShape /\ PInv)
<1>1. Init => TypeInv /\ DriveShape /\ PInv
  BY TypeInit, PInit
<1>2. TypeInv /\ DriveShape /\ PInv /\ [Next]_vars => TypeInv' /\ DriveShape' /\ PInv'
  BY TypeStep, PStep
<1>3. QED
  BY <1>1, <1>2, PTL DEF Spec

LEMMA PAgents == TypeInv /\ PInv => AgentsFollowTrip
<1> SUFFICES ASSUME TypeInv, PInv PROVE AgentsFollowTrip
  OBVIOUS
<1>1. ASSUME NEW d \in Drivers, driver[d].trip # None
      PROVE  LET t == driver[d].trip
             IN  /\ t \in active /\ assigned[t] = d
                 /\ state[t] \in Engaged
                 /\ driver[d].status = Status(IF state[t] = "in_transit" THEN "dest" ELSE "pickup")
                 /\ rider[owner[t]].trip = t
                 /\ rider[owner[t]].status = IF state[t] = "in_transit" THEN "on_trip"
                                             ELSE "awaiting_pickup"
  <2>1. driver[d].trip \in Trips
    BY <1>1, TypesAre DEF TypeInv, AgentTypes, DriverRecs
  <2>2. driver[d].trip \in active
    BY <2>1, OnTrip
  <2>3. QED
    BY <1>1, <2>1, <2>2 DEF PInv, DriverOK, Moving
<1>2. ASSUME NEW t \in active, state[t] \in Engaged, Quiet(assigned[t], t)
      PROVE  driver[assigned[t]].trip = t
  <2>1. t \in Trips
    BY TypesAre DEF TypeInv, TripTypes
  <2>2. OnIt(t)
    BY <1>2, <2>1 DEF PInv, TripOK, Moving
  <2>3. ~OnCall(t, {"close"}) /\ drive[assigned[t]].phase # "ending"
    BY <1>2, <2>1, Nones DEF Quiet, Apart, Calling, OnCall
  <2>4. QED
    BY <2>2, <2>3 DEF OnIt
<1>3. ASSUME NEW d \in Drivers
      PROVE  index[d] = IF driver[d].status = "offline" THEN "absent" ELSE driver[d].status
  BY DEF PInv, DriverOK
<1>4. QED
  BY <1>1, <1>2, <1>3 DEF AgentsFollowTrip

LEMMA PReserved == TypeInv /\ PInv => ReservedIffOffered
<1> SUFFICES ASSUME TypeInv, PInv, NEW d \in Drivers, Apart(d, None)
             PROVE  d \in reserved <=> pending[d] # None
  BY DEF ReservedIffOffered
<1>1. ~Accepting(d)
  BY Nones DEF Apart, Calling, Accepting
<1>2. QED
  BY <1>1 DEF PInv, OfferOK

LEMMA PNextStep == TypeInv /\ PInv => TripHasNextStep
<1> SUFFICES ASSUME TypeInv, PInv, NEW t \in active, Apart(None, t)
             PROVE  /\ state[t] = "offer_sent" => \E d \in Drivers : pending[d] = t
                    /\ state[t] \in Offerable => t \in retry
  BY DEF TripHasNextStep
<1>1. t \in Trips
  BY TypesAre DEF TypeInv, TripTypes
<1>2. ~OnCall(t, {"assign"}) /\ ~OnCall(t, {"offer"})
  BY <1>1, Nones DEF Apart, Calling, OnCall
<1>3. QED
  BY <1>1, <1>2 DEF PInv, TripOK

(* Driver, rider, trip and index tell one story whatever is under way
   elsewhere: nobody is left on a trip that has ended, and a trip under way has
   exactly its driver.  Calls about different drivers and trips, drives and
   searches may overlap in any order; only the three races that the code does
   lose are ruled out (Races = {}). *)
THEOREM AgentsFollow == Races = {} /\ Spec => []AgentsFollowTrip
<1> SUFFICES ASSUME Races = {} PROVE Spec => []AgentsFollowTrip
  OBVIOUS
<1>1. QED
  BY PAlways, PAgents, PTL

(* A driver is reserved exactly while an offer waits for an answer: no
   reservation is left behind by a cancellation, a timeout or a late answer,
   and no two trips ever hold one driver. *)
THEOREM ReservedForOffers == Races = {} /\ Spec => []ReservedIffOffered
<1> SUFFICES ASSUME Races = {} PROVE Spec => []ReservedIffOffered
  OBVIOUS
<1>1. QED
  BY PAlways, PReserved, PTL

(* No trip is stranded between offers: one that waits has an offer out, a place
   in the retry queue or a call at work on it. *)
THEOREM TripsMoveOn == Races = {} /\ Spec => []TripHasNextStep
<1> SUFFICES ASSUME Races = {} PROVE Spec => []TripHasNextStep
  OBVIOUS
<1>1. QED
  BY PAlways, PNextStep, PTL

-----------------------------------------------------------------------------
(* How trips move *)

(* A step leaves a trip's state alone, makes the trip known, or takes it along
   transitions the code declares; Assign makes two of them at once. *)
Declared(t) ==
    \/ state'[t] = state[t]
    \/ state[t] = "none" /\ state'[t] = "requested"
    \/ CanTransition(state[t], state'[t])
    \/ /\ CanTransition(state[t], "driver_assigned")
       /\ CanTransition("driver_assigned", state'[t])

TransitionsDeclared == [][\A t \in Trips : Declared(t)]_vars

\* What an offer, a declined one included, makes of the trip.
LEMMA OfferedDeclared ==
    ASSUME TypeInv, NEW t \in Trips, NEW s, NEW res, NEW pend, Offered(t, s, res, pend),
           \/ s = state[t] /\ state[t] \in Offerable
           \/ s \in {"offer_rejected", "offer_expired"} /\ state[t] = "offer_sent"
    PROVE  \A u \in Trips : Declared(u)
<1>1. state'[t] \in {s, "offer_sent"}
  BY DEF Offered, Queued, Sent, Offerable
<1>2. \A u \in Trips : u # t => state'[u] = state[u]
  BY DEF Offered, Queued, Sent
<1>3. QED
  BY <1>1, <1>2 DEF Declared, CanTransition, Offerable

LEMMA StepDeclared ==
    ASSUME Races = {}, TypeInv, DriveShape, PInv, [Next]_vars
    PROVE  \A t \in Trips : Declared(t)
<1>1. ASSUME UNCHANGED state PROVE \A t \in Trips : Declared(t)
  BY <1>1 DEF Declared
<1>2. CASE UNCHANGED vars
  BY <1>1, <1>2 DEF vars, tripVars
<1>3. ASSUME NEW c \in Clients,
             \/ \E r \in Riders, t \in Trips : Request(c, r, t)
             \/ \E t \in Trips : Cancel(c, t)
             \/ \E d \in Drivers : \/ Accept(c, d) \/ Complete(c, d)
                                   \/ \E leg \in Legs : DriveTo(c, d, leg)
             \/ Route(c) \/ Launch(c) \/ LaunchFails(c)
      PROVE  \A t \in Trips : Declared(t)
  BY <1>1, <1>3 DEF Request, Cancel, Accept, Complete, DriveTo, Route, Launch, LaunchFails, tripVars
<1>4. ASSUME NEW c \in Clients, RequestSearch(c) PROVE \A t \in Trips : Declared(t)
  BY <1>4, RequestSearchMakes DEF Declared
<1>5. ASSUME NEW c \in Clients, RequestOffer(c) PROVE \A t \in Trips : Declared(t)
  <2>1. state[call[c].t] = "requested"
    BY <1>5, RequestOfferMakes DEF TypeInv, QueueInv
  <2>2. QED
    BY <1>5, <2>1, RequestOfferMakes, OfferedDeclared DEF Offerable
<1>6. ASSUME NEW c \in Clients, Assign(c) PROVE \A t \in Trips : Declared(t)
  <2>1. state[call[c].t] = "offer_sent"
    BY <1>6, AssignMakes DEF PInv, CallOK
  <2>2. QED
    BY <1>6, <2>1, AssignMakes DEF Declared, CanTransition
<1>7. ASSUME NEW c \in Clients, NEW d \in Drivers, Start(c, d)
      PROVE  \A t \in Trips : Declared(t)
  <2>1. state[driver[d].trip] = "at_pickup"
    BY <1>7 DEF Start
  <2>2. QED
    BY <1>7, <2>1, StartMakes DEF Declared, CanTransition
<1>8. ASSUME NEW t \in Trips, NEW s \in Terminal, Closed(t, s), CanTransition(state[t], s)
      PROVE  \A u \in Trips : Declared(u)
  BY <1>8 DEF Closed, Declared
<1>9. ASSUME NEW c \in Clients, CompleteTrip(c) PROVE \A t \in Trips : Declared(t)
  <2>1. CASE state[call[c].t] = "in_transit"
    BY <1>8, <1>9, <2>1, CompleteTripMakes DEF CanTransition, Terminal
  <2>2. CASE state[call[c].t] # "in_transit"
    BY <1>1, <1>9, <2>2, CompleteTripMakes
  <2>3. QED
    BY <2>1, <2>2
<1>10. ASSUME NEW c \in Clients, CancelTrip(c) PROVE \A t \in Trips : Declared(t)
  <2>1. state[call[c].t] \in Waiting \cup Moving
    BY <1>10, CancelTripMakes DEF PInv, CallOK
  <2>2. CanTransition(state[call[c].t], "cancelled")
    BY <2>1 DEF Waiting, Moving, Offerable, Engaged, CanTransition
  <2>3. QED
    BY <1>8, <1>10, <2>2, CancelTripMakes DEF Terminal
<1>11. ASSUME NEW d \in Drivers, GoOnline(d) \/ GoOffline(d) \/ DriveOn(d)
       PROVE  \A t \in Trips : Declared(t)
  BY <1>1, <1>11 DEF GoOnline, GoOffline, DriveOn, tripVars
<1>12. ASSUME NEW d \in Drivers, Arrive(d) PROVE \A t \in Trips : Declared(t)
  BY <1>12, ArriveMakes DEF Declared, CanTransition
<1>13. ASSUME NEW d \in Drivers, NEW n \in {"offer_rejected", "offer_expired"}, Decline(d, n)
       PROVE  \A t \in Trips : Declared(t)
  <2>1. CASE state[pending[d]] = "offer_sent"
    BY <1>13, <2>1, DeclineMakes, OfferedDeclared
  <2>2. CASE state[pending[d]] # "offer_sent"
    BY <1>1, <1>13, <2>2, DeclineMakes
  <2>3. QED
    BY <2>1, <2>2
<1>14. ASSUME NEW d \in Drivers, DriveArrives(d) PROVE \A t \in Trips : Declared(t)
  <2>1. drive[d].t \in Trips
    BY <1>14 DEF DriveShape, DriveArrives
  <2>2. QED
    BY <1>14, <2>1, DriveArrivesMakes DEF Declared, CanTransition
<1>15. ASSUME NEW d \in Drivers, DriveCompletes(d) PROVE \A t \in Trips : Declared(t)
  <2>1. drive[d].t \in Trips
    BY <1>15 DEF DriveShape, DriveCompletes
  <2>2. CASE state[drive[d].t] = "in_transit"
    BY <1>8, <1>15, <2>1, <2>2, DriveCompletesMakes DEF CanTransition, Terminal
  <2>3. CASE state[drive[d].t] # "in_transit"
    BY <1>1, <1>15, <2>1, <2>3, DriveCompletesMakes
  <2>4. QED
    BY <2>2, <2>3
<1>16. ASSUME NEW t \in Trips, Search(t) PROVE \A u \in Trips : Declared(u)
  BY <1>1, <1>16 DEF Search, tripVars
<1>17. CASE SearchEnds
  BY <1>1, <1>17, SearchEndsMakes, OfferedDeclared
<1>18. QED
  BY <1>2, <1>3, <1>4, <1>5, <1>6, <1>7, <1>9, <1>10, <1>11, <1>12, <1>13, <1>14, <1>15, <1>16,
     <1>17 DEF Next

(* A trip moves only along the transitions the code declares, the
   cancellation included, for which Trip.cancel does not ask: whatever calls,
   drives and searches overlap, a trip keeps the state it has ended in.  (With
   a cancellation in the middle of a search or of the end of a drive TLC finds
   a completed trip cancelled.) *)
THEOREM MovesDeclared == Races = {} /\ Spec => TransitionsDeclared
<1> SUFFICES ASSUME Races = {} PROVE Spec => TransitionsDeclared
  OBVIOUS
<1>1. TypeInv /\ DriveShape /\ PInv /\ [Next]_vars => [\A t \in Trips : Declared(t)]_vars
  BY StepDeclared
<1>2. QED
  BY <1>1, PAlways, PTL DEF Spec, TransitionsDeclared
=============================================================================
