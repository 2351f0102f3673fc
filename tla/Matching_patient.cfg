SPECIFICATION FairSpec
CONSTANTS
  t1 = t1
  t2 = t2
  d1 = d1
  d2 = d2
  Trips = {t1, t2}
  Drivers = {d1, d2}
  NoTrip = NoTrip
  NoDriver = NoDriver
  NoOffer = NoOffer
  Impatient = {}
  SlowDrivers = {d1, d2}
  ShiftWorkers = {d1}
  TimeoutsOn = TRUE
  MaxAttempts = 2
  MaxOffers = 1
INVARIANTS
  NoLeakedReservation
PROPERTIES
  ReservationEnds
  OfferResolves
  MatchedTripEnds
\* Riders request one trip each, so a behaviour may end.
CHECK_DEADLOCK FALSE
