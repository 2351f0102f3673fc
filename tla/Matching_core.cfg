SPECIFICATION Spec
CONSTANTS
  t1 = t1
  t2 = t2
  d1 = d1
  d2 = d2
  Trips = {t1, t2}
  Drivers = {d1, d2}
  NoTrip = NoTrip
  NoDriver = NoDriver
  NoOffer = NoOffer
  Impatient = {t1, t2}
  SlowDrivers = {d1, d2}
  ShiftWorkers = {}
  TimeoutsOn = TRUE
  MaxAttempts = 2
  MaxOffers = 2
SYMMETRY SameHabits
INVARIANTS
  NoGhostTrip
  NoStrandedTrip
  NoPhantomDemand
PROPERTIES
  AssignedOnce
  TripsFollowLifecycle
\* Riders request one trip each, so a behaviour may end.
CHECK_DEADLOCK FALSE
