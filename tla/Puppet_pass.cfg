SPECIFICATION Spec
CONSTANTS
  t1 = t1  t2 = t2
  d1 = d1  d2 = d2  d3 = d3
  r1 = r1  r2 = r2
  c1 = c1  c2 = c2
  Trips = {t1, t2}
  Drivers = {d1, d2, d3}
  Riders = {r1, r2}
  Clients = {c1, c2}
  None = None
  Races = {}
SYMMETRY Interchangeable
INVARIANTS TypeOK AgentsFollowTrip ReservedIffOffered TripHasNextStep
