SPECIFICATION LiveSpec
CONSTANTS
  c1 = c1  c2 = c2
  Clients = {c1, c2}
  MaxRides = 2
  MaxWire = 2
  MaxFaults = 1
  Races = {}
INVARIANT SettledView
PROPERTIES EndedStaysEnded EndedDisappears
CHECK_DEADLOCK FALSE
