SPECIFICATION FairSpec
CONSTANTS
  Callers = {c1}
  Drivers = {d}
  Riders = {r, p}
  Puppets = {p}
  Trips = {t1}
  ApiAsks = TRUE
  StepLength = 1
  Overshoot = 1
  MaxPolls = 1
  MaxPauses = 1
  MaxLaunches = 2
  MaxResets = 1
INVARIANTS
  NoAgentForgotten
  PendingIsUnstarted
  DrainEndsWithPause
PROPERTIES
  AgentsAreStarted
  PauseHolds
  DrainEnds
  StopHalts
CHECK_DEADLOCK FALSE
