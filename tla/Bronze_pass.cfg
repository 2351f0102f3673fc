SPECIFICATION FairSpec
CONSTANTS
  Topics = {gps_pings, trips}
  MaxOffset = 2
  Kinds = {"good", "malformed"}
  DLQEnabled = TRUE
  ValidateJson = TRUE
  MaxCrashes = 2
INVARIANTS
  CommittedIsStored
  NoGaps
PROPERTIES
  CommittedOnce
  EventuallyStored
