CONSTANTS
  Drivers = {d1}
  Riders = {r1}
  NoDriver = NoDriver
  NoRider = NoRider
  NoCheckpoint = NoCheckpoint
  Storage = "sqlite"
  MaxRestarts = 1
  MaxResets = 1
  MaxSaves = 2
  MaxRequests = 1
SPECIFICATION Spec
INVARIANT RecoveryIsClean
CHECK_DEADLOCK FALSE
