SPECIFICATION FairSpec
CONSTANTS
  Topics <- MCTopics
  MaxOffset = 4
  Length <- MCLength
  Entities <- MCEntities
  Log <- MCLog
  Plain = "plain"
  Garbage = "garbage"
  Poison = "poison"
  Unmarked <- MCUnmarked
  NoOffset = NoOffset
  FromEarliest = FALSE
  BatchSize = 2
  MaxRestarts = 2
INVARIANTS
  PublishedOnce
  LossNeedsFault
PROPERTIES
  ShownInOrder
  LagVanishes
