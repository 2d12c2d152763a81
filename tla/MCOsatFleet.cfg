SPECIFICATION FairSpec
CONSTANTS
  None = None
  Osats <- TwoOsats
  Vacant <- OneVacant
  Fleets <- Left
  Target = 1
  Typed <- Values
  MaxThreads = 1
  MaxLaunches = 1
  MaxEvents = 1
INVARIANTS TypeOK CacheFresh ToolSets
PROPERTIES DevicesAreFound ToolEnds
CHECK_DEADLOCK FALSE
