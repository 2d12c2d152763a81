SPECIFICATION FairSpec
CONSTANTS
  o1 = o1
  o2 = o2
  None = None
  Malformed = Malformed
  Osats <- TwoOsats
  Fitted <- OwnOrSame
  Disks <- NOrFills
  MaxHits = 2
  MaxCommands = 1
  MaxFaults = 1
INVARIANT NoLostOsat
PROPERTIES TimedGameEnds ClearingGameEnds
CHECK_DEADLOCK FALSE
