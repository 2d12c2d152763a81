SPECIFICATION Spec
CONSTANTS
  Commands <- Timed
  Blank = Blank
  NoConn = NoConn
  Tick = 1500
  MaxAge = 3000
  AnnounceEvery = 2
  MaxCommands = 2
  MaxHits = 1
  MaxCuts = 0
INVARIANT TimeoutNotEarly
