SPECIFICATION FairSpec
CONSTANTS
  Commands <- Mixed
  Blank = Blank
  NoConn = NoConn
  Tick = 1500
  MaxAge = 3000
  AnnounceEvery = 2
  MaxCommands = 3
  MaxHits = 1
  MaxCuts = 1
INVARIANTS TypeOK AnnouncedIsSaved LitMeansWaiting
PROPERTIES IsButton CommandsDrain ActivationEnds
