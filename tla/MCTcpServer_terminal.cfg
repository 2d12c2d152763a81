SPECIFICATION Spec
CONSTANTS
  e1 = e1
  e2 = e2
  e3 = e3
  None = None
  Endpoints <- ThreeEndpoints
  MaxNumClients = 2
  LineLen = 1
  MaxBytes = 1
  Replies <- Terminal
  Aborts = TRUE
SYMMETRY EndpointSymmetry
INVARIANTS CapacityBound ReaderObjectAlive AnswerMissesOnlyInRace CrashNeedsLeaver
PROPERTY DeadOnlyByLateInsert
CHECK_DEADLOCK FALSE
