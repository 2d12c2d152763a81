SPECIFICATION Spec
CONSTANTS
  Ids <- ThreeIds
  Num = 2
  Required = "INACTIVE"
INVARIANTS TypeOK NoneTwice ReturnsAChoice
PROPERTY Returns
CHECK_DEADLOCK FALSE
