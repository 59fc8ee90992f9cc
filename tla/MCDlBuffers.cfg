SPECIFICATION Spec
CONSTANTS
  SetupSizes = {16, 30}
  SduSizes = {88}
  Capacity = 88
INVARIANTS TypeOK GrantHasRoom Srb0Whole
PROPERTIES ResolvedFirst TrafficIsServed
