SPECIFICATION Spec
CONSTANTS
  r1 = r1
  r2 = r2
  Rntis <- MCRntis
  MmeIds <- MCMmeIds
  MaxEnbId = 4
  MaxAssoc = 2
  MaxFlight = 2
INVARIANTS TypeOK RntiUnique MmeIdUniqueUntilRestart NoForgottenContext
PROPERTIES EnbIdNeverReused ReleaseIsExact
CHECK_DEADLOCK FALSE
