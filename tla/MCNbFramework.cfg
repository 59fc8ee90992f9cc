SPECIFICATION Spec
CONSTANTS
  SFNS = 4
  MIB_FRAMES = 2
  SIB1_TTI = 4
  SIB1_REP = 2
  SI_PERIOD = 4
  SIB2_SF = 2
  Delays = {3, 4}
  K0s = {1}
  UlSfs = {2}
  SAMPLES = 2
  MAX_DRIFT = 1
INVARIANTS TypeOK SfnRight DelayBounded UlOnTime
PROPERTIES SiAcquired NotDeaf
CHECK_DEADLOCK FALSE
