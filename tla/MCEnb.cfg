SPECIFICATION Spec
CONSTANTS
  Period = 16
  Hyper = 3
  NpbchPeriod = 8
  NprachPeriod = 8
  NprachOffset = 4
  NprachSfs = 3
  PoolSize = 2
  QueueSize = 2
INVARIANTS TypeOK MibOnAir NoBufferLost WholeOccasions StackOutlivesPhy
PROPERTIES OnAir StopEnds
CHECK_DEADLOCK FALSE
