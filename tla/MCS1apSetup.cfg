SPECIFICATION Spec
CONSTANT MaxQueue = 4
INVARIANTS TypeOK OngoingIsTimed IdleIsClosed ConnectedHasSocket
PROPERTY SetupEnds
CHECK_DEADLOCK FALSE
