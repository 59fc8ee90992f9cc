SPECIFICATION Spec
CONSTANT MaxQueue = 2
PROPERTY LostConnectionIsRestarted
CHECK_DEADLOCK FALSE
