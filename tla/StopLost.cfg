SPECIFICATION FairSpec
CONSTANT MaxHellos = 1
PROPERTY StopEndsRun
CHECK_DEADLOCK FALSE
