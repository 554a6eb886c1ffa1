SPECIFICATION FairSpec
CONSTANT MaxPackets = 1
PROPERTY CleanupReturns
CHECK_DEADLOCK FALSE
