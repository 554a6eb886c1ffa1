SPECIFICATION FairSpec
CONSTANT MaxPackets = 5
INVARIANTS TypeOK PacketOwnedOnce NoPopFromEmpty SendOnOpenSocket
PROPERTIES ImplementsChannel QueuedIsRetired
CHECK_DEADLOCK FALSE
