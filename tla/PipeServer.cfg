SPECIFICATION FairSpec
CONSTANTS MaxFrames = 3
          DataUnits = 2
          Capacity = 3
          MaxSessions = 2
          Dispositions = {"default", "ignored"}
INVARIANTS TypeOK FrameOwnedOnce ClientFramed
PROPERTIES ImplementsChannel QueuedIsRetired
CHECK_DEADLOCK FALSE
