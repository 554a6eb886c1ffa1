SPECIFICATION FairSpec
CONSTANTS MaxConns = 2
          MaxFrames = 2
          Fds = {4, 5}
INVARIANTS TypeOK FramesTakenInOrder SequentialClientsServed
PROPERTIES ShutdownEnds
CHECK_DEADLOCK FALSE
