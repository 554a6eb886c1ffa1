SPECIFICATION FairSpec
CONSTANTS Requested <- MCRequested
          Wrap = 8
          CanFail = TRUE
INVARIANTS TypeOK SetupNotRefused ControlsSettled QueuedCountExact BuffersOutliveThread
PROPERTIES ThreadEnds
CHECK_DEADLOCK FALSE
