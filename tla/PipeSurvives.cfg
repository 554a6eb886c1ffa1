SPECIFICATION Spec
CONSTANTS MaxFrames = 2
          DataUnits = 2
          Capacity = 3
          MaxSessions = 2
          Dispositions = {"default"}
INVARIANT ServerSurvivesClient
CHECK_DEADLOCK FALSE
