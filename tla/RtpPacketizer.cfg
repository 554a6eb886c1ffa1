SPECIFICATION Spec
CONSTANTS AccessUnits <- MCAccessUnits
          Ids = {0, 1}
          MaxRtpPacket = 24
          RefreshInterval = 2
          SequenceModulus = 5
          FirstSequence = 3
          MaxFrames = 3
INVARIANTS TypeOK PacketsFitMtu UdpSequenceGapless AUReassembles ParameterSetsInTime
           RtspMirrorsUdp
CHECK_DEADLOCK FALSE
