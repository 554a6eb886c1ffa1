SPECIFICATION FairSpec
CONSTANTS Buffers = {b1, b2, b3}
          NoBuffer = NoBuffer
          EncoderFrames = 2
          CaptureSlots = 2
          MaxFrames = 4
          CanFail = TRUE
INVARIANTS TypeOK BuffersConserved FramesInOrder LatencyOfOwnFrame NoEncodingAfterDelete
           DqThreadFinished
PROPERTIES FramesFlow StopCompletes
CHECK_DEADLOCK FALSE
