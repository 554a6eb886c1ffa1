----------------------- MODULE EncoderPipelineProofs -----------------------
(* Proofs about EncoderPipeline, for any number of buffers, slots and frames, *)
(* with and without failures, with the encoder and in raw frame mode.          *)
EXTENDS EncoderPipeline, QueueLemmas, FiniteSetTheorems

-----------------------------------------------------------------------------
(* Where execute() and the consumer can be at the same time.  The camera runs   *)
(* only between a consumer that has left threadInitialize and its join; on the   *)
(* error paths no frame was ever captured, so the consumer holds none, and the   *)
(* encoder is deleted only there or behind the join.                             *)
BeforeCamera == {"start", "waitrunning", "setup"}
ErrorPath == {"error", "errordeinit", "errorwait", "errorshutdown", "errorjoin"}
Destroying == {"cleanup", "udpjoin", "destroy", "deinit", "destroywait", "done"}
Finished == {"done", "failed"}

ControlInv ==
  /\ cpc = "off" <=> mpc = "start"
  /\ cpc \in {"off", "init", "configure"} => mpc \in {"start", "waitrunning"} \cup ErrorPath
  /\ mpc \in BeforeCamera \cup ErrorPath =>
       cpc \in {"off", "init", "configure", "running", "primeacquire", "rawacquire"} \cup Finished
  /\ mpc \in {"shutdown", "join"} => cpc # "running" \/ raw
  /\ mpc \in Destroying => cpc \in Finished
  /\ encoder = "deleted" => mpc \in {"errorshutdown", "errorjoin", "done"}
  /\ mpc \in {"deinit", "destroywait", "errordeinit", "errorwait"} => encoder = "there"
  /\ cpc \in {"off", "init"} => encoder = "none"
  /\ cpc = "configure" => encoder # "none"
  /\ doShutdown => mpc \in {"join", "errorjoin"} \/ cpc = "done"
  /\ raw => dpc = "off" /\ encoder = "none"
             /\ cpc \in {"off", "init", "running", "rawacquire", "rawrelease", "done"}
  /\ ~raw => cpc \notin {"rawacquire", "rawrelease"}

(* The DQ thread runs for a consumer that has set its encoder up, and an abort     *)
(* ends it.  The streams are on only once it was started, but for the output plane   *)
(* of a consumer that failed to turn the other one on, and never without an encoder.  *)
StreamInv ==
  /\ dpc = "off" => raw \/ encoder = "deleted" \/ cpc \in {"off", "init", "configure", "failed"}
  /\ cpc \in {"off", "init", "configure"} => dpc = "off"
  /\ dpc = "off" => ~capOn /\ (outOn => cpc = "failed")
  /\ encoder # "there" => ~outOn /\ ~capOn
  /\ gotError => dpc = "exit"

(* No capture buffer is there twice.                                             *)
Taken == IF dpc \in {"callback", "requeue"} THEN 1 ELSE 0
CaptureInv ==
  /\ capEmpty + Len(capDone) + Taken <= CaptureSlots
  /\ dpc = "off" => capEmpty = 0 /\ capDone = << >>

(* The frames captured are the frames acquired and the ones in the stream.         *)
CountInv ==
  /\ acquired + Len(captured) = made
  /\ mpc \in BeforeCamera \cup ErrorPath => made = 0 /\ free = Buffers
  /\ dpc = "off" => outQueue = << >> /\ outDone = << >> /\ units = << >> /\ output = << >>

(* When the consumer has a buffer.                                                *)
HandInv ==
  /\ cpc \in {"off", "init", "configure", "primeacquire", "loop", "dequeue", "acquire"} =>
       held = NoBuffer
  /\ cpc = "running" /\ ~raw => held = NoBuffer
  /\ cpc \in {"primequeue", "release", "rawrelease", "queue"} => held # NoBuffer

(* No slot is in the device twice.                                                *)
SlotsDistinct ==
  /\ \A i, j \in 1..Len(outQueue) : outQueue[i].slot = outQueue[j].slot => i = j
  /\ \A i, j \in 1..Len(outDone) : outDone[i] = outDone[j] => i = j
  /\ \A i \in 1..Len(outQueue), j \in 1..Len(outDone) : outQueue[i].slot # outDone[j]

(* The consumer fills the slots in order, and then only the one it took out of the   *)
(* device; but for EOS every slot in the device has a buffer.                        *)
DeviceSlots == {s \in Slots : InDevice(s)}
SlotInv ==
  /\ cpc \in {"off", "init", "configure", "running"} => DeviceSlots = {}
  /\ cpc \in {"primeacquire", "primequeue"} => DeviceSlots \cap slot..EncoderFrames = {}
  /\ cpc \in {"release", "acquire", "queue"} => slot \notin DeviceSlots
  /\ cpc = "eos" /\ ~gotError => slot \notin DeviceSlots
  /\ cpc \notin {"waitdq"} \cup Finished => \A s \in DeviceSlots : shared[s] # NoBuffer

FlagTypes == /\ raw \in BOOLEAN /\ doShutdown \in BOOLEAN /\ gotError \in BOOLEAN
             /\ encoder \in {"none", "there", "deleted"} /\ ended \in BOOLEAN
             /\ outOn \in BOOLEAN /\ capOn \in BOOLEAN

DataTypes == /\ mpc \in MainLabels /\ cpc \in ConsumerLabels /\ dpc \in DqLabels
             /\ free \subseteq Buffers /\ captured \in Seq(Buffers)
             /\ held \in Buffers \cup {NoBuffer} /\ slot \in Slots
             /\ shared \in [Slots -> Buffers \cup {NoBuffer}]
             /\ outQueue \in Seq([slot : Slots, frame : 0..MaxFrames])
             /\ outDone \in Seq(Slots)
             /\ capEmpty \in 0..CaptureSlots /\ capDone \in Seq(0..MaxFrames)
             /\ frame \in 0..MaxFrames
             /\ made \in 0..MaxFrames /\ acquired \in 0..MaxFrames
             /\ output \in Seq(1..MaxFrames) /\ units \in Seq(0..MaxFrames)

PipelineInv == /\ FlagTypes /\ DataTypes
               /\ ControlInv /\ StreamInv /\ CaptureInv /\ CountInv
               /\ HandInv /\ SlotsDistinct /\ SlotInv

-----------------------------------------------------------------------------
LEMMA FlagStep == FlagTypes /\ [Next]_vars => FlagTypes'
<1> SUFFICES ASSUME FlagTypes, [Next]_vars PROVE FlagTypes'
  OBVIOUS
<1> USE DEF FlagTypes, cameraVars, deviceVars, consumerVars, dqVars, mainVars
<1>1. CASE Capture \/ Encode \/ StopCapture
  BY <1>1, ZenonT(60) DEF Capture, Encode, StopCapture
<1>2. CASE Consumer
  BY <1>2, ZenonT(60)
  DEF Consumer, ThreadInitialize, CreateEncoder, RawInitialize, ThreadLoop, RawAcquire, RawRelease,
     PrimeAcquire, PrimeQueue, LoopTest, Dequeue, Release, AcquireNext, QueueFrame, SendEos,
     WaitForDQThread, UseDeleted, Acquire, QueueOutput, QueueFails
<1>3. CASE Dq
  BY <1>3, ZenonT(60) DEF Dq, DqBuffer, Deliver, Requeue, AbortOutput, AbortCapture, SetGotError,
     OutputOff, CaptureOff
<1>4. CASE MainStep
  BY <1>4, ZenonT(60) DEF MainStep, StartConsumer, WaitRunning, StartCapture, RequestShutdown, Join,
     CleanupUDP, SkipEncoder, DeinitOutput, DeinitCapture, DeleteEncoder, ErrorJoin, OutputOff,
     CaptureOff
<1>5. CASE UNCHANGED vars
  BY <1>5, Zenon DEF vars
<1> QED
  BY <1>1, <1>2, <1>3, <1>4, <1>5, Zenon DEF Next

LEMMA ControlStep == PipelineInv /\ [Next]_vars => ControlInv'
<1> SUFFICES ASSUME PipelineInv, [Next]_vars PROVE ControlInv'
  OBVIOUS
<1>0. captured # << >> => mpc \notin BeforeCamera \cup ErrorPath
  <2>1. captured \in Seq(Buffers) /\ acquired \in Nat /\ acquired + Len(captured) = made
    BY PipelineAssumption DEF PipelineInv, DataTypes, CountInv
  <2>2. captured # << >> => Len(captured) \in Nat \ {0}
    BY <2>1, EmptySeq
  <2> QED
    BY <2>1, <2>2 DEF PipelineInv, CountInv
<1> USE DEF PipelineInv, ControlInv, StreamInv, BeforeCamera, ErrorPath, Destroying, Finished,
        cameraVars, deviceVars, consumerVars, dqVars, mainVars, Goto
<1>1. CASE Capture \/ Encode \/ StopCapture
  BY <1>1 DEF Capture, Encode, StopCapture
<1>2. CASE Consumer
  <2>1. CASE ThreadInitialize \/ CreateEncoder \/ RawInitialize \/ UseDeleted
    BY <2>1 DEF ThreadInitialize, CreateEncoder, RawInitialize, UseDeleted
  <2>2. CASE ThreadLoop
    BY <2>2 DEF ThreadLoop
  <2>3. CASE RawAcquire \/ PrimeAcquire \/ AcquireNext
    BY <1>0, <2>3 DEF RawAcquire, PrimeAcquire, AcquireNext, Acquire
  <2>4. CASE RawRelease \/ Release \/ LoopTest \/ Dequeue
    BY <2>4 DEF RawRelease, Release, LoopTest, Dequeue
  <2>5. CASE PrimeQueue \/ QueueFrame \/ SendEos
    BY <2>5 DEF PrimeQueue, QueueFrame, SendEos
  <2>6. CASE WaitForDQThread
    BY <2>6 DEF WaitForDQThread
  <2> QED
    BY <1>2, <2>1, <2>2, <2>3, <2>4, <2>5, <2>6, Zenon DEF Consumer
<1>3. CASE Dq
  BY <1>3 DEF Dq, DqBuffer, Deliver, Requeue, AbortOutput, AbortCapture, SetGotError
<1>4. CASE MainStep
  <2>1. CASE StartConsumer \/ WaitRunning \/ StartCapture
    BY <2>1 DEF StartConsumer, WaitRunning, StartCapture
  <2>2. CASE RequestShutdown \/ Join \/ CleanupUDP \/ ErrorJoin
    BY <2>2 DEF RequestShutdown, Join, CleanupUDP, ErrorJoin
  <2>3. CASE SkipEncoder \/ DeinitOutput \/ DeinitCapture \/ DeleteEncoder
    BY <2>3 DEF SkipEncoder, DeinitOutput, DeinitCapture, DeleteEncoder
  <2> QED
    BY <1>4, <2>1, <2>2, <2>3, Zenon DEF MainStep
<1>5. CASE UNCHANGED vars
  BY <1>5 DEF vars
<1> QED
  BY <1>1, <1>2, <1>3, <1>4, <1>5, Zenon DEF Next

LEMMA StreamStep == PipelineInv /\ [Next]_vars => StreamInv'
<1> SUFFICES ASSUME PipelineInv, [Next]_vars PROVE StreamInv'
  OBVIOUS
<1> USE DEF PipelineInv, ControlInv, StreamInv,
        cameraVars, deviceVars, consumerVars, dqVars, mainVars, Goto
<1>1. CASE Capture \/ Encode \/ StopCapture
  BY <1>1 DEF Capture, Encode, StopCapture
<1>2. CASE Consumer
  <2>1. CASE ThreadInitialize
    BY <2>1 DEF ThreadInitialize
  <2>2. CASE CreateEncoder \/ RawInitialize \/ UseDeleted \/ ThreadLoop
    BY <2>2 DEF CreateEncoder, RawInitialize, UseDeleted, ThreadLoop
  <2>3. CASE RawAcquire \/ PrimeAcquire \/ AcquireNext
    BY <2>3 DEF RawAcquire, PrimeAcquire, AcquireNext, Acquire
  <2>4. CASE RawRelease \/ Release \/ LoopTest \/ Dequeue
    BY <2>4 DEF RawRelease, Release, LoopTest, Dequeue
  <2>5. CASE PrimeQueue \/ QueueFrame \/ SendEos
    BY <2>5 DEF PrimeQueue, QueueFrame, SendEos, QueueOutput, QueueFails
  <2>6. CASE WaitForDQThread
    BY <2>6 DEF WaitForDQThread
  <2> QED
    BY <1>2, <2>1, <2>2, <2>3, <2>4, <2>5, <2>6, Zenon DEF Consumer
<1>3. CASE Dq
  BY <1>3 DEF Dq, DqBuffer, Deliver, Requeue, AbortOutput, AbortCapture, SetGotError,
     OutputOff, CaptureOff
<1>4. CASE MainStep
  <2>1. CASE StartConsumer \/ WaitRunning \/ StartCapture
    BY <2>1 DEF StartConsumer, WaitRunning, StartCapture
  <2>2. CASE RequestShutdown \/ Join \/ CleanupUDP \/ ErrorJoin
    BY <2>2 DEF RequestShutdown, Join, CleanupUDP, ErrorJoin
  <2>3. CASE SkipEncoder \/ DeinitOutput \/ DeinitCapture \/ DeleteEncoder
    BY <2>3 DEF SkipEncoder, DeinitOutput, DeinitCapture, DeleteEncoder, OutputOff, CaptureOff
  <2> QED
    BY <1>4, <2>1, <2>2, <2>3, Zenon DEF MainStep
<1>5. CASE UNCHANGED vars
  BY <1>5 DEF vars
<1> QED
  BY <1>1, <1>2, <1>3, <1>4, <1>5, Zenon DEF Next

LEMMA CaptureStep == PipelineInv /\ [Next]_vars => CaptureInv'
<1> SUFFICES ASSUME PipelineInv, [Next]_vars PROVE CaptureInv'
  OBVIOUS
<1>0. /\ capDone \in Seq(0..MaxFrames) /\ Len(capDone) \in Nat /\ capEmpty \in Nat
      /\ CaptureSlots \in Nat \ {0} /\ Taken \in {0, 1} /\ Len(<< >>) = 0
      /\ capEmpty + Len(capDone) + Taken <= CaptureSlots
      /\ dpc = "off" => capEmpty = 0 /\ capDone = << >>
  BY PipelineAssumption, EmptySeq, LenProperties DEF PipelineInv, DataTypes, Taken, CaptureInv
<1>1. ASSUME UNCHANGED <<capEmpty, capDone, dpc>> PROVE CaptureInv'
  BY <1>0, <1>1 DEF CaptureInv, Taken
<1>2. CASE Capture \/ StopCapture \/ (MainStep /\ ~DeinitCapture /\ ~DeleteEncoder)
  BY <1>1, <1>2, Zenon DEF Capture, StopCapture, MainStep, StartConsumer, WaitRunning, StartCapture,
     RequestShutdown, Join, CleanupUDP, SkipEncoder, DeinitOutput, OutputOff, ErrorJoin,
     deviceVars, dqVars
<1>3. CASE Consumer /\ ~ThreadInitialize
  BY <1>1, <1>3, Zenon DEF Consumer, CreateEncoder, RawInitialize, ThreadLoop, RawAcquire,
     RawRelease,
     PrimeAcquire, PrimeQueue, LoopTest, Dequeue, Release, AcquireNext, QueueFrame, SendEos,
     WaitForDQThread, UseDeleted, Acquire, QueueOutput, QueueFails, deviceVars, dqVars
<1>4. CASE ThreadInitialize
  <2>1. dpc = "off"
    BY <1>4 DEF ThreadInitialize, PipelineInv, StreamInv
  <2> QED
    BY <1>0, <1>4, <2>1 DEF ThreadInitialize, CaptureInv, Taken
<1>5. CASE Encode
  <2>1. /\ capEmpty' = capEmpty - 1 /\ capOn /\ UNCHANGED dpc
        /\ capDone' = Append(capDone, Head(outQueue).frame)
        /\ outQueue # << >>
    BY <1>5 DEF Encode, dqVars
  <2>2. Head(outQueue).frame \in 0..MaxFrames
    <3>1. outQueue \in Seq([slot : Slots, frame : 0..MaxFrames])
      BY DEF PipelineInv, DataTypes
    <3>2. Head(outQueue) \in [slot : Slots, frame : 0..MaxFrames]
      BY <2>1, <3>1, HeadTailProperties
    <3> QED
      BY <3>2
  <2>3. Len(capDone') = Len(capDone) + 1
    BY <1>0, <2>1, <2>2, AppendProperties
  <2>4. dpc # "off"
    BY <2>1 DEF PipelineInv, StreamInv
  <2> QED
    BY <1>0, <2>1, <2>3, <2>4 DEF CaptureInv, Taken
<1>6. CASE DqBuffer
  <2>1. /\ capDone # << >> /\ capDone' = Tail(capDone) /\ dpc = "dq" /\ dpc' = "callback"
        /\ UNCHANGED capEmpty
    BY <1>6 DEF DqBuffer
  <2>2. Len(capDone') = Len(capDone) - 1
    BY <1>0, <2>1, HeadTailProperties
  <2> QED
    BY <1>0, <2>1, <2>2 DEF CaptureInv, Taken
<1>7. CASE Deliver \/ Requeue
  BY <1>0, <1>7 DEF Deliver, Requeue, deviceVars, CaptureInv, Taken
<1>8. CASE AbortOutput \/ AbortCapture \/ SetGotError
  <2>1. /\ UNCHANGED <<capEmpty, capDone>> \/ (capEmpty' = 0 /\ capDone' = << >>)
        /\ dpc' \in {"abort", "aborted", "exit"}
    BY <1>8 DEF AbortOutput, AbortCapture, SetGotError, OutputOff, CaptureOff, deviceVars
  <2>2. Taken' = 0 /\ dpc' # "off"
    BY <2>1 DEF Taken
  <2> QED
    BY <1>0, <2>1, <2>2 DEF CaptureInv
<1>9. CASE DeinitCapture \/ DeleteEncoder
  <2>1. /\ UNCHANGED <<capEmpty, capDone>> \/ (capEmpty' = 0 /\ capDone' = << >>)
        /\ UNCHANGED dpc
    BY <1>9 DEF DeinitCapture, DeleteEncoder, CaptureOff, deviceVars, dqVars
  <2> QED
    BY <1>0, <2>1 DEF CaptureInv, Taken
<1>10. CASE UNCHANGED vars
  BY <1>1, <1>10 DEF vars, deviceVars, dqVars
<1> QED
  BY <1>2, <1>3, <1>4, <1>5, <1>6, <1>7, <1>8, <1>9, <1>10, Zenon DEF Next, Dq

LEMMA CountStep == PipelineInv /\ [Next]_vars => CountInv'
<1> SUFFICES ASSUME PipelineInv, [Next]_vars PROVE CountInv'
  OBVIOUS
<1>0. /\ captured \in Seq(Buffers) /\ Len(captured) \in Nat /\ acquired \in Nat /\ made \in Nat
      /\ acquired + Len(captured) = made /\ (captured # << >> => Len(captured) \in Nat \ {0})
      /\ mpc \in BeforeCamera \cup ErrorPath => made = 0 /\ free = Buffers
      /\ dpc = "off" => outQueue = << >> /\ outDone = << >> /\ units = << >> /\ output = << >>
  BY PipelineAssumption, EmptySeq, LenProperties DEF PipelineInv, DataTypes, CountInv
<1>1. ASSUME UNCHANGED <<captured, acquired, made>>, UNCHANGED <<mpc, free>>
      PROVE  /\ acquired' + Len(captured') = made'
             /\ mpc' \in BeforeCamera \cup ErrorPath => made' = 0 /\ free' = Buffers
  BY <1>0, <1>1
<1>2. CASE Capture
  <2>1. PICK b \in free : captured' = Append(captured, b)
    BY <1>2 DEF Capture
  <2>2. b \in Buffers
    BY <2>1 DEF PipelineInv, DataTypes
  <2>3. Len(captured') = Len(captured) + 1
    BY <1>0, <2>1, <2>2, AppendProperties
  <2>4. /\ mpc' = "wait" /\ made' = made + 1 /\ acquired' = acquired
        /\ UNCHANGED <<dpc, outQueue, outDone, units, output>>
    BY <1>2 DEF Capture, deviceVars, dqVars, consumerVars, mainVars
  <2>5. acquired' + Len(captured') = made'
    BY <1>0, <2>3, <2>4
  <2> QED
    BY <1>0, <2>4, <2>5 DEF CountInv, BeforeCamera, ErrorPath
<1>3. CASE Encode \/ StopCapture
  BY <1>0, <1>3 DEF Encode, StopCapture, CountInv, PipelineInv, StreamInv, BeforeCamera, ErrorPath,
     cameraVars, consumerVars, dqVars, mainVars, deviceVars
<1>4. CASE RawAcquire \/ PrimeAcquire \/ AcquireNext
  <2>1. \/ /\ captured # << >> /\ captured' = Tail(captured)
           /\ acquired' = acquired + 1
        \/ UNCHANGED <<captured, acquired>>
    BY <1>4 DEF RawAcquire, PrimeAcquire, AcquireNext, Acquire
  <2>2. captured # << >> => Len(Tail(captured)) = Len(captured) - 1
    BY <1>0, HeadTailProperties
  <2>3. acquired' + Len(captured') = acquired + Len(captured)
    BY <1>0, <2>1, <2>2
  <2>4. UNCHANGED <<made, mpc, free, dpc, outQueue, outDone, units, output>>
    BY <1>4 DEF RawAcquire, PrimeAcquire, AcquireNext, Acquire, deviceVars, dqVars, mainVars
  <2> QED
    BY <1>0, <2>3, <2>4 DEF CountInv
<1>5. CASE RawRelease \/ Release
  <2>1. mpc \notin BeforeCamera \cup ErrorPath
    BY <1>5 DEF RawRelease, Release, PipelineInv, ControlInv, Finished
  <2> QED
    BY <1>0, <1>5, <2>1 DEF RawRelease, Release, CountInv, deviceVars, dqVars, mainVars
<1>6. CASE ThreadInitialize \/ CreateEncoder \/ RawInitialize \/ UseDeleted \/ ThreadLoop
           \/ LoopTest
           \/ WaitForDQThread
  BY <1>0, <1>6 DEF ThreadInitialize, CreateEncoder, RawInitialize, UseDeleted, ThreadLoop,
     LoopTest,
     WaitForDQThread, CountInv, cameraVars, deviceVars, dqVars, mainVars
<1>7. CASE PrimeQueue \/ QueueFrame \/ SendEos \/ Dequeue
  <2>1. dpc # "off"
    BY <1>7 DEF PrimeQueue, QueueFrame, SendEos, Dequeue, PipelineInv, StreamInv, ControlInv,
       ErrorPath, Destroying, Finished
  <2>2. UNCHANGED <<captured, acquired, made, mpc, free, dpc>>
    BY <1>7 DEF PrimeQueue, QueueFrame, SendEos, Dequeue, cameraVars, dqVars, mainVars
  <2> QED
    BY <1>0, <2>1, <2>2 DEF CountInv
<1>8. CASE Dq
  <2>1. dpc # "off" /\ dpc' # "off"
    BY <1>8 DEF Dq, DqBuffer, Deliver, Requeue, AbortOutput, AbortCapture, SetGotError
  <2>2. UNCHANGED <<captured, acquired, made, mpc, free>>
    BY <1>8 DEF Dq, DqBuffer, Deliver, Requeue, AbortOutput, AbortCapture, SetGotError,
       cameraVars, consumerVars, mainVars
  <2> QED
    BY <1>0, <2>1, <2>2 DEF CountInv
<1>9. CASE MainStep
  <2>1. UNCHANGED <<captured, acquired, made, free, dpc, units, output>>
    BY <1>9 DEF MainStep, StartConsumer, WaitRunning, StartCapture, RequestShutdown, Join,
       CleanupUDP, SkipEncoder, DeinitOutput, DeinitCapture, DeleteEncoder, ErrorJoin, cameraVars,
       consumerVars, dqVars
  <2>2. mpc' \in BeforeCamera \cup ErrorPath => mpc \in BeforeCamera \cup ErrorPath
    BY <1>9 DEF MainStep, StartConsumer, WaitRunning, StartCapture, RequestShutdown, Join,
       CleanupUDP, SkipEncoder, DeinitOutput, DeinitCapture, DeleteEncoder, ErrorJoin,
       BeforeCamera, ErrorPath
  <2>3. dpc' = "off" => outQueue' = << >> /\ outDone' = << >>
    BY <1>0, <1>9 DEF MainStep, StartConsumer, WaitRunning, StartCapture, RequestShutdown, Join,
       CleanupUDP, SkipEncoder, DeinitOutput, DeinitCapture, DeleteEncoder, ErrorJoin, deviceVars,
       dqVars,
       OutputOff, CaptureOff
  <2> QED
    BY <1>0, <2>1, <2>2, <2>3 DEF CountInv
<1>10. CASE UNCHANGED vars
  BY <1>0, <1>10 DEF vars, deviceVars, dqVars, mainVars, cameraVars, consumerVars, CountInv
<1> QED
  BY <1>2, <1>3, <1>4, <1>5, <1>6, <1>7, <1>8, <1>9, <1>10, Zenon DEF Next, Consumer

(* The types, variable by variable: what each action writes has the type of the      *)
(* variable.                                                                        *)
LEMMA LabelsStep ==
  PipelineInv /\ [Next]_vars =>
    mpc' \in MainLabels /\ cpc' \in ConsumerLabels /\ dpc' \in DqLabels
<1> SUFFICES ASSUME PipelineInv, [Next]_vars
             PROVE  mpc' \in MainLabels /\ cpc' \in ConsumerLabels /\ dpc' \in DqLabels
  OBVIOUS
<1>0. mpc \in MainLabels /\ cpc \in ConsumerLabels /\ dpc \in DqLabels
  BY DEF PipelineInv, DataTypes
<1> USE DEF MainLabels, ConsumerLabels, DqLabels, consumerVars, dqVars, mainVars, Goto
<1>1. CASE Capture \/ Encode \/ StopCapture
  BY <1>0, <1>1 DEF Capture, Encode, StopCapture
<1>2. CASE Consumer
  BY <1>0, <1>2 DEF Consumer, ThreadInitialize, CreateEncoder, RawInitialize, ThreadLoop,
     RawAcquire, RawRelease,
     PrimeAcquire, PrimeQueue, LoopTest, Dequeue, Release, AcquireNext, QueueFrame, SendEos,
     WaitForDQThread, UseDeleted, Acquire
<1>3. CASE Dq
  BY <1>0, <1>3 DEF Dq, DqBuffer, Deliver, Requeue, AbortOutput, AbortCapture, SetGotError
<1>4. CASE MainStep
  BY <1>0, <1>4 DEF MainStep, StartConsumer, WaitRunning, StartCapture, RequestShutdown, Join,
     CleanupUDP, SkipEncoder, DeinitOutput, DeinitCapture, DeleteEncoder, ErrorJoin
<1>5. CASE UNCHANGED vars
  BY <1>0, <1>5 DEF vars
<1> QED
  BY <1>1, <1>2, <1>3, <1>4, <1>5, Zenon DEF Next

LEMMA CameraTypes ==
  PipelineInv /\ [Next]_vars =>
    /\ free' \subseteq Buffers /\ captured' \in Seq(Buffers)
    /\ made' \in 0..MaxFrames /\ acquired' \in 0..MaxFrames
    /\ held' \in Buffers \cup {NoBuffer}
<1> SUFFICES ASSUME PipelineInv, [Next]_vars
             PROVE  /\ free' \subseteq Buffers /\ captured' \in Seq(Buffers)
                    /\ made' \in 0..MaxFrames /\ acquired' \in 0..MaxFrames
                    /\ held' \in Buffers \cup {NoBuffer}
  OBVIOUS
<1>0. /\ free \subseteq Buffers /\ captured \in Seq(Buffers) /\ MaxFrames \in Nat
      /\ made \in 0..MaxFrames /\ acquired \in 0..MaxFrames
      /\ held \in Buffers \cup {NoBuffer} /\ held \in {NoBuffer} \cup Buffers
  BY PipelineAssumption DEF PipelineInv, DataTypes
<1>1. /\ free' \subseteq Buffers /\ captured' \in Seq(Buffers)
      /\ made' \in 0..MaxFrames /\ acquired' \in Nat
      /\ held' \in Buffers \cup {NoBuffer}
  <2>1. CASE Capture
    <3>1. PICK b \in free : captured' = Append(captured, b) /\ free' = free \ {b}
      BY <2>1 DEF Capture
    <3>2. captured' \in Seq(Buffers)
      BY <1>0, <3>1, AppendProperties
    <3>3. made' = made + 1 /\ made < MaxFrames /\ acquired' = acquired /\ held' = held
      BY <2>1 DEF Capture, consumerVars
    <3> QED
      BY <1>0, <3>1, <3>2, <3>3
  <2>2. CASE RawAcquire \/ PrimeAcquire \/ AcquireNext
    <3>1. \/ /\ captured # << >> /\ captured' = Tail(captured) /\ held' = Head(captured)
             /\ acquired' = acquired + 1
          \/ UNCHANGED <<captured, acquired, held>>
      BY <2>2 DEF RawAcquire, PrimeAcquire, AcquireNext, Acquire
    <3>2. UNCHANGED <<free, made>>
      BY <2>2 DEF RawAcquire, PrimeAcquire, AcquireNext, Acquire
    <3>3. captured # << >> => Tail(captured) \in Seq(Buffers) /\ Head(captured) \in Buffers
      BY <1>0, HeadTailProperties
    <3> QED
      BY <1>0, <3>1, <3>2, <3>3
  <2>3. CASE RawRelease \/ Release
    <3>1. held \in Buffers /\ held # NoBuffer
      BY <1>0, <2>3 DEF RawRelease, Release, PipelineInv, HandInv
    <3> QED
      BY <1>0, <2>3, <3>1 DEF RawRelease, Release
  <2>4. CASE Dequeue
    <3>1. \/ outDone # << >> /\ held' = shared[Head(outDone)]
          \/ held' = held
      BY <2>4 DEF Dequeue
    <3>2. outDone # << >> => Head(outDone) \in Slots
      <4>1. outDone \in Seq(Slots)
        BY DEF PipelineInv, DataTypes
      <4> QED
        BY <4>1, HeadTailProperties
    <3>3. shared \in [Slots -> Buffers \cup {NoBuffer}]
      BY DEF PipelineInv, DataTypes
    <3> QED
      BY <1>0, <2>4, <3>1, <3>2, <3>3 DEF Dequeue, cameraVars
  <2>5. CASE PrimeQueue \/ QueueFrame
    BY <1>0, <2>5 DEF PrimeQueue, QueueFrame, cameraVars
  <2>6. CASE Encode \/ StopCapture \/ Dq \/ MainStep \/ SendEos
    BY <1>0, <2>6 DEF Encode, StopCapture, Dq, DqBuffer, Deliver, Requeue, AbortOutput,
       AbortCapture, SetGotError, MainStep, StartConsumer, WaitRunning, StartCapture,
       RequestShutdown, Join, CleanupUDP, SkipEncoder, DeinitOutput, DeinitCapture, DeleteEncoder,
       ErrorJoin,
       SendEos, cameraVars, consumerVars
  <2>7. CASE ThreadInitialize \/ CreateEncoder \/ RawInitialize \/ ThreadLoop \/ LoopTest
             \/ WaitForDQThread
             \/ UseDeleted \/ UNCHANGED vars
    BY <1>0, <2>7 DEF ThreadInitialize, CreateEncoder, RawInitialize, ThreadLoop, LoopTest,
       WaitForDQThread,
       UseDeleted, vars, cameraVars, consumerVars
  <2> QED
    BY <2>1, <2>2, <2>3, <2>4, <2>5, <2>6, <2>7, Zenon DEF Next, Consumer
<1>2. acquired' + Len(captured') = made'
  BY CountStep DEF CountInv
<1>3. Len(captured') \in Nat
  BY <1>1, LenProperties
<1> QED
  BY <1>0, <1>1, <1>2, <1>3

LEMMA QueueTyped ==
  ASSUME NEW q \in Seq([slot : Slots, frame : 0..MaxFrames]), q # << >>
  PROVE  /\ Head(q).slot \in Slots /\ Head(q).frame \in 0..MaxFrames
         /\ Tail(q) \in Seq([slot : Slots, frame : 0..MaxFrames])
         /\ Len(q) \in Nat \ {0} /\ Len(Tail(q)) = Len(q) - 1
         /\ Head(q) = q[1] /\ \A i \in 1..Len(Tail(q)) : Tail(q)[i] = q[i + 1]
<1>1. Head(q) \in [slot : Slots, frame : 0..MaxFrames]
  BY HeadTailProperties
<1>2. Head(q).slot \in Slots /\ Head(q).frame \in 0..MaxFrames
  BY <1>1
<1> QED
  BY <1>2, HeadTailProperties, EmptySeq

LEMMA QueueAppended ==
  ASSUME NEW q \in Seq([slot : Slots, frame : 0..MaxFrames]),
         NEW s \in Slots, NEW f \in 0..MaxFrames, NEW item, item = [slot |-> s, frame |-> f]
  PROVE  /\ Append(q, item) \in Seq([slot : Slots, frame : 0..MaxFrames])
         /\ Len(q) \in Nat /\ Len(Append(q, item)) = Len(q) + 1
         /\ \A i \in 1..Len(q) : Append(q, item)[i] = q[i]
         /\ Append(q, item)[Len(q) + 1] = item
         /\ item.slot = s /\ item.frame = f
<1>1. item \in [slot : Slots, frame : 0..MaxFrames]
  OBVIOUS
<1>2. item.slot = s /\ item.frame = f
  OBVIOUS
<1> QED
  BY <1>1, <1>2, AppendProperties, LenProperties

(* What the three calls of QBUF do to the output plane, whether they succeed or fail. *)
LEMMA QueueCalls ==
  ASSUME PipelineInv, PrimeQueue \/ QueueFrame \/ SendEos
  PROVE  /\ UNCHANGED <<outDone, capEmpty, capDone, outOn, capOn>> /\ ~raw
         /\ cameraVars' = cameraVars /\ dqVars' = dqVars /\ mainVars' = mainVars
         /\ acquired' = acquired /\ raw' = raw
         /\ \E b \in Buffers \cup {NoBuffer}, f \in 0..MaxFrames :
              /\ f = IF cpc = "eos" THEN EOS ELSE acquired
              /\ b = IF cpc = "eos" THEN NoBuffer ELSE held
              /\ shared' = [shared EXCEPT ![slot] = b]
              /\ StartProcessing(f)
              /\ \/ ~InDevice(slot) /\ outQueue' = Append(outQueue, [slot |-> slot, frame |-> f])
                    /\ cpc' # "failed"
                 \/ outQueue' = outQueue /\ cpc' = "failed" /\ slot' = slot /\ held' = held
<1>1. /\ held \in Buffers \cup {NoBuffer} /\ acquired \in 0..MaxFrames /\ EOS \in 0..MaxFrames
      /\ NoBuffer \in Buffers \cup {NoBuffer}
  BY PipelineAssumption DEF PipelineInv, DataTypes, EOS
<1>2. ~raw
  BY DEF PrimeQueue, QueueFrame, SendEos, PipelineInv, ControlInv
<1> USE DEF QueueOutput, QueueFails, Goto, deviceVars
<1>3. CASE PrimeQueue
  BY <1>1, <1>2, <1>3 DEF PrimeQueue
<1>4. CASE QueueFrame
  BY <1>1, <1>2, <1>4 DEF QueueFrame
<1>5. CASE SendEos
  BY <1>1, <1>2, <1>5 DEF SendEos
<1> QED
  BY <1>3, <1>4, <1>5

LEMMA OutputTypes ==
  PipelineInv /\ [Next]_vars =>
    /\ outQueue' \in Seq([slot : Slots, frame : 0..MaxFrames]) /\ outDone' \in Seq(Slots)
    /\ slot' \in Slots /\ shared' \in [Slots -> Buffers \cup {NoBuffer}]
<1> SUFFICES ASSUME PipelineInv, [Next]_vars
             PROVE  /\ outQueue' \in Seq([slot : Slots, frame : 0..MaxFrames])
                    /\ outDone' \in Seq(Slots) /\ slot' \in Slots
                    /\ shared' \in [Slots -> Buffers \cup {NoBuffer}]
  OBVIOUS
<1>0. /\ outQueue \in Seq([slot : Slots, frame : 0..MaxFrames]) /\ outDone \in Seq(Slots)
      /\ slot \in Slots /\ shared \in [Slots -> Buffers \cup {NoBuffer}]
      /\ << >> \in Seq([slot : Slots, frame : 0..MaxFrames]) /\ << >> \in Seq(Slots)
  BY EmptySeq DEF PipelineInv, DataTypes
<1>1. CASE Encode
  <2>1. /\ outQueue # << >> /\ outQueue' = Tail(outQueue)
        /\ outDone' = Append(outDone, Head(outQueue).slot) /\ UNCHANGED <<slot, shared>>
    BY <1>1 DEF Encode, consumerVars
  <2> QED
    BY <1>0, <2>1, QueueTyped, AppendProperties
<1>2. CASE PrimeQueue \/ QueueFrame \/ SendEos
  <2>1. PICK b \in Buffers \cup {NoBuffer}, f \in 0..MaxFrames :
          /\ shared' = [shared EXCEPT ![slot] = b]
          /\ \/ outQueue' = Append(outQueue, [slot |-> slot, frame |-> f])
             \/ outQueue' = outQueue
    BY <1>2, QueueCalls, Zenon
  <2>2. outDone' = outDone
    BY <1>2, QueueCalls
  <2>3. outQueue' \in Seq([slot : Slots, frame : 0..MaxFrames])
    <3>1. [slot |-> slot, frame |-> f] \in [slot : Slots, frame : 0..MaxFrames]
      BY <1>0
    <3>2. Append(outQueue, [slot |-> slot, frame |-> f])
            \in Seq([slot : Slots, frame : 0..MaxFrames])
      BY <1>0, <3>1, AppendProperties, Zenon
    <3> QED
      BY <1>0, <2>1, <3>2, Zenon
  <2>4. shared' \in [Slots -> Buffers \cup {NoBuffer}]
    BY <1>0, <2>1
  <2>5. slot' \in Slots
    BY <1>0, <1>2, PipelineAssumption DEF PrimeQueue, QueueFrame, SendEos, Slots
  <2> QED
    BY <1>0, <2>2, <2>3, <2>4, <2>5
<1>3. CASE Dequeue
  <2>1. outDone # << >> => Head(outDone) \in Slots /\ Tail(outDone) \in Seq(Slots)
    BY <1>0, HeadTailProperties
  <2> QED
    BY <1>0, <1>3, <2>1 DEF Dequeue
<1>4. CASE ThreadInitialize \/ CreateEncoder \/ RawInitialize \/ ThreadLoop \/ LoopTest
           \/ WaitForDQThread
           \/ UseDeleted \/ UNCHANGED vars
  BY <1>0, <1>4, PipelineAssumption DEF ThreadInitialize, CreateEncoder, RawInitialize,
     ThreadLoop, LoopTest,
     WaitForDQThread, UseDeleted, vars, deviceVars, consumerVars, Slots
<1>5. CASE RawAcquire \/ PrimeAcquire \/ AcquireNext \/ RawRelease \/ Release
           \/ Capture \/ StopCapture
  BY <1>0, <1>5 DEF RawAcquire, PrimeAcquire, AcquireNext, Acquire, RawRelease, Release, Capture,
     StopCapture, deviceVars, consumerVars
<1>6. CASE Dq
  BY <1>0, <1>6 DEF Dq, DqBuffer, Deliver, Requeue, AbortOutput, AbortCapture, SetGotError,
     OutputOff, CaptureOff, deviceVars, consumerVars
<1>7. CASE MainStep
  BY <1>0, <1>7 DEF MainStep, StartConsumer, WaitRunning, StartCapture, RequestShutdown, Join,
     CleanupUDP, SkipEncoder, DeinitOutput, DeinitCapture, DeleteEncoder, ErrorJoin, OutputOff,
     CaptureOff,
     deviceVars, consumerVars
<1> QED
  BY <1>1, <1>2, <1>3, <1>4, <1>5, <1>6, <1>7, Zenon DEF Next, Consumer

LEMMA CaptureTypes ==
  PipelineInv /\ [Next]_vars =>
    /\ capEmpty' \in 0..CaptureSlots /\ capDone' \in Seq(0..MaxFrames) /\ frame' \in 0..MaxFrames
<1> SUFFICES ASSUME PipelineInv, [Next]_vars
             PROVE  /\ capEmpty' \in 0..CaptureSlots /\ capDone' \in Seq(0..MaxFrames)
                    /\ frame' \in 0..MaxFrames
  OBVIOUS
<1>0. /\ capEmpty \in 0..CaptureSlots /\ capDone \in Seq(0..MaxFrames) /\ frame \in 0..MaxFrames
      /\ CaptureSlots \in Nat \ {0} /\ << >> \in Seq(0..MaxFrames)
  BY EmptySeq, PipelineAssumption DEF PipelineInv, DataTypes
<1>1. capEmpty' \in Nat /\ capDone' \in Seq(0..MaxFrames) /\ frame' \in 0..MaxFrames
  <2>1. CASE Encode
    <3>1. /\ outQueue # << >> /\ capEmpty > 0 /\ capEmpty' = capEmpty - 1 /\ frame' = frame
          /\ capDone' = Append(capDone, Head(outQueue).frame)
      BY <2>1 DEF Encode, dqVars
    <3>2. Head(outQueue).frame \in 0..MaxFrames
      BY <3>1, QueueTyped DEF PipelineInv, DataTypes
    <3> QED
      BY <1>0, <3>1, <3>2, AppendProperties
  <2>2. CASE DqBuffer
    <3>1. /\ capDone # << >> /\ capDone' = Tail(capDone) /\ frame' = Head(capDone)
          /\ capEmpty' = capEmpty
      BY <2>2 DEF DqBuffer
    <3>2. Head(capDone) \in 0..MaxFrames /\ Tail(capDone) \in Seq(0..MaxFrames)
      BY <1>0, <3>1, HeadTailProperties, Zenon
    <3>3. capEmpty \in Nat
      BY <1>0
    <3> QED
      BY <3>1, <3>2, <3>3, Zenon
  <2>3. CASE PrimeQueue \/ QueueFrame \/ SendEos
    BY <1>0, <2>3, QueueCalls DEF dqVars
  <2>4. CASE Requeue
    <3>1. capEmpty' = capEmpty + 1 /\ UNCHANGED <<capDone, frame>>
      BY <2>4 DEF Requeue
    <3>2. capEmpty' \in Nat
      BY <1>0, <3>1
    <3> QED
      BY <1>0, <3>1, <3>2, Zenon
  <2>5. CASE ThreadInitialize
    BY <1>0, <2>5 DEF ThreadInitialize
  <2>6. CASE CreateEncoder \/ RawInitialize \/ ThreadLoop \/ LoopTest \/ WaitForDQThread
             \/ UseDeleted \/ Dequeue
             \/ UNCHANGED vars
    BY <1>0, <2>6 DEF CreateEncoder, RawInitialize, ThreadLoop, LoopTest, WaitForDQThread,
       UseDeleted, Dequeue,
       vars, deviceVars, dqVars
  <2>7. CASE RawAcquire \/ PrimeAcquire \/ AcquireNext \/ RawRelease \/ Release
             \/ Capture \/ StopCapture
    BY <1>0, <2>7 DEF RawAcquire, PrimeAcquire, AcquireNext, Acquire, RawRelease, Release, Capture,
       StopCapture, deviceVars, dqVars
  <2>8. CASE MainStep \/ Deliver \/ AbortOutput \/ AbortCapture \/ SetGotError
    <3>1. \/ UNCHANGED <<capEmpty, capDone, frame>>
          \/ capEmpty' = 0 /\ capDone' = << >> /\ frame' = frame
      BY <2>8, Zenon DEF MainStep, StartConsumer, WaitRunning, StartCapture, RequestShutdown, Join,
         CleanupUDP, SkipEncoder, DeinitOutput, DeinitCapture, DeleteEncoder, ErrorJoin, Deliver,
         AbortOutput, AbortCapture, SetGotError, OutputOff, CaptureOff, deviceVars, dqVars
    <3>2. capEmpty \in Nat /\ 0 \in Nat
      BY <1>0
    <3> QED
      BY <1>0, <3>1, <3>2, Zenon
  <2> QED
    BY <2>1, <2>2, <2>3, <2>4, <2>5, <2>6, <2>7, <2>8, Zenon DEF Next, Consumer, Dq
<1>2. capEmpty' + Len(capDone') + Taken' <= CaptureSlots
  BY CaptureStep DEF CaptureInv
<1>3. Len(capDone') \in Nat /\ Taken' \in {0, 1}
  BY <1>1, LenProperties DEF Taken
<1> QED
  BY <1>0, <1>1, <1>2, <1>3

LEMMA HistoryTypes ==
  PipelineInv /\ [Next]_vars => output' \in Seq(1..MaxFrames) /\ units' \in Seq(0..MaxFrames)
<1> SUFFICES ASSUME PipelineInv, [Next]_vars
             PROVE  output' \in Seq(1..MaxFrames) /\ units' \in Seq(0..MaxFrames)
  OBVIOUS
<1>0. output \in Seq(1..MaxFrames) /\ units \in Seq(0..MaxFrames) /\ frame \in 0..MaxFrames
  BY DEF PipelineInv, DataTypes
<1>1. CASE PrimeQueue \/ QueueFrame \/ SendEos
  <2>1. PICK f \in 0..MaxFrames : StartProcessing(f)
    BY <1>1, QueueCalls, Zenon
  <2>2. output' = output
    BY <1>1, QueueCalls DEF dqVars
  <2> QED
    BY <1>0, <2>1, <2>2, AppendProperties DEF StartProcessing
<1>2. CASE DqBuffer
  <2>1. units # << >> => Tail(units) \in Seq(0..MaxFrames)
    BY <1>0, HeadTailProperties
  <2> QED
    BY <1>0, <1>2, <2>1 DEF DqBuffer, FinishProcessing
<1>3. CASE Deliver
  <2>1. frame # EOS => Append(output, frame) \in Seq(1..MaxFrames)
    <3>1. frame # EOS => frame \in 1..MaxFrames
      BY <1>0 DEF EOS
    <3> QED
      BY <1>0, <3>1, AppendProperties
  <2> QED
    BY <1>0, <1>3, <2>1 DEF Deliver
<1>4. CASE Requeue \/ AbortOutput \/ AbortCapture \/ SetGotError \/ Encode
  BY <1>0, <1>4 DEF Requeue, AbortOutput, AbortCapture, SetGotError, Encode, dqVars
<1>5. CASE ThreadInitialize \/ CreateEncoder \/ RawInitialize \/ ThreadLoop \/ LoopTest
           \/ WaitForDQThread
           \/ UseDeleted \/ Dequeue \/ UNCHANGED vars
  BY <1>0, <1>5 DEF ThreadInitialize, CreateEncoder, RawInitialize, ThreadLoop, LoopTest,
     WaitForDQThread,
     UseDeleted, Dequeue, vars, deviceVars, dqVars
<1>6. CASE RawAcquire \/ PrimeAcquire \/ AcquireNext \/ RawRelease \/ Release
           \/ Capture \/ StopCapture
  BY <1>0, <1>6 DEF RawAcquire, PrimeAcquire, AcquireNext, Acquire, RawRelease, Release, Capture,
     StopCapture, deviceVars, dqVars
<1>7. CASE MainStep
  BY <1>0, <1>7 DEF MainStep, StartConsumer, WaitRunning, StartCapture, RequestShutdown, Join,
     CleanupUDP, SkipEncoder, DeinitOutput, DeinitCapture, DeleteEncoder, ErrorJoin, dqVars
<1> QED
  BY <1>1, <1>2, <1>3, <1>4, <1>5, <1>6, <1>7, Zenon DEF Next, Consumer, Dq

LEMMA DataStep == PipelineInv /\ [Next]_vars => DataTypes'
BY LabelsStep, CameraTypes, OutputTypes, CaptureTypes, HistoryTypes, Zenon DEF DataTypes

-----------------------------------------------------------------------------
(* What the calls on the output plane do to the slots in the device.                  *)
LEMMA DeviceElements ==
  ASSUME PipelineInv
  PROVE  /\ \A i \in 1..Len(outQueue) : outQueue[i].slot \in DeviceSlots
         /\ \A i \in 1..Len(outDone) : outDone[i] \in DeviceSlots
         /\ \A s \in DeviceSlots : \/ \E i \in 1..Len(outQueue) : outQueue[i].slot = s
                                   \/ \E i \in 1..Len(outDone) : outDone[i] = s
<1>1. \A i \in 1..Len(outQueue) : outQueue[i].slot \in Slots
  <2>1. \A i \in 1..Len(outQueue) : outQueue[i] \in [slot : Slots, frame : 0..MaxFrames]
    BY ElementOfSeq DEF PipelineInv, DataTypes
  <2> QED
    BY <2>1
<1>2. \A i \in 1..Len(outDone) : outDone[i] \in Slots
  BY ElementOfSeq DEF PipelineInv, DataTypes
<1> QED
  BY <1>1, <1>2 DEF DeviceSlots, InDevice

LEMMA QueueDevice ==
  ASSUME PipelineInv, NEW f \in 0..MaxFrames, slot \notin DeviceSlots, outDone' = outDone,
         outQueue' = Append(outQueue, [slot |-> slot, frame |-> f])
  PROVE  DeviceSlots' = DeviceSlots \cup {slot} /\ SlotsDistinct'
<1>1. /\ outQueue \in Seq([slot : Slots, frame : 0..MaxFrames]) /\ slot \in Slots
      /\ outDone \in Seq(Slots) /\ SlotsDistinct
  BY DEF PipelineInv, DataTypes
<1>2. PICK item : item = [slot |-> slot, frame |-> f]
  OBVIOUS
<1>3. /\ Len(outQueue) \in Nat /\ Len(outQueue') = Len(outQueue) + 1
      /\ \A i \in 1..Len(outQueue) : outQueue'[i] = outQueue[i]
      /\ outQueue'[Len(outQueue) + 1].slot = slot
  BY <1>1, <1>2, QueueAppended
<1>4. \A s \in Slots : InDevice(s)' <=> InDevice(s) \/ s = slot
  BY <1>3 DEF InDevice
<1>5. SlotsDistinct'
  BY <1>1, <1>3, DeviceElements, SMTT(40) DEF SlotsDistinct
<1> QED
  BY <1>1, <1>4, <1>5 DEF DeviceSlots

LEMMA EncodeDevice == PipelineInv /\ Encode => DeviceSlots' = DeviceSlots /\ SlotsDistinct'
<1> SUFFICES ASSUME PipelineInv, Encode PROVE DeviceSlots' = DeviceSlots /\ SlotsDistinct'
  OBVIOUS
<1>1. /\ outQueue \in Seq([slot : Slots, frame : 0..MaxFrames]) /\ outQueue # << >>
      /\ outDone \in Seq(Slots) /\ SlotsDistinct
      /\ outQueue' = Tail(outQueue) /\ outDone' = Append(outDone, Head(outQueue).slot)
  BY DEF Encode, PipelineInv, DataTypes
<1>2. /\ Len(outQueue) \in Nat \ {0} /\ Len(outQueue') = Len(outQueue) - 1
      /\ \A i \in 1..Len(outQueue') : outQueue'[i] = outQueue[i + 1]
      /\ Head(outQueue).slot = outQueue[1].slot /\ Head(outQueue).slot \in Slots
  BY <1>1, QueueTyped
<1>3. /\ Len(outDone) \in Nat /\ Len(outDone') = Len(outDone) + 1
      /\ \A i \in 1..Len(outDone) : outDone'[i] = outDone[i]
      /\ outDone'[Len(outDone) + 1] = outQueue[1].slot
  BY <1>1, <1>2, AppendProperties, LenProperties
<1>4. \A s \in Slots : InDevice(s)' <=> InDevice(s)
  <2>1. ASSUME NEW s \in Slots, InDevice(s) PROVE InDevice(s)'
    <3>1. CASE \E i \in 1..Len(outQueue) : outQueue[i].slot = s
      <4>1. PICK i \in 1..Len(outQueue) : outQueue[i].slot = s
        BY <3>1
      <4>2. CASE i = 1
        BY <1>3, <4>1, <4>2 DEF InDevice
      <4>3. CASE i # 1
        <5>1. i - 1 \in 1..Len(outQueue') /\ outQueue'[i - 1].slot = s
          BY <1>2, <4>1, <4>3
        <5> QED
          BY <5>1 DEF InDevice
      <4> QED
        BY <4>2, <4>3
    <3>2. CASE \E i \in 1..Len(outDone) : outDone[i] = s
      BY <1>3, <3>2 DEF InDevice
    <3> QED
      BY <2>1, <3>1, <3>2 DEF InDevice
  <2>2. ASSUME NEW s \in Slots, InDevice(s)' PROVE InDevice(s)
    <3>1. CASE \E i \in 1..Len(outQueue') : outQueue'[i].slot = s
      <4>1. PICK i \in 1..Len(outQueue') : outQueue'[i].slot = s
        BY <3>1
      <4>2. i + 1 \in 1..Len(outQueue) /\ outQueue[i + 1].slot = s
        BY <1>2, <4>1
      <4> QED
        BY <4>2 DEF InDevice
    <3>2. CASE \E i \in 1..Len(outDone') : outDone'[i] = s
      BY <1>2, <1>3, <3>2 DEF InDevice
    <3> QED
      BY <2>2, <3>1, <3>2 DEF InDevice
  <2> QED
    BY <2>1, <2>2
<1>5. SlotsDistinct'
  <2>1. \A i, j \in 1..Len(outQueue') : outQueue'[i].slot = outQueue'[j].slot => i = j
    BY <1>1, <1>2 DEF SlotsDistinct
  <2>2. \A i, j \in 1..Len(outDone') : outDone'[i] = outDone'[j] => i = j
    BY <1>1, <1>2, <1>3 DEF SlotsDistinct
  <2>3. \A i \in 1..Len(outQueue'), j \in 1..Len(outDone') : outQueue'[i].slot # outDone'[j]
    BY <1>1, <1>2, <1>3 DEF SlotsDistinct
  <2> QED
    BY <2>1, <2>2, <2>3 DEF SlotsDistinct
<1> QED
  BY <1>4, <1>5 DEF DeviceSlots

LEMMA DequeueDevice ==
  ASSUME PipelineInv, outDone # << >>, outDone' = Tail(outDone), outQueue' = outQueue
  PROVE  /\ Head(outDone) \in DeviceSlots /\ Head(outDone) \in Slots
         /\ DeviceSlots' = DeviceSlots \ {Head(outDone)} /\ SlotsDistinct'
<1>1. outDone \in Seq(Slots) /\ SlotsDistinct
  BY DEF PipelineInv, DataTypes
<1>2. /\ Len(outDone) \in Nat \ {0} /\ Len(outDone') = Len(outDone) - 1
      /\ \A i \in 1..Len(outDone') : outDone'[i] = outDone[i + 1]
      /\ Head(outDone) = outDone[1] /\ Head(outDone) \in Slots
  BY <1>1, HeadTailProperties, EmptySeq
<1>3. \A s \in Slots : InDevice(s)' <=> InDevice(s) /\ s # Head(outDone)
  <2>1. ASSUME NEW s \in Slots, InDevice(s), s # Head(outDone) PROVE InDevice(s)'
    <3>1. CASE \E i \in 1..Len(outQueue) : outQueue[i].slot = s
      BY <3>1 DEF InDevice
    <3>2. CASE \E i \in 1..Len(outDone) : outDone[i] = s
      <4>1. PICK i \in 1..Len(outDone) : outDone[i] = s
        BY <3>2
      <4>2. i - 1 \in 1..Len(outDone') /\ outDone'[i - 1] = s
        BY <1>2, <2>1, <4>1
      <4> QED
        BY <4>2 DEF InDevice
    <3> QED
      BY <2>1, <3>1, <3>2 DEF InDevice
  <2>2. ASSUME NEW s \in Slots, InDevice(s)' PROVE InDevice(s) /\ s # Head(outDone)
    <3>1. CASE \E i \in 1..Len(outQueue') : outQueue'[i].slot = s
      BY <1>1, <1>2, <3>1 DEF InDevice, SlotsDistinct
    <3>2. CASE \E i \in 1..Len(outDone') : outDone'[i] = s
      BY <1>1, <1>2, <3>2 DEF InDevice, SlotsDistinct
    <3> QED
      BY <2>2, <3>1, <3>2 DEF InDevice
  <2> QED
    BY <2>1, <2>2
<1>4. SlotsDistinct'
  BY <1>1, <1>2 DEF SlotsDistinct
<1>5. Head(outDone) \in DeviceSlots
  BY <1>2, DeviceElements
<1> QED
  BY <1>2, <1>3, <1>4, <1>5 DEF DeviceSlots

LEMMA NothingInDevice ==
  ASSUME outQueue' = << >>, outDone' = << >>
  PROVE  DeviceSlots' = {} /\ SlotsDistinct'
<1>1. Len(outQueue') = 0 /\ Len(outDone') = 0
  BY EmptyRun
<1> QED
  BY <1>1 DEF DeviceSlots, InDevice, SlotsDistinct

LEMMA SameDevice ==
  ASSUME UNCHANGED <<outQueue, outDone>>
  PROVE  DeviceSlots' = DeviceSlots /\ (SlotsDistinct => SlotsDistinct')
BY DEF DeviceSlots, InDevice, SlotsDistinct

LEMMA HandStep == PipelineInv /\ [Next]_vars => HandInv'
<1> SUFFICES ASSUME PipelineInv, [Next]_vars PROVE HandInv'
  OBVIOUS
<1>0. HandInv /\ (raw => cpc \notin {"primeacquire", "loop", "dequeue", "acquire", "primequeue",
                                     "queue", "eos", "release"})
  BY DEF PipelineInv, ControlInv
<1>1. CASE Capture \/ Encode \/ StopCapture \/ Dq
  BY <1>0, <1>1 DEF HandInv, Capture, Encode, StopCapture, Dq, DqBuffer, Deliver, Requeue,
     AbortOutput, AbortCapture, SetGotError, consumerVars
<1>2. CASE MainStep
  <2>1. \/ UNCHANGED <<cpc, held, raw>>
        \/ cpc = "off" /\ cpc' = "init" /\ UNCHANGED <<held, raw>>
    BY <1>2, Zenon DEF MainStep, StartConsumer, WaitRunning, StartCapture, RequestShutdown, Join,
       CleanupUDP, SkipEncoder, DeinitOutput, DeinitCapture, DeleteEncoder, ErrorJoin,
       consumerVars, Goto,
       PipelineInv, ControlInv
  <2> QED
    BY <1>0, <2>1 DEF HandInv
<1>3. CASE ThreadInitialize \/ CreateEncoder \/ RawInitialize \/ ThreadLoop \/ LoopTest
           \/ WaitForDQThread
           \/ UseDeleted \/ UNCHANGED vars
  BY <1>0, <1>3 DEF HandInv, ThreadInitialize, CreateEncoder, RawInitialize, ThreadLoop, LoopTest,
     WaitForDQThread,
     UseDeleted, vars, consumerVars, Goto
<1>4. CASE RawAcquire \/ PrimeAcquire \/ AcquireNext
  <2>1. captured # << >> => Head(captured) # NoBuffer
    <3>1. captured \in Seq(Buffers) /\ NoBuffer \notin Buffers
      BY PipelineAssumption DEF PipelineInv, DataTypes
    <3> QED
      BY <3>1, HeadTailProperties
  <2> QED
    BY <1>0, <1>4, <2>1 DEF HandInv, RawAcquire, PrimeAcquire, AcquireNext, Acquire, Goto,
       PipelineInv, ControlInv
<1>5. CASE RawRelease \/ Release \/ PrimeQueue \/ QueueFrame \/ SendEos
  BY <1>0, <1>5 DEF HandInv, RawRelease, Release, PrimeQueue, QueueFrame, SendEos, Goto
<1>6. CASE Dequeue
  <2>1. outDone # << >> => Head(outDone) \in DeviceSlots
    <3>1. outDone \in Seq(Slots)
      BY DEF PipelineInv, DataTypes
    <3>2. outDone # << >> => 1 \in 1..Len(outDone) /\ Head(outDone) = outDone[1]
      BY <3>1, HeadTailProperties, EmptySeq
    <3> QED
      BY <3>2, DeviceElements
  <2>2. outDone # << >> => shared[Head(outDone)] # NoBuffer
    BY <1>6, <2>1 DEF Dequeue, PipelineInv, SlotInv, Finished
  <2> QED
    BY <1>6, <2>2 DEF HandInv, Dequeue, Goto
<1> QED
  BY <1>1, <1>2, <1>3, <1>4, <1>5, <1>6, Zenon DEF Next, Consumer

(* QBUF only ever queues a slot that is not in the device.                             *)
LEMMA QueueSlot ==
  ASSUME PipelineInv, PrimeQueue \/ QueueFrame \/ SendEos
  PROVE  /\ \/ /\ slot \notin DeviceSlots /\ DeviceSlots' = DeviceSlots \cup {slot}
               /\ cpc' # "failed"
            \/ /\ DeviceSlots' = DeviceSlots /\ cpc' = "failed"
               /\ outQueue' = outQueue /\ slot' = slot /\ held' = held
         /\ SlotsDistinct'
<1>1. outDone' = outDone
  BY QueueCalls
<1>2. PICK f \in 0..MaxFrames :
        \/ ~InDevice(slot) /\ outQueue' = Append(outQueue, [slot |-> slot, frame |-> f])
           /\ cpc' # "failed"
        \/ outQueue' = outQueue /\ cpc' = "failed" /\ slot' = slot /\ held' = held
  BY QueueCalls, Zenon
<1>3. CASE ~InDevice(slot) /\ outQueue' = Append(outQueue, [slot |-> slot, frame |-> f])
           /\ cpc' # "failed"
  <2>1. slot \notin DeviceSlots
    BY <1>3 DEF DeviceSlots
  <2> QED
    BY <1>1, <1>3, <2>1, QueueDevice
<1>4. CASE outQueue' = outQueue /\ cpc' = "failed" /\ slot' = slot /\ held' = held
  BY <1>1, <1>4, SameDevice DEF PipelineInv
<1> QED
  BY <1>2, <1>3, <1>4

LEMMA DeviceStep == PipelineInv /\ [Next]_vars => SlotsDistinct'
<1> SUFFICES ASSUME PipelineInv, [Next]_vars PROVE SlotsDistinct'
  OBVIOUS
<1>0. SlotsDistinct
  BY DEF PipelineInv
<1>1. CASE Capture \/ StopCapture
  BY <1>0, <1>1, SameDevice DEF Capture, StopCapture, deviceVars
<1>2. CASE Encode
  BY <1>2, EncodeDevice
<1>3. CASE PrimeQueue \/ QueueFrame \/ SendEos
  BY <1>3, QueueSlot
<1>4. CASE Dequeue
  BY <1>0, <1>4, DequeueDevice, SameDevice DEF Dequeue
<1>5. CASE ThreadInitialize \/ CreateEncoder \/ RawInitialize \/ ThreadLoop \/ LoopTest
           \/ WaitForDQThread
           \/ UseDeleted \/ UNCHANGED vars
  BY <1>0, <1>5, SameDevice DEF ThreadInitialize, CreateEncoder, RawInitialize, ThreadLoop,
     LoopTest,
     WaitForDQThread, UseDeleted, vars, deviceVars
<1>6. CASE RawAcquire \/ PrimeAcquire \/ AcquireNext \/ RawRelease \/ Release
  BY <1>0, <1>6, SameDevice DEF RawAcquire, PrimeAcquire, AcquireNext, Acquire, RawRelease, Release,
     deviceVars
<1>7. CASE Dq \/ MainStep
  <2>1. \/ UNCHANGED <<outQueue, outDone>>
        \/ outQueue' = << >> /\ outDone' = << >>
    BY <1>7, Zenon DEF Dq, DqBuffer, Deliver, Requeue, AbortOutput, AbortCapture, SetGotError,
       MainStep, StartConsumer, WaitRunning, StartCapture, RequestShutdown, Join,
       CleanupUDP, SkipEncoder, DeinitOutput, DeinitCapture, DeleteEncoder, ErrorJoin, OutputOff,
       CaptureOff,
       deviceVars
  <2> QED
    BY <1>0, <2>1, SameDevice, NothingInDevice
<1> QED
  BY <1>1, <1>2, <1>3, <1>4, <1>5, <1>6, <1>7, Zenon DEF Next, Consumer

LEMMA SlotStep == PipelineInv /\ [Next]_vars => SlotInv'
<1> SUFFICES ASSUME PipelineInv, [Next]_vars PROVE SlotInv'
  OBVIOUS
<1>0. /\ SlotInv /\ slot \in Slots /\ DeviceSlots \subseteq Slots /\ Slots = 1..EncoderFrames
      /\ EncoderFrames \in Nat \ {0} /\ shared \in [Slots -> Buffers \cup {NoBuffer}]
  BY PipelineAssumption DEF PipelineInv, DataTypes, DeviceSlots, Slots
<1>1. ASSUME DeviceSlots' \in {DeviceSlots, {}}, UNCHANGED consumerVars,
             gotError' = gotError \/ gotError'
      PROVE  SlotInv'
  BY <1>0, <1>1 DEF SlotInv, consumerVars
<1>2. CASE Capture \/ StopCapture \/ Encode
  <2>1. DeviceSlots' = DeviceSlots
    BY <1>2, SameDevice, EncodeDevice DEF Capture, StopCapture, deviceVars
  <2> QED
    BY <1>1, <1>2, <2>1 DEF Capture, StopCapture, Encode, mainVars
<1>3. CASE Dq \/ (MainStep /\ ~StartConsumer)
  <2>1. \/ UNCHANGED <<outQueue, outDone>>
        \/ outQueue' = << >> /\ outDone' = << >>
    BY <1>3, Zenon DEF Dq, DqBuffer, Deliver, Requeue, AbortOutput, AbortCapture, SetGotError,
       MainStep, WaitRunning, StartCapture, RequestShutdown, Join,
       CleanupUDP, SkipEncoder, DeinitOutput, DeinitCapture, DeleteEncoder, ErrorJoin, OutputOff,
       CaptureOff,
       deviceVars
  <2>2. DeviceSlots' \in {DeviceSlots, {}}
    BY <2>1, SameDevice, NothingInDevice
  <2>3. UNCHANGED consumerVars /\ (gotError' = gotError \/ gotError')
    BY <1>3, Zenon DEF Dq, DqBuffer, Deliver, Requeue, AbortOutput, AbortCapture, SetGotError,
       MainStep, WaitRunning, StartCapture, RequestShutdown, Join,
       CleanupUDP, SkipEncoder, DeinitOutput, DeinitCapture, DeleteEncoder, ErrorJoin, mainVars
  <2> QED
    BY <1>1, <2>2, <2>3
<1>4. CASE UNCHANGED vars
  BY <1>1, <1>4, SameDevice DEF vars, deviceVars, mainVars
<1>5. CASE StartConsumer
  <2>1. /\ cpc = "off" /\ cpc' = "init" /\ UNCHANGED <<shared, slot>>
        /\ DeviceSlots' = DeviceSlots
    BY <1>5, SameDevice DEF StartConsumer, Goto, deviceVars, PipelineInv, ControlInv
  <2> QED
    BY <1>0, <2>1 DEF SlotInv, Finished
<1>6. CASE ThreadInitialize \/ CreateEncoder \/ RawInitialize \/ LoopTest \/ WaitForDQThread
           \/ UseDeleted
  <2>1. DeviceSlots' = DeviceSlots /\ UNCHANGED <<shared, slot>>
    BY <1>6, SameDevice DEF ThreadInitialize, CreateEncoder, RawInitialize, LoopTest,
       WaitForDQThread, UseDeleted,
       deviceVars
  <2>2. \/ cpc \in {"init", "configure"} /\ cpc' \in {"configure", "running", "failed"}
        \/ cpc = "loop" /\ cpc' = "dequeue"
        \/ cpc = "loop" /\ cpc' = "eos" /\ gotError'
        \/ cpc = "waitdq" /\ cpc' = "done"
    BY <1>6 DEF ThreadInitialize, CreateEncoder, RawInitialize, LoopTest, WaitForDQThread,
       UseDeleted, Goto,
       mainVars
  <2> QED
    BY <1>0, <2>1, <2>2 DEF SlotInv, Finished
<1>7. CASE ThreadLoop
  <2>1. /\ cpc = "running" /\ cpc' \in {"done", "rawacquire", "primeacquire"}
        /\ DeviceSlots' = DeviceSlots /\ UNCHANGED shared
    BY <1>7, SameDevice DEF ThreadLoop, Goto, deviceVars
  <2> QED
    BY <1>0, <2>1 DEF SlotInv, Finished
<1>8. CASE RawAcquire \/ RawRelease
  <2>1. DeviceSlots' = DeviceSlots /\ cpc' \in {"rawacquire", "rawrelease", "running"}
    BY <1>8, SameDevice DEF RawAcquire, Acquire, RawRelease, Goto, deviceVars
  <2>2. DeviceSlots' = {}
    <3>1. raw /\ dpc = "off"
      BY <1>8 DEF RawAcquire, Acquire, RawRelease, PipelineInv, ControlInv
    <3>2. outQueue = << >> /\ outDone = << >> /\ UNCHANGED <<outQueue, outDone>>
      BY <1>8, <3>1 DEF RawAcquire, Acquire, RawRelease, PipelineInv, CountInv, deviceVars
    <3> QED
      BY <3>2, NothingInDevice
  <2> QED
    BY <2>1, <2>2 DEF SlotInv
<1>9. CASE PrimeAcquire \/ AcquireNext \/ Release
  <2>1. DeviceSlots' = DeviceSlots /\ UNCHANGED <<shared, slot>>
    BY <1>9, SameDevice DEF PrimeAcquire, AcquireNext, Acquire, Release, deviceVars
  <2>2. \/ cpc = "primeacquire" /\ cpc' \in {"primequeue", "failed"}
        \/ cpc = "acquire" /\ cpc' \in {"queue", "eos"}
        \/ cpc = "release" /\ cpc' = "acquire"
    BY <1>9 DEF PrimeAcquire, AcquireNext, Acquire, Release, Goto
  <2> QED
    BY <1>0, <2>1, <2>2 DEF SlotInv, Finished
<1>10. CASE Dequeue
  <2>1. CASE cpc' = "release"
    <3>1. DeviceSlots' = DeviceSlots \ {slot'} /\ UNCHANGED shared /\ cpc = "dequeue"
      BY <1>10, <2>1, DequeueDevice DEF Dequeue, Goto
    <3> QED
      BY <1>0, <2>1, <3>1 DEF SlotInv, Finished
  <2>2. CASE cpc' = "failed"
    BY <2>2 DEF SlotInv, Finished
  <2> QED
    BY <1>10, <2>1, <2>2 DEF Dequeue, Goto
<1>11. CASE PrimeQueue \/ QueueFrame
  <2>1. CASE cpc' = "failed"
    BY <2>1 DEF SlotInv, Finished
  <2>2. CASE cpc' # "failed"
    <3>1. slot \notin DeviceSlots /\ DeviceSlots' = DeviceSlots \cup {slot}
      BY <1>11, <2>2, QueueSlot
    <3>2. held # NoBuffer /\ cpc \in {"primequeue", "queue"}
      BY <1>11 DEF PrimeQueue, QueueFrame, PipelineInv, HandInv
    <3>3. shared' = [shared EXCEPT ![slot] = held]
      BY <1>11 DEF PrimeQueue, QueueFrame, QueueOutput, QueueFails
    <3>4. \/ cpc = "primequeue" /\ cpc' = "primeacquire" /\ slot' = slot + 1
          \/ cpc' = "loop"
      BY <1>11, <2>2 DEF PrimeQueue, QueueFrame, Goto
    <3> QED
      BY <1>0, <3>1, <3>2, <3>3, <3>4 DEF SlotInv, Finished
  <2> QED
    BY <2>1, <2>2
<1>12. CASE SendEos
  BY <1>12 DEF SendEos, Goto, SlotInv, Finished
<1> QED
  BY <1>2, <1>3, <1>4, <1>5, <1>6, <1>7, <1>8, <1>9, <1>10, <1>11, <1>12, Zenon
  DEF Next, Consumer

-----------------------------------------------------------------------------
LEMMA InitPipeline == Init => PipelineInv
<1> SUFFICES ASSUME Init PROVE PipelineInv
  OBVIOUS
<1>1. FlagTypes
  BY Zenon DEF Init, FlagTypes
<1>2. DataTypes
  <2>1. \A S : << >> \in Seq(S)
    BY EmptySeq
  <2>2. shared \in [Slots -> Buffers \cup {NoBuffer}]
    BY DEF Init
  <2>3. 1 \in Slots /\ 0 \in 0..MaxFrames /\ 0 \in 0..CaptureSlots
    BY PipelineAssumption DEF Slots
  <2> QED
    BY <2>1, <2>2, <2>3 DEF Init, DataTypes, MainLabels, ConsumerLabels, DqLabels, EOS
<1>3. outQueue = << >> /\ outDone = << >>
  BY DEF Init
<1>4. Len(outQueue) = 0 /\ Len(outDone) = 0 /\ Len(captured) = 0 /\ Len(capDone) = 0
  BY EmptyRun DEF Init
<1>5. SlotsDistinct /\ DeviceSlots = {}
  BY <1>4 DEF SlotsDistinct, DeviceSlots, InDevice
<1>6. ControlInv /\ StreamInv /\ HandInv
  BY DEF Init, ControlInv, StreamInv, HandInv, BeforeCamera, ErrorPath, Destroying, Finished
<1>7. CaptureInv /\ CountInv
  BY <1>4, PipelineAssumption DEF Init, CaptureInv, CountInv, Taken
<1>8. SlotInv
  BY <1>5 DEF Init, SlotInv
<1> QED
  BY <1>1, <1>2, <1>5, <1>6, <1>7, <1>8 DEF PipelineInv

LEMMA StepPipeline == PipelineInv /\ [Next]_vars => PipelineInv'
<1> SUFFICES ASSUME PipelineInv, [Next]_vars PROVE PipelineInv'
  OBVIOUS
<1>1. FlagTypes
  BY DEF PipelineInv
<1> QED
  BY <1>1, FlagStep, DataStep, ControlStep, StreamStep, CaptureStep, CountStep, HandStep,
     DeviceStep, SlotStep, Zenon DEF PipelineInv

(* The variables keep their types.  That needs the control of the three threads:     *)
(* the consumer gives only real buffers back, also when it takes them from the         *)
(* encoder, and no capture buffer is queued twice.                                    *)
THEOREM TypeCorrect == Spec => []TypeOK
<1>1. Init => PipelineInv
  BY InitPipeline
<1>2. PipelineInv /\ [Next]_vars => PipelineInv'
  BY StepPipeline
<1>3. PipelineInv => TypeOK
  BY Zenon DEF PipelineInv, FlagTypes, DataTypes, TypeOK
<1> QED
  BY <1>1, <1>2, <1>3, PTL DEF Spec

(* A consumer past threadInitialize never uses a deleted encoder, on no path through    *)
(* execute(): the encoder is deleted behind the join, or on an error path, where the    *)
(* consumer has no frame to encode and never gets one.  In threadInitialize it may.     *)
THEOREM EncoderAliveWhileEncoding == Spec => []NoEncodingAfterDelete
<1>1. Init => PipelineInv
  BY InitPipeline
<1>2. PipelineInv /\ [Next]_vars => PipelineInv'
  BY StepPipeline
<1>3. PipelineInv => NoEncodingAfterDelete
  BY DEF PipelineInv, ControlInv, BeforeCamera, ErrorPath, Destroying, Finished,
     NoEncodingAfterDelete, InUse
<1> QED
  BY <1>1, <1>2, <1>3, PTL DEF Spec

-----------------------------------------------------------------------------
(* No buffer is captured twice or shared by two slots in the device, no buffer is in   *)
(* two of the four places, and while the output plane streams none is missing.         *)
SharedInjective ==
  \A s, t \in DeviceSlots : shared[s] = shared[t] /\ shared[s] # NoBuffer => s = t
CapturedInjective == \A i, j \in 1..Len(captured) : captured[i] = captured[j] => i = j
Apart == /\ free \cap (Waiting \cup InHand \cup InEncoder) = {}
         /\ Waiting \cap (InHand \cup InEncoder) = {}
         /\ InHand \cap InEncoder = {}
NoneLost == outOn /\ ~gotError => free \cup Waiting \cup InHand \cup InEncoder = Buffers

BufferInv == SharedInjective /\ CapturedInjective /\ Apart /\ NoneLost
PlaceInv == PipelineInv /\ BufferInv

LEMMA PlaceFacts ==
  ASSUME PipelineInv
  PROVE  /\ free \subseteq Buffers /\ Waiting \subseteq Buffers /\ InHand \subseteq Buffers
         /\ InEncoder \subseteq Buffers /\ NoBuffer \notin Buffers
         /\ InEncoder = {shared[s] : s \in DeviceSlots} \ {NoBuffer}
         /\ DeviceSlots \subseteq Slots /\ slot \in Slots
         /\ shared \in [Slots -> Buffers \cup {NoBuffer}]
<1>1. /\ free \subseteq Buffers /\ captured \in Seq(Buffers) /\ NoBuffer \notin Buffers
      /\ held \in Buffers \cup {NoBuffer} /\ slot \in Slots
      /\ shared \in [Slots -> Buffers \cup {NoBuffer}]
  BY PipelineAssumption DEF PipelineInv, DataTypes
<1>2. Waiting \subseteq Buffers
  BY <1>1, ElementOfSeq DEF Waiting
<1>3. InHand \subseteq Buffers
  BY <1>1 DEF InHand
<1>4. InEncoder = {shared[s] : s \in DeviceSlots} \ {NoBuffer} /\ DeviceSlots \subseteq Slots
  BY DEF InEncoder, DeviceSlots
<1>5. InEncoder \subseteq Buffers
  BY <1>1, <1>4
<1> QED
  BY <1>1, <1>2, <1>3, <1>4, <1>5

LEMMA WaitingCaptured ==
  ASSUME PipelineInv, CapturedInjective, NEW b \in Buffers, b \notin Waiting,
         captured' = Append(captured, b)
  PROVE  Waiting' = Waiting \cup {b} /\ CapturedInjective'
<1>1. captured \in Seq(Buffers)
  BY DEF PipelineInv, DataTypes
<1>2. /\ Len(captured) \in Nat /\ Len(captured') = Len(captured) + 1
      /\ \A i \in 1..Len(captured) : captured'[i] = captured[i]
      /\ captured'[Len(captured) + 1] = b
  BY <1>1, AppendProperties, LenProperties
<1>3. \A i \in 1..Len(captured) : captured[i] # b
  BY DEF Waiting
<1>4. CapturedInjective'
  BY <1>2, <1>3 DEF CapturedInjective
<1>5. ASSUME NEW x \in Waiting' PROVE x \in Waiting \cup {b}
  BY <1>2, <1>5 DEF Waiting
<1>6. ASSUME NEW x \in Waiting \cup {b} PROVE x \in Waiting'
  BY <1>2, <1>6 DEF Waiting
<1> QED
  BY <1>4, <1>5, <1>6

LEMMA WaitingAcquired ==
  ASSUME PipelineInv, CapturedInjective, captured # << >>, captured' = Tail(captured)
  PROVE  /\ Head(captured) \in Waiting /\ Waiting' = Waiting \ {Head(captured)}
         /\ CapturedInjective'
<1>1. captured \in Seq(Buffers)
  BY DEF PipelineInv, DataTypes
<1>2. /\ Len(captured) \in Nat \ {0} /\ Len(captured') = Len(captured) - 1
      /\ \A i \in 1..Len(captured') : captured'[i] = captured[i + 1]
      /\ Head(captured) = captured[1]
  BY <1>1, HeadTailProperties, EmptySeq
<1>3. CapturedInjective'
  BY <1>2 DEF CapturedInjective
<1>4. ASSUME NEW x \in Waiting' PROVE x \in Waiting \ {Head(captured)}
  <2>1. PICK i \in 1..Len(captured') : captured'[i] = x
    BY DEF Waiting
  <2>2. i + 1 \in 1..Len(captured) /\ captured[i + 1] = x /\ i + 1 # 1 /\ 1 \in 1..Len(captured)
    BY <1>2, <2>1
  <2> QED
    BY <1>2, <2>2 DEF Waiting, CapturedInjective
<1>5. ASSUME NEW x \in Waiting \ {Head(captured)} PROVE x \in Waiting'
  <2>1. PICK i \in 1..Len(captured) : captured[i] = x
    BY DEF Waiting
  <2>2. i - 1 \in 1..Len(captured') /\ captured'[i - 1] = x
    BY <1>2, <1>5, <2>1
  <2> QED
    BY <2>2 DEF Waiting
<1>6. Head(captured) \in Waiting
  BY <1>2 DEF Waiting
<1> QED
  BY <1>3, <1>4, <1>5, <1>6

LEMMA EncoderSame ==
  ASSUME UNCHANGED <<shared, DeviceSlots>>
  PROVE  InEncoder' = InEncoder /\ (SharedInjective => SharedInjective')
<1>1. /\ InEncoder = {shared[s] : s \in DeviceSlots} \ {NoBuffer}
      /\ InEncoder' = {shared'[s] : s \in DeviceSlots'} \ {NoBuffer}
  BY DEF InEncoder, DeviceSlots
<1> QED
  BY <1>1 DEF SharedInjective

LEMMA EncoderEmpty ==
  ASSUME DeviceSlots' = {}
  PROVE  InEncoder' = {} /\ SharedInjective'
<1>1. InEncoder' = {shared'[s] : s \in DeviceSlots'} \ {NoBuffer}
  BY DEF InEncoder, DeviceSlots
<1> QED
  BY <1>1 DEF SharedInjective

LEMMA EncoderQueued ==
  ASSUME PipelineInv, SharedInjective, NEW b \in Buffers \cup {NoBuffer}, b \notin InEncoder,
         slot \notin DeviceSlots, shared' = [shared EXCEPT ![slot] = b],
         DeviceSlots' = DeviceSlots \cup {slot}
  PROVE  InEncoder' = InEncoder \cup ({b} \ {NoBuffer}) /\ SharedInjective'
<1>1. /\ InEncoder = {shared[s] : s \in DeviceSlots} \ {NoBuffer}
      /\ InEncoder' = {shared'[s] : s \in DeviceSlots'} \ {NoBuffer}
  BY DEF InEncoder, DeviceSlots
<1>2. shared'[slot] = b /\ \A s \in DeviceSlots : shared'[s] = shared[s]
  BY PlaceFacts
<1>3. \A s \in DeviceSlots : shared[s] # NoBuffer => shared[s] # b
  BY <1>1
<1> QED
  BY <1>1, <1>2, <1>3 DEF SharedInjective

LEMMA EncoderRefused ==
  ASSUME PipelineInv, SharedInjective, NEW b \in Buffers \cup {NoBuffer},
         slot \notin DeviceSlots \/ b = NoBuffer,
         shared' = [shared EXCEPT ![slot] = b], DeviceSlots' = DeviceSlots
  PROVE  /\ InEncoder' \subseteq InEncoder /\ SharedInjective'
         /\ slot \notin DeviceSlots => InEncoder' = InEncoder
<1>1. /\ InEncoder = {shared[s] : s \in DeviceSlots} \ {NoBuffer}
      /\ InEncoder' = {shared'[s] : s \in DeviceSlots'} \ {NoBuffer}
  BY DEF InEncoder, DeviceSlots
<1>2. /\ \A s \in DeviceSlots : s # slot => shared'[s] = shared[s]
      /\ shared'[slot] = b
  BY PlaceFacts
<1>3. SharedInjective'
  BY <1>2 DEF SharedInjective
<1>4. InEncoder' \subseteq InEncoder
  BY <1>1, <1>2
<1>5. slot \notin DeviceSlots => InEncoder' = InEncoder
  BY <1>1, <1>2
<1> QED
  BY <1>3, <1>4, <1>5

LEMMA EncoderDequeued ==
  ASSUME PipelineInv, SharedInjective, NEW s \in DeviceSlots, shared[s] # NoBuffer,
         shared' = shared, DeviceSlots' = DeviceSlots \ {s}
  PROVE  /\ shared[s] \in InEncoder /\ InEncoder' = InEncoder \ {shared[s]}
         /\ SharedInjective'
<1>1. /\ InEncoder = {shared[t] : t \in DeviceSlots} \ {NoBuffer}
      /\ InEncoder' = {shared'[t] : t \in DeviceSlots'} \ {NoBuffer}
  BY DEF InEncoder, DeviceSlots
<1> QED
  BY <1>1 DEF SharedInjective

-----------------------------------------------------------------------------
LEMMA CameraBuffers ==
  PlaceInv /\ (Capture \/ RawAcquire \/ PrimeAcquire \/ AcquireNext \/ RawRelease \/ Release)
    => BufferInv'
<1> SUFFICES ASSUME PlaceInv, Capture \/ RawAcquire \/ PrimeAcquire \/ AcquireNext
                              \/ RawRelease \/ Release
             PROVE  BufferInv'
  OBVIOUS
<1>0. PipelineInv /\ BufferInv
  BY DEF PlaceInv
<1>1. InEncoder' = InEncoder /\ SharedInjective' /\ outOn' = outOn /\ gotError' = gotError
  <2>1. UNCHANGED <<shared, outQueue, outDone, outOn, gotError>>
    BY DEF Capture, RawAcquire, PrimeAcquire, AcquireNext, Acquire, RawRelease, Release,
       deviceVars, consumerVars, mainVars
  <2> QED
    BY <1>0, <2>1, SameDevice, EncoderSame DEF BufferInv
<1>2. CASE Capture
  <2>1. PICK b \in free : captured' = Append(captured, b) /\ free' = free \ {b}
    BY <1>2 DEF Capture
  <2>2. b \in Buffers /\ b \notin Waiting
    BY <1>0, PlaceFacts DEF BufferInv, Apart
  <2>3. Waiting' = Waiting \cup {b} /\ CapturedInjective'
    BY <1>0, <2>1, <2>2, WaitingCaptured DEF BufferInv
  <2>4. InHand' = InHand
    BY <1>2 DEF Capture, consumerVars, InHand
  <2> QED
    BY <1>0, <1>1, <2>1, <2>3, <2>4 DEF BufferInv, Apart, NoneLost
<1>3. CASE RawAcquire \/ PrimeAcquire \/ AcquireNext
  <2>1. free' = free
    BY <1>3 DEF RawAcquire, PrimeAcquire, AcquireNext, Acquire
  <2>2. CASE captured # << >> /\ captured' = Tail(captured) /\ held' = Head(captured)
    <3>1. /\ Head(captured) \in Waiting /\ Waiting' = Waiting \ {Head(captured)}
          /\ CapturedInjective'
      BY <1>0, <2>2, WaitingAcquired DEF BufferInv
    <3>2. InHand' = {Head(captured)}
      BY <1>0, <2>2, <3>1, PlaceFacts DEF InHand
    <3>3. outOn => InHand = {}
      BY <1>0, <1>3 DEF RawAcquire, PrimeAcquire, AcquireNext, Acquire, InHand, PipelineInv,
         HandInv, StreamInv, ControlInv
    <3> QED
      BY <1>0, <1>1, <2>1, <3>1, <3>2, <3>3 DEF BufferInv, Apart, NoneLost
  <2>3. CASE UNCHANGED <<captured, held>>
    <3>1. Waiting' = Waiting /\ InHand' = InHand /\ (CapturedInjective => CapturedInjective')
      BY <2>3 DEF Waiting, InHand, CapturedInjective
    <3> QED
      BY <1>0, <1>1, <2>1, <3>1 DEF BufferInv, Apart, NoneLost
  <2> QED
    BY <1>3, <2>2, <2>3 DEF RawAcquire, PrimeAcquire, AcquireNext, Acquire
<1>4. CASE RawRelease \/ Release
  <2>1. free' = free \cup {held} /\ held' = NoBuffer /\ captured' = captured
    BY <1>4 DEF RawRelease, Release
  <2>2. held # NoBuffer
    BY <1>0, <1>4 DEF RawRelease, Release, PipelineInv, HandInv
  <2>3. InHand = {held} /\ InHand' = {}
    BY <2>1, <2>2 DEF InHand
  <2>4. Waiting' = Waiting /\ (CapturedInjective => CapturedInjective')
    BY <2>1 DEF Waiting, CapturedInjective
  <2> QED
    BY <1>0, <1>1, <2>1, <2>3, <2>4 DEF BufferInv, Apart, NoneLost
<1> QED
  BY <1>2, <1>3, <1>4

LEMMA EncoderBuffers ==
  PlaceInv /\ (PrimeQueue \/ QueueFrame \/ SendEos \/ Dequeue) => BufferInv'
<1> SUFFICES ASSUME PlaceInv, PrimeQueue \/ QueueFrame \/ SendEos \/ Dequeue PROVE BufferInv'
  OBVIOUS
<1>0. PipelineInv /\ BufferInv
  BY DEF PlaceInv
<1>1. UNCHANGED <<free, captured, outOn, gotError>>
  BY DEF PrimeQueue, QueueFrame, SendEos, Dequeue, QueueOutput, QueueFails, cameraVars, deviceVars,
     mainVars
<1>2. Waiting' = Waiting /\ CapturedInjective'
  BY <1>0, <1>1 DEF Waiting, CapturedInjective, BufferInv
<1>3. CASE PrimeQueue \/ QueueFrame
  <2>1. /\ held # NoBuffer /\ held \in Buffers \cup {NoBuffer} /\ slot \notin DeviceSlots
        /\ InHand = {held}
    <3>1. cpc \in {"primequeue", "queue"}
      BY <1>3 DEF PrimeQueue, QueueFrame
    <3>2. held # NoBuffer /\ held \in Buffers \cup {NoBuffer}
      BY <1>0, <3>1 DEF PipelineInv, DataTypes, HandInv
    <3>3. slot \in slot..EncoderFrames
      BY <1>0, PipelineAssumption DEF PipelineInv, DataTypes, Slots
    <3>4. slot \notin DeviceSlots
      BY <1>0, <3>1, <3>3 DEF PipelineInv, SlotInv
    <3> QED
      BY <3>2, <3>4 DEF InHand
  <2>2. shared' = [shared EXCEPT ![slot] = held]
    BY <1>3 DEF PrimeQueue, QueueFrame, QueueOutput, QueueFails
  <2>3. held \notin InEncoder
    BY <1>0, <2>1 DEF BufferInv, Apart
  <2>4. CASE cpc' = "failed"
    <3>1. DeviceSlots' = DeviceSlots /\ held' = held
      BY <1>0, <1>3, <2>4, QueueSlot
    <3>2. InEncoder' = InEncoder /\ SharedInjective' /\ InHand' = InHand
      BY <1>0, <2>1, <2>2, <3>1, EncoderRefused DEF BufferInv, InHand
    <3> QED
      BY <1>0, <1>1, <1>2, <3>2 DEF BufferInv, Apart, NoneLost
  <2>5. CASE cpc' # "failed"
    <3>1. DeviceSlots' = DeviceSlots \cup {slot}
      BY <1>0, <1>3, <2>5, QueueSlot
    <3>2. InEncoder' = InEncoder \cup {held} /\ SharedInjective'
      BY <1>0, <2>1, <2>2, <2>3, <3>1, EncoderQueued DEF BufferInv
    <3>3. InHand' = {}
      BY <1>3, <2>5 DEF PrimeQueue, QueueFrame, InHand, Goto
    <3> QED
      BY <1>0, <1>1, <1>2, <2>1, <3>2, <3>3 DEF BufferInv, Apart, NoneLost
  <2> QED
    BY <2>4, <2>5
<1>4. CASE SendEos
  <2>1. shared' = [shared EXCEPT ![slot] = NoBuffer] /\ held' = held
    BY <1>4 DEF SendEos, QueueOutput, QueueFails
  <2>2. InHand' = InHand
    BY <2>1 DEF InHand
  <2>3. ~gotError => slot \notin DeviceSlots
    BY <1>0, <1>4 DEF SendEos, PipelineInv, SlotInv, StreamInv
  <2>4. NoBuffer \in Buffers \cup {NoBuffer} /\ NoBuffer \notin InEncoder
    BY DEF InEncoder
  <2>5. /\ InEncoder' \subseteq InEncoder /\ SharedInjective'
        /\ slot \notin DeviceSlots => InEncoder' = InEncoder
    BY <1>0, <1>4, <2>1, <2>4, QueueSlot, EncoderQueued, EncoderRefused DEF BufferInv
  <2> QED
    BY <1>0, <1>1, <1>2, <2>2, <2>3, <2>5 DEF BufferInv, Apart, NoneLost
<1>5. CASE Dequeue
  <2>1. held = NoBuffer /\ shared' = shared /\ outQueue' = outQueue
    BY <1>0, <1>5 DEF Dequeue, PipelineInv, HandInv
  <2>2. CASE outDone # << >> /\ outDone' = Tail(outDone) /\ held' = shared[Head(outDone)]
    <3>1. Head(outDone) \in DeviceSlots /\ DeviceSlots' = DeviceSlots \ {Head(outDone)}
      BY <1>0, <2>1, <2>2, DequeueDevice
    <3>2. shared[Head(outDone)] # NoBuffer
      BY <1>0, <1>5, <3>1 DEF Dequeue, PipelineInv, SlotInv, Finished
    <3>3. /\ shared[Head(outDone)] \in InEncoder
          /\ InEncoder' = InEncoder \ {shared[Head(outDone)]} /\ SharedInjective'
      BY <1>0, <2>1, <3>1, <3>2, EncoderDequeued DEF BufferInv
    <3>4. InHand' = {shared[Head(outDone)]} /\ InHand = {}
      BY <2>1, <2>2, <3>2 DEF InHand
    <3> QED
      BY <1>0, <1>1, <1>2, <3>3, <3>4 DEF BufferInv, Apart, NoneLost
  <2>3. CASE UNCHANGED <<outDone, held>>
    <3>1. InEncoder' = InEncoder /\ SharedInjective' /\ InHand' = InHand
      BY <1>0, <2>1, <2>3, SameDevice, EncoderSame DEF BufferInv, InHand
    <3> QED
      BY <1>0, <1>1, <1>2, <3>1 DEF BufferInv, Apart, NoneLost
  <2> QED
    BY <1>5, <2>2, <2>3 DEF Dequeue
<1> QED
  BY <1>3, <1>4, <1>5

LEMMA OtherBuffers ==
  PlaceInv /\ [Next]_vars /\ UNCHANGED <<free, captured, held, shared>> => BufferInv'
<1> SUFFICES ASSUME PlaceInv, [Next]_vars, UNCHANGED <<free, captured, held, shared>>
             PROVE  BufferInv'
  OBVIOUS
<1>0. PipelineInv /\ BufferInv
  BY DEF PlaceInv
<1>1. Waiting' = Waiting /\ InHand' = InHand /\ CapturedInjective'
  BY <1>0 DEF Waiting, InHand, CapturedInjective, BufferInv
<1>2. ASSUME UNCHANGED DeviceSlots, outOn' /\ ~gotError' => outOn /\ ~gotError PROVE BufferInv'
  BY <1>0, <1>1, <1>2, EncoderSame DEF BufferInv, Apart, NoneLost
<1>3. ASSUME outQueue' = << >>, outDone' = << >>, ~outOn' PROVE BufferInv'
  BY <1>0, <1>1, <1>3, NothingInDevice, EncoderEmpty DEF BufferInv, Apart, NoneLost
<1>4. CASE Capture \/ RawAcquire \/ PrimeAcquire \/ AcquireNext \/ RawRelease \/ Release
  BY <1>4, CameraBuffers
<1>5. CASE PrimeQueue \/ QueueFrame \/ SendEos \/ Dequeue
  BY <1>5, EncoderBuffers
<1>6. CASE Encode
  BY <1>0, <1>2, <1>6, EncodeDevice DEF Encode, mainVars
<1>7. CASE ThreadInitialize
  <2>1. free = Buffers
    BY <1>0, <1>7 DEF ThreadInitialize, PipelineInv, ControlInv, CountInv, BeforeCamera
  <2>2. DeviceSlots' = DeviceSlots
    BY <1>7, SameDevice DEF ThreadInitialize
  <2>3. InEncoder' = InEncoder /\ SharedInjective'
    BY <1>0, <2>2, EncoderSame DEF BufferInv
  <2> QED
    BY <1>0, <1>1, <2>1, <2>3, PlaceFacts DEF BufferInv, Apart, NoneLost
<1>8. CASE StopCapture \/ CreateEncoder \/ RawInitialize \/ ThreadLoop \/ LoopTest
           \/ WaitForDQThread
           \/ UseDeleted \/ UNCHANGED vars
  BY <1>2, <1>8, SameDevice DEF StopCapture, CreateEncoder, RawInitialize, ThreadLoop, LoopTest,
     WaitForDQThread, UseDeleted, vars, deviceVars, mainVars
<1>9. CASE Dq \/ MainStep
  <2>1. \/ UNCHANGED <<outQueue, outDone, outOn>> /\ (gotError' = gotError \/ gotError' = TRUE)
        \/ outQueue' = << >> /\ outDone' = << >> /\ outOn' = FALSE
    BY <1>9, Zenon DEF Dq, DqBuffer, Deliver, Requeue, AbortOutput, AbortCapture, SetGotError,
       MainStep, StartConsumer, WaitRunning, StartCapture, RequestShutdown, Join,
       CleanupUDP, SkipEncoder, DeinitOutput, DeinitCapture, DeleteEncoder, ErrorJoin, OutputOff,
       CaptureOff, deviceVars, mainVars
  <2>2. CASE UNCHANGED <<outQueue, outDone, outOn>> /\ (gotError' = gotError \/ gotError' = TRUE)
    BY <1>2, <2>2, SameDevice
  <2>3. CASE outQueue' = << >> /\ outDone' = << >> /\ outOn' = FALSE
    BY <1>3, <2>3
  <2> QED
    BY <2>1, <2>2, <2>3
<1> QED
  BY <1>4, <1>5, <1>6, <1>7, <1>8, <1>9, Zenon DEF Next, Consumer

LEMMA StepPlace == PlaceInv /\ [Next]_vars => PlaceInv'
<1> SUFFICES ASSUME PlaceInv, [Next]_vars PROVE PlaceInv'
  OBVIOUS
<1>1. PipelineInv'
  BY StepPipeline DEF PlaceInv
<1>2. \/ Capture \/ RawAcquire \/ PrimeAcquire \/ AcquireNext \/ RawRelease \/ Release
      \/ PrimeQueue \/ QueueFrame \/ SendEos \/ Dequeue
      \/ UNCHANGED <<free, captured, held, shared>>
  BY Zenon DEF Next, Encode, StopCapture, Consumer, ThreadInitialize, CreateEncoder,
     RawInitialize, ThreadLoop,
     LoopTest, WaitForDQThread, UseDeleted,
     Dq, DqBuffer, Deliver, Requeue, AbortOutput, AbortCapture, SetGotError,
     MainStep, StartConsumer, WaitRunning, StartCapture, RequestShutdown, Join,
     CleanupUDP, SkipEncoder, DeinitOutput, DeinitCapture, DeleteEncoder, ErrorJoin,
     vars, cameraVars, consumerVars
<1>3. BufferInv'
  BY <1>2, CameraBuffers, EncoderBuffers, OtherBuffers
<1> QED
  BY <1>1, <1>3 DEF PlaceInv

(* A sequence without repetitions has as many elements as positions.                    *)
LEMMA InjectiveCardinality ==
  ASSUME NEW S, NEW s \in Seq(S), \A i, j \in 1..Len(s) : s[i] = s[j] => i = j
  PROVE  Cardinality({s[i] : i \in 1..Len(s)}) = Len(s)
<1> DEFINE T == {s[i] : i \in 1..Len(s)}
           f == [i \in 1..Len(s) |-> s[i]]
<1>1. Len(s) \in Nat
  BY LenProperties
<1>2. f \in [1..Len(s) -> T]
  OBVIOUS
<1>3. \A i, j \in 1..Len(s) : f[i] = f[j] => i = j
  OBVIOUS
<1>4. \A x \in T : \E i \in 1..Len(s) : f[i] = x
  OBVIOUS
<1> HIDE DEF f, T
<1>5. f \in Bijection(1..Len(s), T)
  BY <1>2, <1>3, <1>4 DEF Bijection, Injection, IsInjective, Surjection
<1>6. ExistsBijection(1..Len(s), T)
  BY <1>5 DEF ExistsBijection
<1> QED
  BY <1>1, <1>6, FS_CountingElements DEF T

(* Buffers are conserved: each is in at most one place, and in one as long as the         *)
(* output plane streams; the consumer never queues a slot the device still has.           *)
THEOREM EveryBufferInOnePlace == Spec => []BuffersConserved
<1>1. Init => PlaceInv
  <2> SUFFICES ASSUME Init PROVE PlaceInv
    OBVIOUS
  <2>1. PipelineInv
    BY InitPipeline
  <2>2. Len(captured) = 0 /\ Waiting = {} /\ InHand = {}
    BY EmptyRun DEF Init, Waiting, InHand
  <2>3. DeviceSlots = {}
    BY <2>1 DEF Init, PipelineInv, SlotInv
  <2>4. InEncoder = {}
    BY <2>1, <2>3, PlaceFacts
  <2> QED
    BY <2>1, <2>2, <2>3, <2>4 DEF Init, PlaceInv, BufferInv, SharedInjective, CapturedInjective,
       Apart, NoneLost
<1>2. PlaceInv /\ [Next]_vars => PlaceInv'
  BY StepPlace
<1>3. PlaceInv => BuffersConserved
  <2> SUFFICES ASSUME PlaceInv PROVE BuffersConserved
    OBVIOUS
  <2>0. PipelineInv /\ BufferInv
    BY DEF PlaceInv
  <2>1. Cardinality(Waiting) = Len(captured)
    BY <2>0, InjectiveCardinality
    DEF PipelineInv, DataTypes, BufferInv, CapturedInjective, Waiting
  <2>2. \A s, t \in Slots : InDevice(s) /\ InDevice(t) /\ shared[s] = shared[t]
                            /\ shared[s] # NoBuffer => s = t
    BY <2>0 DEF BufferInv, SharedInjective, DeviceSlots
  <2>3. cpc \in {"primequeue", "queue"} \/ (cpc = "eos" /\ ~gotError) => ~InDevice(slot)
    <3>1. slot \in Slots /\ slot \in slot..EncoderFrames
      BY <2>0, PipelineAssumption DEF PipelineInv, DataTypes, Slots
    <3>2. cpc \in {"primequeue", "queue"} \/ (cpc = "eos" /\ ~gotError) => slot \notin DeviceSlots
      BY <2>0, <3>1 DEF PipelineInv, SlotInv
    <3> QED
      BY <3>1, <3>2 DEF DeviceSlots
  <2> QED
    BY <2>0, <2>1, <2>2, <2>3 DEF BufferInv, Apart, NoneLost, BuffersConserved
<1> QED
  BY <1>1, <1>2, <1>3, PTL DEF Spec

-----------------------------------------------------------------------------
(* The frames in the encoder, behind the ones delivered, are consecutive up to the last   *)
(* one the consumer has queued; EOS can only be the last item, when the consumer has       *)
(* queued every frame it acquired but the one in its hands.                               *)
Fetched == Len(output) + (IF dpc = "callback" /\ frame # EOS THEN 1 ELSE 0)
Pending == IF held = NoBuffer \/ cpc = "release" THEN 0 ELSE 1
EosSent == cpc \in {"waitdq", "done"}
AllQueued(n) == EosSent /\ n + Pending = acquired
Live == \/ dpc = "dq"
        \/ dpc \in {"callback", "requeue"} /\ frame # EOS
Working == cpc \notin {"waitdq"} \cup Finished

OutputInv ==
  /\ RunFrom(output, 0)
  /\ dpc = "callback" /\ frame # EOS => frame = Len(output) + 1
EncodedInv == Live =>
  \A i \in 1..Len(capDone) :
     \/ capDone[i] = Fetched + i
     \/ capDone[i] = EOS /\ i = Len(capDone) /\ AllQueued(Fetched + i - 1)
QueuedInv == Live /\ outOn /\ capOn =>
  /\ \A i \in 1..Len(outQueue) :
     \/ outQueue[i].frame = Fetched + Len(capDone) + i
     \/ /\ outQueue[i].frame = EOS /\ i = Len(outQueue)
        /\ AllQueued(Fetched + Len(capDone) + i - 1)
  /\ outQueue # << >> => \A i \in 1..Len(capDone) : capDone[i] # EOS
  /\ Working => Fetched + Len(capDone) + Len(outQueue) + Pending = acquired
EndInv ==
  /\ dpc \in {"callback", "requeue"} /\ frame = EOS => AllQueued(Len(output))
  /\ dpc = "exit" /\ ~gotError => AllQueued(Len(output))

(* The DQ thread has ended when the consumer has, unless waitForDQThread gave up or the    *)
(* consumer never encoded.  Nothing is in the encoder before the camera runs.              *)
GiveUpInv == cpc = "done" /\ ~raw => gaveUp \/ dpc = "exit" \/ mpc \in {"errorjoin", "done"}
IdleInv == mpc \in BeforeCamera \cup ErrorPath => outQueue = << >> /\ capDone = << >>

FlowInv == OutputInv /\ EncodedInv /\ QueuedInv /\ EndInv
EncoderInv == PipelineInv /\ FlowInv /\ GiveUpInv /\ IdleInv

LEMMA FlowFacts ==
  ASSUME PipelineInv
  PROVE  /\ output \in Seq(1..MaxFrames) /\ Len(output) \in Nat
         /\ capDone \in Seq(0..MaxFrames) /\ Len(capDone) \in Nat
         /\ (capDone # << >> => Len(capDone) \in Nat \ {0})
         /\ outQueue \in Seq([slot : Slots, frame : 0..MaxFrames]) /\ Len(outQueue) \in Nat
         /\ (outQueue # << >> => Len(outQueue) \in Nat \ {0})
         /\ acquired \in Nat /\ frame \in Nat /\ Pending \in {0, 1} /\ Fetched \in Nat /\ EOS = 0
<1>1. /\ output \in Seq(1..MaxFrames) /\ capDone \in Seq(0..MaxFrames)
      /\ outQueue \in Seq([slot : Slots, frame : 0..MaxFrames])
      /\ acquired \in Nat /\ frame \in Nat
  BY PipelineAssumption DEF PipelineInv, DataTypes
<1>2. Len(output) \in Nat /\ Len(capDone) \in Nat /\ Len(outQueue) \in Nat
  BY <1>1, LenProperties
<1>3. /\ capDone # << >> => Len(capDone) \in Nat \ {0}
      /\ outQueue # << >> => Len(outQueue) \in Nat \ {0}
  BY <1>1, EmptySeq
<1> QED
  BY <1>1, <1>2, <1>3 DEF Pending, Fetched, EOS

(* A step that leaves the encoder alone, and only moves the consumer.                       *)
LEMMA ConsumerMoves ==
  ASSUME PipelineInv, FlowInv, UNCHANGED <<output, dpc, frame, capDone, outQueue, gotError>>,
         outOn' /\ capOn' => outOn /\ capOn,
         EosSent => EosSent' /\ Pending' = Pending /\ acquired' = acquired,
         Working' => Working /\ Pending' \in Int /\ acquired' \in Int
                     /\ acquired' - Pending' = acquired - Pending
  PROVE  FlowInv'
<1>1. Fetched' = Fetched /\ Live' = Live
  BY DEF Fetched, Live
<1>2. OutputInv'
  BY DEF FlowInv, OutputInv, RunFrom
<1>3. EncodedInv'
  BY <1>1 DEF FlowInv, EncodedInv, AllQueued
<1>4. QueuedInv'
  <2>1. ASSUME Live, outOn, capOn, Working'
        PROVE  Fetched' + Len(capDone') + Len(outQueue') + Pending' = acquired'
    <3>1. /\ Fetched + Len(capDone) + Len(outQueue) + Pending = acquired
          /\ acquired' - Pending' = acquired - Pending
          /\ Pending' \in Int /\ acquired' \in Int
      BY <2>1 DEF FlowInv, QueuedInv
    <3> QED
      BY <1>1, <3>1, FlowFacts, SMTT(40)
  <2> QED
    BY <1>1, <2>1 DEF FlowInv, QueuedInv, AllQueued
<1>5. EndInv'
  BY DEF FlowInv, EndInv, AllQueued
<1> QED
  BY <1>2, <1>3, <1>4, <1>5 DEF FlowInv

LEMMA NoEncoder ==
  ASSUME dpc' = "off", output' = << >>
  PROVE  FlowInv'
BY EmptyRun DEF FlowInv, OutputInv, EncodedInv, QueuedInv, EndInv, Live

LEMMA ConsumerFlow ==
  EncoderInv /\ Consumer /\ outQueue' = outQueue /\ ~ThreadInitialize => FlowInv'
<1> SUFFICES ASSUME EncoderInv, Consumer, outQueue' = outQueue, ~ThreadInitialize PROVE FlowInv'
  OBVIOUS
<1>0. PipelineInv /\ FlowInv
  BY DEF EncoderInv
<1>1. UNCHANGED <<output, dpc, frame, capDone, gotError, outOn, capOn>>
  BY Zenon DEF Consumer, CreateEncoder, RawInitialize, ThreadLoop, RawAcquire, RawRelease,
     PrimeAcquire,
     PrimeQueue, LoopTest, Dequeue, Release, AcquireNext, QueueFrame, SendEos, WaitForDQThread,
     UseDeleted, Acquire, QueueOutput, QueueFails, deviceVars, dqVars, mainVars
<1>2. CASE dpc = "off"
  <2>1. output = << >>
    BY <1>0, <1>2 DEF PipelineInv, CountInv
  <2> QED
    BY <1>1, <1>2, <2>1, NoEncoder
<1>3. CASE dpc # "off"
  <2>0. ~raw /\ acquired \in Int /\ cpc \notin {"init", "configure"}
    BY <1>0, <1>3, FlowFacts DEF PipelineInv, ControlInv, StreamInv
  <2>1. CASE PrimeAcquire \/ AcquireNext
    <3>1. held = NoBuffer /\ cpc \in {"primeacquire", "acquire"}
      BY <1>0, <2>1 DEF PrimeAcquire, AcquireNext, Acquire, PipelineInv, HandInv
    <3>2. captured # << >> => Head(captured) # NoBuffer
      <4>1. captured \in Seq(Buffers) /\ NoBuffer \notin Buffers
        BY <1>0, PipelineAssumption DEF PipelineInv, DataTypes
      <4> QED
        BY <4>1, HeadTailProperties
    <3>3. cpc' \in {"primequeue", "queue", "eos", "failed"}
      BY <2>1 DEF PrimeAcquire, AcquireNext, Acquire, Goto
    <3>4. \/ held' # NoBuffer /\ acquired' = acquired + 1
          \/ held' = NoBuffer /\ acquired' = acquired
      BY <2>1, <3>1, <3>2 DEF PrimeAcquire, AcquireNext, Acquire
    <3>5. Pending = 0 /\ Pending' = (IF held' = NoBuffer THEN 0 ELSE 1)
      BY <3>1, <3>3 DEF Pending
    <3>6. Working /\ ~EosSent
      BY <3>1 DEF Working, EosSent, Finished
    <3>7. Pending' \in Int /\ acquired' \in Int /\ acquired' - Pending' = acquired - Pending
      BY <2>0, <3>4, <3>5
    <3> QED
      BY <1>0, <1>1, <3>6, <3>7, ConsumerMoves
  <2>2. CASE Release \/ Dequeue \/ LoopTest \/ ThreadLoop
    <3>1. Working /\ ~EosSent /\ acquired' = acquired
      BY <2>2 DEF Release, Dequeue, LoopTest, ThreadLoop, Working, EosSent, Finished
    <3>2. Pending' = Pending \/ ~Working'
      BY <1>0, <2>0, <2>2 DEF Release, Dequeue, LoopTest, ThreadLoop, Goto, Pending,
         PipelineInv, HandInv, Working, Finished
    <3>3. Pending \in Int
      BY <1>0, FlowFacts
    <3> QED
      BY <1>0, <1>1, <2>0, <3>1, <3>2, <3>3, ConsumerMoves
  <2>3. CASE WaitForDQThread
    <3>1. EosSent' /\ Pending' = Pending /\ acquired' = acquired /\ ~Working'
      BY <2>3 DEF WaitForDQThread, Goto, EosSent, Pending, Working, Finished
    <3> QED
      BY <1>0, <1>1, <3>1, ConsumerMoves
  <2>4. CASE PrimeQueue \/ QueueFrame \/ SendEos
    <3>1. ~EosSent
      BY <2>4 DEF PrimeQueue, QueueFrame, SendEos, EosSent
    <3>2. cpc' = "failed"
      <4>1. PICK f \in 0..MaxFrames :
              \/ outQueue' = Append(outQueue, [slot |-> slot, frame |-> f]) /\ cpc' # "failed"
              \/ outQueue' = outQueue /\ cpc' = "failed"
        BY <1>0, <2>4, QueueCalls, Zenon
      <4>2. Append(outQueue, [slot |-> slot, frame |-> f]) # outQueue
        <5>1. slot \in Slots
          BY <1>0 DEF PipelineInv, DataTypes
        <5>2. PICK item : item = [slot |-> slot, frame |-> f]
          OBVIOUS
        <5>3. Len(Append(outQueue, item)) = Len(outQueue) + 1
          BY <1>0, <5>1, <5>2, FlowFacts, QueueAppended
        <5>4. Len(Append(outQueue, item)) # Len(outQueue)
          BY <1>0, <5>3, FlowFacts
        <5> QED
          BY <5>2, <5>4, Zenon
      <4> QED
        BY <4>1, <4>2
    <3>3. ~Working'
      BY <3>2 DEF Working, Finished
    <3> QED
      BY <1>0, <1>1, <3>1, <3>3, ConsumerMoves
  <2>5. ~CreateEncoder /\ ~RawInitialize /\ ~RawAcquire /\ ~RawRelease /\ ~UseDeleted
    BY <1>0, <2>0 DEF CreateEncoder, RawInitialize, RawAcquire, Acquire, RawRelease, UseDeleted,
       PipelineInv,
       ControlInv
  <2> QED
    BY <2>1, <2>2, <2>3, <2>4, <2>5, Zenon DEF Consumer
<1> QED
  BY <1>2, <1>3

(* The consumer queues the next frame, or EOS behind the last one.                           *)
LEMMA QueueFlow ==
  EncoderInv /\ (PrimeQueue \/ QueueFrame \/ SendEos) /\ outQueue' # outQueue => FlowInv'
<1> SUFFICES ASSUME EncoderInv, PrimeQueue \/ QueueFrame \/ SendEos, outQueue' # outQueue
             PROVE  FlowInv'
  OBVIOUS
<1>0. PipelineInv /\ FlowInv
  BY DEF EncoderInv
<1>1. /\ UNCHANGED <<capDone, outOn, capOn, acquired, gotError>>
      /\ UNCHANGED <<dpc, frame, output>>
  BY <1>0, QueueCalls DEF dqVars, mainVars
<1>2. PICK f \in 0..MaxFrames :
        /\ f = IF cpc = "eos" THEN EOS ELSE acquired
        /\ outQueue' = Append(outQueue, [slot |-> slot, frame |-> f]) /\ cpc' # "failed"
  BY <1>0, QueueCalls, Zenon
<1>3. /\ Len(outQueue) \in Nat /\ Len(outQueue') = Len(outQueue) + 1
      /\ \A i \in 1..Len(outQueue) : outQueue'[i] = outQueue[i]
      /\ outQueue'[Len(outQueue) + 1].frame = f
  <2>1. PICK item : item = [slot |-> slot, frame |-> f]
    OBVIOUS
  <2>2. slot \in Slots /\ outQueue \in Seq([slot : Slots, frame : 0..MaxFrames])
    BY <1>0 DEF PipelineInv, DataTypes
  <2> QED
    BY <1>2, <2>1, <2>2, QueueAppended
<1>4. Fetched' = Fetched /\ Live' = Live /\ Working /\ ~EosSent
  BY <1>1 DEF Fetched, Live, PrimeQueue, QueueFrame, SendEos, Working, EosSent, Finished
<1>5. CASE cpc = "eos"
  <2>1. cpc' = "waitdq" /\ held' = held
    BY <1>2, <1>5 DEF PrimeQueue, QueueFrame, SendEos, Goto
  <2>2. Pending' = Pending /\ EosSent' /\ ~Working'
    BY <1>5, <2>1 DEF Pending, EosSent, Working
  <2>3. QueuedInv'
    <3>1. ASSUME Live, outOn, capOn
          PROVE  /\ Fetched + Len(capDone) + Len(outQueue) + Pending = acquired
                 /\ \A i \in 1..Len(outQueue) : outQueue[i].frame = Fetched + Len(capDone) + i
                 /\ \A i \in 1..Len(capDone) : capDone[i] # EOS
      <4>1. QueuedInv /\ EncodedInv
        BY <1>0 DEF FlowInv
      <4>2. \A i \in 1..Len(capDone) : capDone[i] # EOS
        BY <1>0, <1>4, <3>1, <4>1, FlowFacts DEF EncodedInv, AllQueued
      <4>3. Fetched + Len(capDone) + Len(outQueue) + Pending = acquired
        BY <1>4, <3>1, <4>1, Zenon DEF QueuedInv
      <4>4. \A i \in 1..Len(outQueue) : outQueue[i].frame = Fetched + Len(capDone) + i
        BY <1>4, <3>1, <4>1, Zenon DEF QueuedInv, AllQueued
      <4> QED
        BY <4>2, <4>3, <4>4, Zenon
    <3>2. ASSUME Live, outOn, capOn
          PROVE  Fetched + Len(capDone) + (Len(outQueue) + 1) - 1 + Pending = acquired
      BY <1>0, <3>1, <3>2, FlowFacts
    <3> QED
      BY <1>1, <1>2, <1>3, <1>4, <1>5, <2>2, <3>1, <3>2 DEF QueuedInv, AllQueued
  <2>4. EncodedInv'
    BY <1>0, <1>1, <1>4 DEF FlowInv, EncodedInv, AllQueued
  <2> QED
    BY <1>0, <1>1, <1>4, <2>3, <2>4 DEF FlowInv, OutputInv, RunFrom, EndInv, AllQueued
<1>6. CASE cpc # "eos"
  <2>1. held' = NoBuffer /\ held # NoBuffer /\ cpc # "release" /\ cpc' \in {"primeacquire", "loop"}
    BY <1>0, <1>2, <1>6 DEF PrimeQueue, QueueFrame, SendEos, Goto, PipelineInv, HandInv
  <2>2. Pending = 1 /\ Pending' = 0 /\ ~EosSent'
    BY <2>1 DEF Pending, EosSent
  <2>3. QueuedInv'
    <3>1. ASSUME Live, outOn, capOn
          PROVE  /\ Fetched + Len(capDone) + Len(outQueue) + 1 = acquired
                 /\ \A i \in 1..Len(outQueue) : outQueue[i].frame = Fetched + Len(capDone) + i
                 /\ \A i \in 1..Len(capDone) : capDone[i] # EOS
      BY <1>0, <1>4, <2>2, <3>1, FlowFacts, SMTT(40) DEF FlowInv, QueuedInv, EncodedInv, AllQueued
    <3>2. ASSUME Live, outOn, capOn
          PROVE  /\ Fetched + Len(capDone) + (Len(outQueue) + 1) = acquired
                 /\ Fetched + Len(capDone) + (Len(outQueue) + 1) + 0 = acquired
      BY <1>0, <3>1, <3>2, FlowFacts
    <3> QED
      BY <1>1, <1>2, <1>3, <1>4, <1>6, <2>2, <3>1, <3>2 DEF QueuedInv
  <2>4. EncodedInv'
    BY <1>0, <1>1, <1>4 DEF FlowInv, EncodedInv, AllQueued
  <2> QED
    BY <1>0, <1>1, <1>4, <2>3, <2>4 DEF FlowInv, OutputInv, RunFrom, EndInv, AllQueued
<1> QED
  BY <1>5, <1>6

(* What the DQ thread, the device and the destructor never change.                            *)
LEMMA ConsumerRests ==
  ASSUME UNCHANGED <<consumerVars, output>>
  PROVE  /\ Pending' = Pending /\ EosSent' = EosSent /\ Working' = Working /\ acquired' = acquired
         /\ \A n : AllQueued(n)' <=> AllQueued(n)
         /\ RunFrom(output, 0) => RunFrom(output', 0)
BY DEF consumerVars, Pending, EosSent, Working, AllQueued

LEMMA EncodeFlow == EncoderInv /\ Encode => FlowInv'
<1> SUFFICES ASSUME EncoderInv, Encode PROVE FlowInv'
  OBVIOUS
<1>0. PipelineInv /\ FlowInv
  BY DEF EncoderInv
<1>1. /\ outOn /\ outOn' = outOn /\ capOn /\ capOn' = capOn
      /\ outQueue # << >> /\ outQueue' = Tail(outQueue)
      /\ capDone' = Append(capDone, Head(outQueue).frame)
      /\ UNCHANGED <<consumerVars, output, dpc, frame, gotError>>
  BY DEF Encode, dqVars, mainVars
<1>2. /\ Len(outQueue) \in Nat \ {0} /\ Len(outQueue') = Len(outQueue) - 1
      /\ \A i \in 1..Len(outQueue') : outQueue'[i] = outQueue[i + 1]
      /\ Head(outQueue).frame = outQueue[1].frame /\ Head(outQueue).frame \in 0..MaxFrames
  BY <1>0, <1>1, FlowFacts, QueueTyped
<1>3. /\ Len(capDone) \in Nat /\ Len(capDone') = Len(capDone) + 1
      /\ \A i \in 1..Len(capDone) : capDone'[i] = capDone[i]
      /\ capDone'[Len(capDone) + 1] = outQueue[1].frame
  BY <1>0, <1>1, <1>2, FlowFacts, AppendProperties
<1>4. Fetched' = Fetched /\ Live' = Live
  BY <1>1 DEF Fetched, Live
<1>5. /\ Pending' = Pending /\ EosSent' = EosSent /\ Working' = Working /\ acquired' = acquired
      /\ RunFrom(output', 0)
  BY <1>0, <1>1, ConsumerRests DEF FlowInv, OutputInv
<1>6. ASSUME Live
      PROVE  /\ \A i \in 1..Len(outQueue) :
                  \/ outQueue[i].frame = Fetched + Len(capDone) + i
                  \/ /\ outQueue[i].frame = EOS /\ i = Len(outQueue) /\ EosSent
                     /\ Fetched + Len(capDone) + i - 1 + Pending = acquired
             /\ \A i \in 1..Len(capDone) : capDone[i] = Fetched + i /\ capDone[i] # EOS
             /\ Working => Fetched + Len(capDone) + Len(outQueue) + Pending = acquired
  BY <1>0, <1>1, <1>6 DEF FlowInv, QueuedInv, EncodedInv, AllQueued
<1>7. EncodedInv'
  <2>1. ASSUME Live
        PROVE  \/ capDone'[Len(capDone) + 1] = Fetched + (Len(capDone) + 1)
               \/ /\ capDone'[Len(capDone) + 1] = EOS /\ EosSent
                  /\ Fetched + (Len(capDone) + 1) - 1 + Pending = acquired
    BY <1>0, <1>2, <1>3, <1>6, <2>1, FlowFacts, SMTT(40)
  <2>2. ASSUME Live, NEW i \in 1..Len(capDone')
        PROVE  \/ capDone'[i] = Fetched + i
               \/ /\ capDone'[i] = EOS /\ i = Len(capDone') /\ EosSent
                  /\ Fetched + i - 1 + Pending = acquired
    <3>1. i \in 1..Len(capDone) \/ i = Len(capDone) + 1
      BY <1>3
    <3> QED
      BY <1>3, <1>6, <2>1, <2>2, <3>1
  <2> QED
    BY <1>4, <1>5, <2>2 DEF EncodedInv, AllQueued
<1>8. QueuedInv'
  <2>1. ASSUME Live, NEW i \in 1..Len(outQueue')
        PROVE  \/ outQueue'[i].frame = Fetched + Len(capDone') + i
               \/ /\ outQueue'[i].frame = EOS /\ i = Len(outQueue') /\ EosSent
                  /\ Fetched + Len(capDone') + i - 1 + Pending = acquired
    <3>1. i + 1 \in 1..Len(outQueue) /\ outQueue'[i] = outQueue[i + 1]
      BY <1>2
    <3>2. \/ outQueue[i + 1].frame = Fetched + Len(capDone) + (i + 1)
          \/ /\ outQueue[i + 1].frame = EOS /\ i + 1 = Len(outQueue) /\ EosSent
             /\ Fetched + Len(capDone) + (i + 1) - 1 + Pending = acquired
      BY <1>6, <2>1, <3>1
    <3>3. /\ Fetched \in Nat /\ Pending \in Nat /\ Len(capDone) \in Nat /\ i \in Nat
          /\ Len(outQueue) \in Nat
      BY <1>0, <1>2, FlowFacts
    <3>4. /\ Fetched + Len(capDone) + (i + 1) = Fetched + Len(capDone') + i
          /\ Fetched + Len(capDone) + (i + 1) - 1 + Pending
               = Fetched + Len(capDone') + i - 1 + Pending
          /\ i + 1 = Len(outQueue) => i = Len(outQueue')
      BY <1>2, <1>3, <3>3
    <3> QED
      BY <3>1, <3>2, <3>4
  <2>2. ASSUME Live, outQueue' # << >> PROVE \A i \in 1..Len(capDone') : capDone'[i] # EOS
    <3>1. Len(outQueue') \in Nat \ {0}
      <4>1. outQueue' \in Seq([slot : Slots, frame : 0..MaxFrames])
        BY <1>0, <1>1, FlowFacts, QueueTyped
      <4> QED
        BY <2>2, <4>1, EmptySeq
    <3>2. 1 # Len(outQueue) /\ 1 \in 1..Len(outQueue)
      BY <1>2, <3>1
    <3>3. outQueue[1].frame = Fetched + Len(capDone) + 1 /\ Fetched \in Nat
      BY <1>0, <1>6, <2>2, <3>2, FlowFacts
    <3>4. outQueue[1].frame # EOS
      BY <1>3, <3>3 DEF EOS
    <3> QED
      BY <1>3, <1>6, <2>2, <3>4
  <2>3. ASSUME Live, Working
        PROVE  Fetched + Len(capDone') + Len(outQueue') + Pending = acquired
    BY <1>0, <1>2, <1>3, <1>6, <2>3, FlowFacts
  <2> QED
    BY <1>4, <1>5, <2>1, <2>2, <2>3 DEF QueuedInv, AllQueued
<1> QED
  BY <1>0, <1>1, <1>5, <1>7, <1>8 DEF FlowInv, OutputInv, EndInv, AllQueued

(* The DQ thread takes the oldest encoded frame out.                                          *)
LEMMA DqBufferFlow == EncoderInv /\ DqBuffer => FlowInv'
<1> SUFFICES ASSUME EncoderInv, DqBuffer PROVE FlowInv'
  OBVIOUS
<1>0. PipelineInv /\ FlowInv
  BY DEF EncoderInv
<1>1. /\ capDone # << >> /\ capDone' = Tail(capDone) /\ frame' = Head(capDone)
      /\ dpc = "dq" /\ dpc' = "callback"
      /\ UNCHANGED <<consumerVars, output, outOn, capOn, outQueue, gotError>>
  BY DEF DqBuffer, mainVars
<1>2. /\ Len(capDone) \in Nat \ {0} /\ Len(capDone') = Len(capDone) - 1
      /\ \A i \in 1..Len(capDone') : capDone'[i] = capDone[i + 1]
      /\ frame' = capDone[1]
  BY <1>0, <1>1, FlowFacts, HeadTailProperties
<1>3. /\ Pending' = Pending /\ EosSent' = EosSent /\ Working' = Working /\ acquired' = acquired
      /\ RunFrom(output', 0)
  BY <1>0, <1>1, ConsumerRests DEF FlowInv, OutputInv
<1>4. Live /\ Fetched = Len(output)
  BY <1>0, <1>1, FlowFacts DEF Live, Fetched
<1>5. \A i \in 1..Len(capDone) :
        \/ capDone[i] = Fetched + i
        \/ capDone[i] = EOS /\ i = Len(capDone) /\ EosSent /\ Fetched + i - 1 + Pending = acquired
  BY <1>0, <1>4 DEF FlowInv, EncodedInv, AllQueued
<1>6. 1 \in 1..Len(capDone) /\ Fetched \in Nat /\ Pending \in Nat /\ EOS = 0
  BY <1>0, <1>2, FlowFacts
<1>7. CASE frame' = EOS
  <2>1. EosSent /\ Fetched + Pending = acquired
    <3>1. capDone[1] # Fetched + 1
      BY <1>2, <1>6, <1>7
    <3>2. EosSent /\ Fetched + 1 - 1 + Pending = acquired
      BY <1>5, <1>6, <3>1
    <3> QED
      BY <1>6, <3>2
  <2> QED
    BY <1>1, <1>3, <1>4, <1>7, <2>1
    DEF FlowInv, OutputInv, EncodedInv, QueuedInv, EndInv, Live, AllQueued
<1>8. CASE frame' # EOS
  <2>1. frame' = Fetched + 1 /\ frame' = Len(output') + 1
    BY <1>1, <1>2, <1>4, <1>5, <1>6, <1>8
  <2>2. Fetched' = Fetched + 1
    BY <1>1, <1>4, <1>8 DEF Fetched
  <2>3. EncodedInv'
    <3>1. ASSUME NEW i \in 1..Len(capDone')
          PROVE  \/ capDone'[i] = Fetched' + i
                 \/ /\ capDone'[i] = EOS /\ i = Len(capDone') /\ EosSent'
                    /\ Fetched' + i - 1 + Pending' = acquired'
      <4>1. i + 1 \in 1..Len(capDone) /\ i \in Nat
        BY <1>2
      <4>2. /\ Fetched + (i + 1) = Fetched' + i
            /\ Fetched + (i + 1) - 1 + Pending = Fetched' + i - 1 + Pending
            /\ i + 1 = Len(capDone) => i = Len(capDone')
        BY <1>2, <1>6, <2>2, <4>1
      <4> QED
        BY <1>2, <1>3, <1>5, <4>1, <4>2
    <3> QED
      BY <3>1 DEF EncodedInv, AllQueued
  <2>4. QueuedInv'
    <3>1. Fetched' + Len(capDone') = Fetched + Len(capDone)
      BY <1>2, <1>6, <2>2
    <3>2. ASSUME outOn, capOn, outQueue # << >>, NEW i \in 1..Len(capDone') PROVE capDone'[i] # EOS
      <4>1. i + 1 \in 1..Len(capDone) /\ capDone'[i] = capDone[i + 1]
        BY <1>2
      <4> QED
        BY <1>0, <1>4, <3>2, <4>1 DEF FlowInv, QueuedInv
    <3> QED
      BY <1>0, <1>1, <1>3, <1>4, <3>1, <3>2 DEF FlowInv, QueuedInv, AllQueued
  <2>5. OutputInv' /\ EndInv'
    BY <1>1, <1>3, <1>8, <2>1 DEF OutputInv, EndInv
  <2> QED
    BY <2>3, <2>4, <2>5, SMTT(40) DEF FlowInv
<1> QED
  BY <1>7, <1>8

LEMMA DeliverFlow == EncoderInv /\ Deliver => FlowInv'
<1> SUFFICES ASSUME EncoderInv, Deliver PROVE FlowInv'
  OBVIOUS
<1>0. PipelineInv /\ FlowInv
  BY DEF EncoderInv
<1>1. /\ dpc = "callback" /\ dpc' = "requeue"
      /\ output' = (IF frame = EOS THEN output ELSE Append(output, frame))
      /\ UNCHANGED <<frame, capDone, outQueue, outOn, capOn, gotError>> /\ UNCHANGED consumerVars
  BY DEF Deliver, deviceVars, mainVars
<1>2. /\ Pending' = Pending /\ EosSent' = EosSent /\ Working' = Working /\ acquired' = acquired
  BY <1>1 DEF consumerVars, Pending, EosSent, Working
<1>3. CASE frame = EOS
  BY <1>0, <1>1, <1>2, <1>3
  DEF FlowInv, OutputInv, EncodedInv, QueuedInv, EndInv, Live, AllQueued
<1>4. CASE frame # EOS
  <2>1. output \in Seq(1..MaxFrames) /\ frame \in 1..MaxFrames /\ frame = Len(output) + 1
        /\ RunFrom(output, 0)
    <3>1. frame \in 0..MaxFrames /\ EOS = 0 /\ output \in Seq(1..MaxFrames)
      BY <1>0 DEF PipelineInv, DataTypes, EOS
    <3>2. frame = Len(output) + 1 /\ RunFrom(output, 0)
      BY <1>0, <1>1, <1>4 DEF FlowInv, OutputInv
    <3>3. frame \in 1..MaxFrames
      BY <1>4, <3>1
    <3> QED
      BY <3>1, <3>2, <3>3
  <2>2. RunFrom(output', 0) /\ Len(output') = Len(output) + 1
    <3>1. output' = Append(output, frame) /\ frame = 0 + Len(output) + 1
      BY <1>0, <1>1, <1>4, <2>1, FlowFacts
    <3> QED
      BY <2>1, <3>1, RunPush, ZenonT(40)
  <2>3. Fetched' = Fetched /\ Live /\ Live'
    <3>1. Fetched = Len(output) + 1 /\ Fetched' = Len(output') + 0
      BY <1>1, <1>4 DEF Fetched
    <3>2. Len(output) \in Nat
      BY <1>0, FlowFacts
    <3> QED
      BY <1>1, <1>4, <2>2, <3>1, <3>2 DEF Live
  <2> QED
    BY <1>0, <1>1, <1>2, <1>4, <2>2, <2>3
    DEF FlowInv, OutputInv, EncodedInv, QueuedInv, EndInv, AllQueued
<1> QED
  BY <1>3, <1>4

(* The DQ thread requeues the buffer, or ends, behind EOS or by an abort.                     *)
LEMMA DqEnds ==
  EncoderInv /\ (Requeue \/ AbortOutput \/ AbortCapture \/ SetGotError) => FlowInv'
<1> SUFFICES ASSUME EncoderInv, Requeue \/ AbortOutput \/ AbortCapture \/ SetGotError
             PROVE  FlowInv'
  OBVIOUS
<1>0. PipelineInv /\ FlowInv
  BY DEF EncoderInv
<1>1. UNCHANGED <<consumerVars, output, frame>>
  BY DEF Requeue, AbortOutput, AbortCapture, SetGotError
<1>2. /\ Pending' = Pending /\ EosSent' = EosSent /\ Working' = Working /\ acquired' = acquired
      /\ RunFrom(output', 0) /\ Len(output') = Len(output)
  BY <1>0, <1>1, ConsumerRests DEF FlowInv, OutputInv
<1>3. CASE Requeue
  <2>1. /\ dpc = "requeue" /\ dpc' = (IF frame = EOS THEN "exit" ELSE "dq")
        /\ UNCHANGED <<capDone, outQueue, outOn, capOn>>
    BY <1>3 DEF Requeue
  <2>2. Fetched' = Fetched /\ (Live' => Live)
    BY <1>1, <2>1 DEF Fetched, Live
  <2> QED
    BY <1>0, <1>1, <1>2, <2>1, <2>2
    DEF FlowInv, OutputInv, EncodedInv, QueuedInv, EndInv, AllQueued
<1>4. CASE AbortOutput \/ AbortCapture
  <2>1. dpc' \in {"abort", "aborted"}
    BY <1>4 DEF AbortOutput, AbortCapture
  <2> QED
    BY <1>2, <2>1 DEF FlowInv, OutputInv, EncodedInv, QueuedInv, EndInv, Live
<1>5. CASE SetGotError
  <2>1. dpc' = "exit" /\ gotError'
    BY <1>5 DEF SetGotError
  <2> QED
    BY <1>2, <2>1 DEF FlowInv, OutputInv, EncodedInv, QueuedInv, EndInv, Live
<1> QED
  BY <1>3, <1>4, <1>5

(* Turning a stream off takes nothing out of order: what is left in the encoder stays there.    *)
LEMMA MainFlow == EncoderInv /\ MainStep => FlowInv'
<1> SUFFICES ASSUME EncoderInv, MainStep PROVE FlowInv'
  OBVIOUS
<1>0. PipelineInv /\ FlowInv
  BY DEF EncoderInv
<1>1. /\ UNCHANGED <<output, dpc, frame, gotError, held, acquired>>
      /\ \/ cpc' = cpc
         \/ cpc = "off" /\ cpc' = "init"
  BY <1>0, Zenon DEF MainStep, StartConsumer, WaitRunning, StartCapture, RequestShutdown, Join,
     CleanupUDP, SkipEncoder, DeinitOutput, DeinitCapture, DeleteEncoder, ErrorJoin, Goto,
     PipelineInv,
     ControlInv, mainVars, consumerVars, dqVars
<1>2. Pending' = Pending /\ EosSent' = EosSent /\ Working' = Working
  BY <1>1 DEF Pending, EosSent, Working, Finished
<1>3. Fetched' = Fetched /\ Live' = Live
  BY <1>1 DEF Fetched, Live
<1>4. OutputInv' /\ EndInv'
  BY <1>0, <1>1, <1>2 DEF FlowInv, OutputInv, EndInv, RunFrom, AllQueued
<1>5. CASE DeinitCapture \/ DeleteEncoder
  <2>1. \/ UNCHANGED <<outQueue, outOn, capOn, capDone>>
        \/ capDone' = << >> /\ ~capOn'
    BY <1>5 DEF DeinitCapture, DeleteEncoder, CaptureOff, deviceVars
  <2>2. CASE UNCHANGED <<outQueue, outOn, capOn, capDone>>
    BY <1>0, <1>1, <1>2, <1>3, <1>4, <2>2 DEF FlowInv, EncodedInv, QueuedInv, AllQueued
  <2>3. CASE capDone' = << >> /\ ~capOn'
    <3>1. Len(capDone') = 0
      BY <2>3, EmptyRun
    <3> QED
      BY <1>4, <2>3, <3>1 DEF FlowInv, EncodedInv, QueuedInv
  <2> QED
    BY <2>1, <2>2, <2>3
<1>6. CASE MainStep /\ ~DeinitCapture /\ ~DeleteEncoder
  <2>1. capDone' = capDone /\ capOn' = capOn /\ (outOn' => outQueue' = outQueue /\ outOn)
    BY <1>6 DEF MainStep, StartConsumer, WaitRunning, StartCapture, RequestShutdown, Join,
       CleanupUDP, SkipEncoder, DeinitOutput, ErrorJoin, OutputOff, deviceVars
  <2> QED
    BY <1>0, <1>1, <1>2, <1>3, <1>4, <2>1 DEF FlowInv, EncodedInv, QueuedInv, AllQueued
<1> QED
  BY <1>5, <1>6

LEMMA StepFlow == EncoderInv /\ [Next]_vars => FlowInv'
<1> SUFFICES ASSUME EncoderInv, [Next]_vars PROVE FlowInv'
  OBVIOUS
<1>0. PipelineInv /\ FlowInv
  BY DEF EncoderInv
<1>1. CASE Capture \/ StopCapture \/ UNCHANGED vars
  <2>1. UNCHANGED <<consumerVars, output, dpc, frame, capDone, outQueue, gotError, outOn, capOn>>
    BY <1>1 DEF Capture, StopCapture, vars, deviceVars, dqVars, mainVars
  <2>2. Pending' = Pending /\ EosSent' = EosSent /\ Working' = Working /\ acquired' = acquired
    BY <2>1, ConsumerRests
  <2>3. Pending \in Int /\ acquired \in Int
    BY <1>0, FlowFacts
  <2> QED
    BY <1>0, <2>1, <2>2, <2>3, ConsumerMoves
<1>2. CASE ThreadInitialize
  <2>1. dpc = "off" /\ cpc = "configure" /\ output = << >> /\ capDone = << >> /\ outQueue = << >>
        /\ held = NoBuffer /\ made = 0 /\ acquired + Len(captured) = made
    BY <1>0, <1>2 DEF ThreadInitialize, PipelineInv, ControlInv, StreamInv, CountInv, CaptureInv,
       HandInv, BeforeCamera
  <2>2. /\ UNCHANGED <<output, capDone, outQueue, held, acquired>> /\ dpc' \in {"off", "dq"}
        /\ cpc' \in {"running", "failed"}
    BY <1>2, <2>1 DEF ThreadInitialize, Goto
  <2>3. acquired = 0
    <3>1. Len(captured) \in Nat /\ acquired \in Nat
      BY <1>0, FlowFacts, LenProperties DEF PipelineInv, DataTypes
    <3> QED
      BY <2>1, <3>1
  <2>4. Len(output') = 0 /\ Len(capDone') = 0 /\ Len(outQueue') = 0 /\ Pending' = 0
    BY <2>1, <2>2, EmptyRun DEF Pending
  <2>5. Fetched' = 0
    BY <2>2, <2>4 DEF Fetched
  <2> QED
    BY <2>2, <2>3, <2>4, <2>5 DEF FlowInv, OutputInv, EncodedInv, QueuedInv, EndInv, RunFrom
<1>3. CASE Consumer /\ ~ThreadInitialize /\ outQueue' = outQueue
  BY <1>3, ConsumerFlow
<1>4. CASE Consumer /\ outQueue' # outQueue /\ ~ThreadInitialize
  <2>1. PrimeQueue \/ QueueFrame \/ SendEos
    BY <1>4, Zenon DEF Consumer, CreateEncoder, RawInitialize, ThreadLoop, RawAcquire, RawRelease,
       PrimeAcquire,
       LoopTest, Dequeue, Release, AcquireNext, WaitForDQThread, UseDeleted, Acquire, deviceVars
  <2> QED
    BY <1>4, <2>1, QueueFlow
<1>5. CASE Encode
  BY <1>5, EncodeFlow
<1>6. CASE Dq
  BY <1>6, DqBufferFlow, DeliverFlow, DqEnds DEF Dq
<1>7. CASE MainStep
  BY <1>7, MainFlow
<1> QED
  BY <1>1, <1>2, <1>3, <1>4, <1>5, <1>6, <1>7, Zenon DEF Next

LEMMA StepGiveUp == EncoderInv /\ [Next]_vars => GiveUpInv'
<1> SUFFICES ASSUME EncoderInv, [Next]_vars PROVE GiveUpInv'
  OBVIOUS
<1>0. PipelineInv /\ GiveUpInv
  BY DEF EncoderInv
<1>1. CASE Capture \/ Encode \/ StopCapture \/ UNCHANGED vars
  BY <1>0, <1>1 DEF Capture, Encode, StopCapture, vars, consumerVars, dqVars, mainVars, GiveUpInv
<1>2. CASE Consumer
  <2>1. CASE ThreadLoop
    BY <1>0, <2>1 DEF ThreadLoop, Goto, GiveUpInv, PipelineInv, ControlInv, mainVars
  <2>2. CASE WaitForDQThread
    BY <2>2 DEF WaitForDQThread, dqVars, GiveUpInv
  <2>3. cpc' # "done" \/ ThreadLoop \/ WaitForDQThread
    BY <1>2 DEF Consumer, ThreadInitialize, CreateEncoder, RawInitialize, RawAcquire, RawRelease,
       PrimeAcquire, PrimeQueue, LoopTest, Dequeue, Release, AcquireNext, QueueFrame, SendEos,
       UseDeleted, Acquire, Goto
  <2> QED
    BY <2>1, <2>2, <2>3 DEF GiveUpInv
<1>3. CASE Dq
  BY <1>0, <1>3 DEF Dq, DqBuffer, Deliver, Requeue, AbortOutput, AbortCapture, SetGotError,
     consumerVars, mainVars, GiveUpInv
<1>4. CASE MainStep
  BY <1>0, <1>4 DEF MainStep, StartConsumer, WaitRunning, StartCapture, RequestShutdown, Join,
     CleanupUDP, SkipEncoder, DeinitOutput, DeinitCapture, DeleteEncoder, ErrorJoin, Goto,
     consumerVars, dqVars,
     GiveUpInv
<1> QED
  BY <1>1, <1>2, <1>3, <1>4, Zenon DEF Next

LEMMA StepIdle == EncoderInv /\ [Next]_vars => IdleInv'
<1> SUFFICES ASSUME EncoderInv, [Next]_vars PROVE IdleInv'
  OBVIOUS
<1>0. PipelineInv /\ IdleInv
  BY DEF EncoderInv
<1>1. CASE Capture \/ Encode \/ StopCapture \/ UNCHANGED vars
  BY <1>0, <1>1 DEF Capture, Encode, StopCapture, vars, deviceVars, mainVars, IdleInv,
     BeforeCamera, ErrorPath
<1>2. CASE ThreadInitialize
  <2>1. UNCHANGED <<mpc, outQueue, capDone>>
    BY <1>2 DEF ThreadInitialize, mainVars
  <2> QED
    BY <1>0, <2>1 DEF IdleInv
<1>3. CASE PrimeQueue \/ QueueFrame \/ SendEos
  <2>1. mpc \notin BeforeCamera \cup ErrorPath
    BY <1>0, <1>3 DEF PrimeQueue, QueueFrame, SendEos, PipelineInv, ControlInv, Finished
  <2>2. UNCHANGED mpc
    BY <1>0, <1>3, QueueCalls DEF mainVars
  <2> QED
    BY <1>0, <2>1, <2>2 DEF IdleInv
<1>4. CASE CreateEncoder \/ RawInitialize \/ ThreadLoop \/ RawAcquire \/ RawRelease
           \/ PrimeAcquire \/ LoopTest
           \/ Dequeue \/ Release \/ AcquireNext \/ WaitForDQThread \/ UseDeleted
  BY <1>0, <1>4 DEF CreateEncoder, RawInitialize, ThreadLoop, RawAcquire, RawRelease,
     PrimeAcquire, LoopTest,
     Dequeue, Release, AcquireNext, WaitForDQThread, UseDeleted, Acquire, deviceVars, mainVars,
     IdleInv
<1>5. CASE Dq
  <2>1. mpc' = mpc /\ (outQueue = << >> => outQueue' = << >>)
    BY <1>5 DEF Dq, DqBuffer, Deliver, Requeue, AbortOutput, AbortCapture, SetGotError,
       OutputOff, CaptureOff, deviceVars, mainVars
  <2>2. capDone = << >> => capDone' = << >>
    BY <1>5, Zenon DEF Dq, DqBuffer, Deliver, Requeue, AbortOutput, AbortCapture, SetGotError,
       OutputOff, CaptureOff, deviceVars
  <2> QED
    BY <1>0, <2>1, <2>2 DEF IdleInv
<1>6. CASE MainStep
  <2>1. /\ mpc' \in BeforeCamera \cup ErrorPath => mpc \in BeforeCamera \cup ErrorPath
        /\ outQueue = << >> => outQueue' = << >>
        /\ capDone = << >> => capDone' = << >>
    BY <1>6 DEF MainStep, StartConsumer, WaitRunning, StartCapture, RequestShutdown, Join,
       CleanupUDP, SkipEncoder, DeinitOutput, DeinitCapture, DeleteEncoder, ErrorJoin, OutputOff,
       CaptureOff,
       BeforeCamera, ErrorPath, deviceVars
  <2> QED
    BY <1>0, <2>1 DEF IdleInv
<1> QED
  BY <1>1, <1>2, <1>3, <1>4, <1>5, <1>6, Zenon DEF Next, Consumer

LEMMA InitEncoder == Init => EncoderInv
<1> SUFFICES ASSUME Init PROVE EncoderInv
  OBVIOUS
<1>1. PipelineInv
  BY InitPipeline
<1>2. RunFrom(output, 0) /\ Len(capDone) = 0
  BY EmptyRun DEF Init
<1> QED
  BY <1>1, <1>2 DEF Init, EncoderInv, FlowInv, OutputInv, EncodedInv, QueuedInv, EndInv, Live,
     GiveUpInv, IdleInv

THEOREM EncoderInvariant == Spec => []EncoderInv
<1>1. EncoderInv /\ [Next]_vars => EncoderInv'
  BY StepPipeline, StepFlow, StepGiveUp, StepIdle, Zenon DEF EncoderInv
<1> QED
  BY <1>1, InitEncoder, PTL DEF Spec

(* Frames leave the encoder in the order they were acquired, none twice and none skipped.      *)
THEOREM FramesLeaveInOrder == Spec => []FramesInOrder
<1>1. EncoderInv => FramesInOrder
  <2> SUFFICES ASSUME EncoderInv, NEW i \in 1..Len(output) PROVE output[i] = i
    BY DEF FramesInOrder
  <2>1. Len(output) \in Nat
    BY FlowFacts DEF EncoderInv
  <2>2. output[i] = 0 + i
    BY DEF EncoderInv, FlowInv, OutputInv, RunFrom
  <2> QED
    BY <2>1, <2>2
<1> QED
  BY <1>1, EncoderInvariant, PTL

(* When cleanupUDP runs behind a consumer that ended normally and did not give up on the DQ     *)
(* thread, that thread has ended; and if it ended on EOS, every captured frame was delivered,   *)
(* or never left the stream or the consumer's hands.                                           *)
THEOREM DqThreadFinishedBeforeCleanup == Spec => []DqThreadFinished
<1>1. EncoderInv => DqThreadFinished
  <2> SUFFICES ASSUME EncoderInv, ~raw, mpc = "cleanup", cpc = "done", ~gaveUp
               PROVE  /\ dpc = "exit"
                      /\ ~gotError => Len(output) + Len(captured) + Cardinality(InHand) = made
    BY DEF DqThreadFinished
  <2>1. dpc = "exit"
    BY DEF EncoderInv, GiveUpInv
  <2>2. Cardinality(InHand) = Pending
    <3>1. CASE held = NoBuffer
      <4>1. InHand = {} /\ Pending = 0
        BY <3>1 DEF InHand, Pending
      <4> QED
        BY <4>1, FS_EmptySet
    <3>2. CASE held # NoBuffer
      <4>1. InHand = {held} /\ Pending = 1
        BY <3>2 DEF InHand, Pending
      <4> QED
        BY <4>1, FS_Singleton
    <3> QED
      BY <3>1, <3>2
  <2>3. ASSUME ~gotError PROVE Len(output) + Len(captured) + Cardinality(InHand) = made
    <3>1. Len(output) + Pending = acquired
      BY <2>1, <2>3 DEF EncoderInv, FlowInv, EndInv, AllQueued
    <3>2. acquired + Len(captured) = made
      BY DEF EncoderInv, PipelineInv, CountInv
    <3>3. Len(output) \in Nat /\ Pending \in Nat /\ Len(captured) \in Nat
      BY FlowFacts, LenProperties DEF EncoderInv, PipelineInv, DataTypes
    <3> QED
      BY <2>2, <3>1, <3>2, <3>3
  <2> QED
    BY <2>1, <2>3
<1> QED
  BY <1>1, EncoderInvariant, PTL

-----------------------------------------------------------------------------
(* While both planes stream, the profiler's units are the frames in the device, oldest first,  *)
(* and at most the unit of a frame whose QBUF failed behind them.                              *)
UnitInv == outOn /\ capOn =>
  /\ \/ Len(units) = Len(capDone) + Len(outQueue)
     \/ cpc = "failed" /\ Len(units) = Len(capDone) + Len(outQueue) + 1
  /\ \A i \in 1..Len(capDone) : units[i] = capDone[i]
  /\ \A i \in 1..Len(outQueue) : units[Len(capDone) + i] = outQueue[i].frame

ProfileInv == PipelineInv /\ UnitInv

LEMMA UnitFacts ==
  ASSUME PipelineInv
  PROVE  /\ units \in Seq(0..MaxFrames) /\ Len(units) \in Nat
         /\ (units # << >> => Len(units) \in Nat \ {0})
         /\ Len(capDone) \in Nat /\ Len(outQueue) \in Nat
<1>1. units \in Seq(0..MaxFrames)
  BY DEF PipelineInv, DataTypes
<1> QED
  BY <1>1, FlowFacts, EmptySeq, LenProperties

(* QBUF on the output plane starts a unit, before it succeeds or fails.                        *)
LEMMA QueueUnits == ProfileInv /\ (PrimeQueue \/ QueueFrame \/ SendEos) => UnitInv'
<1> SUFFICES ASSUME ProfileInv, PrimeQueue \/ QueueFrame \/ SendEos, outOn', capOn'
             PROVE  UnitInv'
  BY DEF UnitInv
<1>0. PipelineInv
  BY DEF ProfileInv
<1>1. capDone' = capDone /\ outOn /\ capOn
  BY <1>0, QueueCalls
<1>2. PICK f \in 0..MaxFrames :
        /\ StartProcessing(f)
        /\ \/ outQueue' = Append(outQueue, [slot |-> slot, frame |-> f]) /\ cpc' # "failed"
           \/ outQueue' = outQueue /\ cpc' = "failed"
  BY <1>0, QueueCalls, Zenon
<1>3. /\ Len(units') = Len(units) + 1 /\ units'[Len(units) + 1] = f
      /\ \A i \in 1..Len(units) : units'[i] = units[i]
  <2>1. units' = Append(units, f)
    BY <1>1, <1>2 DEF StartProcessing, Profiling
  <2> QED
    BY <1>0, <2>1, UnitFacts, AppendProperties
<1>4. /\ Len(units) = Len(capDone) + Len(outQueue)
      /\ \A i \in 1..Len(capDone) : units[i] = capDone[i]
      /\ \A i \in 1..Len(outQueue) : units[Len(capDone) + i] = outQueue[i].frame
  BY <1>1 DEF PrimeQueue, QueueFrame, SendEos, ProfileInv, UnitInv
<1>5. /\ \A i \in 1..Len(capDone) : units'[i] = capDone[i]
      /\ \A i \in 1..Len(outQueue) : units'[Len(capDone) + i] = outQueue[i].frame
  BY <1>0, <1>3, <1>4, UnitFacts
<1>6. CASE outQueue' = Append(outQueue, [slot |-> slot, frame |-> f])
  <2>1. PICK item : item = [slot |-> slot, frame |-> f]
    OBVIOUS
  <2>2. slot \in Slots /\ outQueue \in Seq([slot : Slots, frame : 0..MaxFrames])
    BY <1>0 DEF PipelineInv, DataTypes
  <2>3. /\ Len(outQueue') = Len(outQueue) + 1
        /\ \A i \in 1..Len(outQueue) : outQueue'[i] = outQueue[i]
        /\ outQueue'[Len(outQueue) + 1].frame = f
    BY <1>6, <2>1, <2>2, QueueAppended
  <2>4. units'[Len(capDone) + (Len(outQueue) + 1)] = f
        /\ Len(units') = Len(capDone) + (Len(outQueue) + 1)
    BY <1>0, <1>3, <1>4, UnitFacts
  <2>5. \A i \in 1..(Len(outQueue) + 1) : i \in 1..Len(outQueue) \/ i = Len(outQueue) + 1
    BY <1>0, UnitFacts
  <2> QED
    BY <1>1, <1>5, <2>3, <2>4, <2>5 DEF UnitInv
<1>7. CASE outQueue' = outQueue /\ cpc' = "failed"
  BY <1>1, <1>3, <1>4, <1>5, <1>7 DEF UnitInv
<1> QED
  BY <1>2, <1>6, <1>7

LEMMA EncodeUnits == ProfileInv /\ Encode => UnitInv'
<1> SUFFICES ASSUME ProfileInv, Encode PROVE UnitInv'
  OBVIOUS
<1>0. PipelineInv
  BY DEF ProfileInv
<1>1. /\ outOn /\ capOn /\ outQueue # << >> /\ outQueue' = Tail(outQueue)
      /\ capDone' = Append(capDone, Head(outQueue).frame) /\ units' = units /\ cpc' = cpc
  BY DEF Encode, consumerVars
<1>2. /\ Len(outQueue) \in Nat \ {0} /\ Len(outQueue') = Len(outQueue) - 1
      /\ \A i \in 1..Len(outQueue') : outQueue'[i] = outQueue[i + 1]
      /\ Head(outQueue).frame = outQueue[1].frame /\ Head(outQueue).frame \in 0..MaxFrames
  BY <1>0, <1>1, FlowFacts, QueueTyped
<1>3. /\ Len(capDone) \in Nat /\ Len(capDone') = Len(capDone) + 1
      /\ \A i \in 1..Len(capDone) : capDone'[i] = capDone[i]
      /\ capDone'[Len(capDone) + 1] = outQueue[1].frame
  BY <1>0, <1>1, <1>2, FlowFacts, AppendProperties
<1>4. /\ \/ Len(units) = Len(capDone) + Len(outQueue)
         \/ cpc = "failed" /\ Len(units) = Len(capDone) + Len(outQueue) + 1
      /\ \A i \in 1..Len(capDone) : units[i] = capDone[i]
      /\ \A i \in 1..Len(outQueue) : units[Len(capDone) + i] = outQueue[i].frame
  BY <1>1 DEF ProfileInv, UnitInv
<1>5. Len(capDone') + Len(outQueue') = Len(capDone) + Len(outQueue)
  BY <1>2, <1>3
<1>6. ASSUME NEW i \in 1..Len(capDone') PROVE units[i] = capDone'[i]
  <2>1. i \in 1..Len(capDone) \/ i = Len(capDone) + 1
    BY <1>3
  <2>2. 1 \in 1..Len(outQueue)
    BY <1>2
  <2> QED
    BY <1>3, <1>4, <2>1, <2>2
<1>7. ASSUME NEW i \in 1..Len(outQueue') PROVE units[Len(capDone') + i] = outQueue'[i].frame
  <2>1. i + 1 \in 1..Len(outQueue) /\ Len(capDone) + (i + 1) = Len(capDone') + i
    BY <1>2, <1>3
  <2> QED
    BY <1>2, <1>4, <2>1
<1> QED
  BY <1>1, <1>4, <1>5, <1>6, <1>7 DEF UnitInv

LEMMA DqBufferUnits == ProfileInv /\ DqBuffer => UnitInv'
<1> SUFFICES ASSUME ProfileInv, DqBuffer, outOn' PROVE UnitInv'
  BY DEF UnitInv
<1>0. PipelineInv
  BY DEF ProfileInv
<1>1. /\ outOn /\ capOn /\ capDone # << >> /\ capDone' = Tail(capDone) /\ outQueue' = outQueue
      /\ cpc' = cpc /\ FinishProcessing
  BY DEF DqBuffer, consumerVars
<1>2. /\ Len(capDone) \in Nat \ {0} /\ Len(capDone') = Len(capDone) - 1
      /\ \A i \in 1..Len(capDone') : capDone'[i] = capDone[i + 1]
  BY <1>0, <1>1, FlowFacts, HeadTailProperties
<1>3. /\ \/ Len(units) = Len(capDone) + Len(outQueue)
         \/ cpc = "failed" /\ Len(units) = Len(capDone) + Len(outQueue) + 1
      /\ \A i \in 1..Len(capDone) : units[i] = capDone[i]
      /\ \A i \in 1..Len(outQueue) : units[Len(capDone) + i] = outQueue[i].frame
  BY <1>1 DEF ProfileInv, UnitInv
<1>4. units # << >>
  <2>1. Len(units) # 0
    BY <1>0, <1>2, <1>3, UnitFacts
  <2> QED
    BY <2>1, EmptyRun
<1>5. /\ Len(units') = Len(units) - 1 /\ Len(units) \in Nat
      /\ \A i \in 1..Len(units') : units'[i] = units[i + 1]
  <2>1. units' = Tail(units)
    BY <1>1, <1>4 DEF FinishProcessing, Profiling
  <2> QED
    BY <1>0, <1>4, <2>1, UnitFacts, HeadTailProperties
<1>6. \/ Len(units') = Len(capDone') + Len(outQueue)
      \/ cpc = "failed" /\ Len(units') = Len(capDone') + Len(outQueue) + 1
  BY <1>0, <1>2, <1>3, <1>5, UnitFacts
<1>7. ASSUME NEW i \in 1..Len(capDone') PROVE units'[i] = capDone'[i]
  <2>1. i + 1 \in 1..Len(capDone) /\ i \in 1..Len(units')
    BY <1>0, <1>2, <1>6, UnitFacts
  <2> QED
    BY <1>2, <1>3, <1>5, <2>1
<1>8. ASSUME NEW i \in 1..Len(outQueue) PROVE units'[Len(capDone') + i] = outQueue[i].frame
  <2>1. Len(capDone') + i \in 1..Len(units') /\ (Len(capDone') + i) + 1 = Len(capDone) + i
    BY <1>0, <1>2, <1>6, UnitFacts
  <2> QED
    BY <1>3, <1>5, <2>1
<1> QED
  BY <1>1, <1>6, <1>7, <1>8 DEF UnitInv

LEMMA StepUnits == ProfileInv /\ [Next]_vars => UnitInv'
<1> SUFFICES ASSUME ProfileInv, [Next]_vars PROVE UnitInv'
  OBVIOUS
<1>0. PipelineInv
  BY DEF ProfileInv
<1>1. ASSUME UNCHANGED <<units, capDone, outQueue>>, outOn' /\ capOn' => outOn /\ capOn,
             cpc = "failed" => cpc' = "failed"
      PROVE  UnitInv'
  BY <1>1 DEF ProfileInv, UnitInv
<1>2. CASE Capture \/ StopCapture \/ UNCHANGED vars
  BY <1>1, <1>2 DEF Capture, StopCapture, vars, deviceVars, consumerVars
<1>3. CASE Encode
  BY <1>3, EncodeUnits
<1>4. CASE ThreadInitialize
  <2>1. dpc = "off"
    BY <1>0, <1>4 DEF ThreadInitialize, PipelineInv, StreamInv
  <2>2. units' = << >> /\ capDone' = << >> /\ outQueue' = << >>
    BY <1>0, <1>4, <2>1 DEF ThreadInitialize, PipelineInv, CountInv, CaptureInv
  <2>3. Len(units') = 0 /\ Len(capDone') = 0 /\ Len(outQueue') = 0
    BY <2>2, EmptyRun
  <2> QED
    BY <2>3 DEF UnitInv
<1>5. CASE PrimeQueue \/ QueueFrame \/ SendEos
  BY <1>5, QueueUnits
<1>6. CASE CreateEncoder \/ RawInitialize \/ ThreadLoop \/ RawAcquire \/ RawRelease
           \/ PrimeAcquire \/ LoopTest
           \/ Dequeue \/ Release \/ AcquireNext \/ WaitForDQThread \/ UseDeleted
  <2>1. UNCHANGED <<units, capDone, outQueue>> /\ UNCHANGED <<outOn, capOn>> /\ cpc # "failed"
    BY <1>6 DEF CreateEncoder, RawInitialize, ThreadLoop, RawAcquire, RawRelease, PrimeAcquire,
       LoopTest,
       Dequeue, Release, AcquireNext, WaitForDQThread, UseDeleted, Acquire, deviceVars
  <2> QED
    BY <1>1, <2>1
<1>7. CASE DqBuffer
  BY <1>7, DqBufferUnits
<1>8. CASE Deliver \/ Requeue \/ AbortOutput \/ AbortCapture \/ SetGotError
  <2>1. \/ UNCHANGED <<units, capDone, outQueue, outOn, capOn, cpc>>
        \/ ~outOn' \/ ~capOn'
    BY <1>8 DEF Deliver, Requeue, AbortOutput, AbortCapture, SetGotError, OutputOff,
       CaptureOff, deviceVars, consumerVars
  <2> QED
    BY <1>1, <2>1 DEF UnitInv
<1>9. CASE MainStep
  <2>1. \/ /\ UNCHANGED <<units, capDone, outQueue, outOn, capOn>>
           /\ cpc = "failed" => cpc' = "failed"
        \/ ~outOn' \/ ~capOn'
    BY <1>0, <1>9 DEF MainStep, StartConsumer, WaitRunning, StartCapture, RequestShutdown, Join,
       CleanupUDP, SkipEncoder, DeinitOutput, DeinitCapture, DeleteEncoder, ErrorJoin, OutputOff,
       CaptureOff,
       deviceVars, consumerVars, Goto, PipelineInv, ControlInv
  <2> QED
    BY <1>1, <2>1 DEF UnitInv
<1> QED
  BY <1>2, <1>3, <1>4, <1>5, <1>6, <1>7, <1>8, <1>9, Zenon DEF Next, Consumer, Dq

(* The profiler measures each frame from its own QBUF.                                         *)
THEOREM LatencyMeasuresOwnFrame == Spec => []LatencyOfOwnFrame
<1>1. Init => ProfileInv
  BY InitPipeline DEF Init, ProfileInv, UnitInv
<1>2. ProfileInv /\ [Next]_vars => ProfileInv'
  BY StepPipeline, StepUnits DEF ProfileInv
<1>3. ProfileInv => LatencyOfOwnFrame
  <2> SUFFICES ASSUME ProfileInv, outOn, capOn
               PROVE  /\ Len(units) - Len(InDeviceFrames) \in {0, 1}
                      /\ SubSeq(units, 1, Len(InDeviceFrames)) = InDeviceFrames
    BY DEF LatencyOfOwnFrame
  <2>0. PipelineInv
    BY DEF ProfileInv
  <2> DEFINE queued == [i \in 1..Len(outQueue) |-> outQueue[i].frame]
  <2>1. queued \in Seq(0..MaxFrames) /\ Len(queued) = Len(outQueue)
    <3>1. \A i \in 1..Len(outQueue) : outQueue[i] \in [slot : Slots, frame : 0..MaxFrames]
      BY <2>0, FlowFacts, ElementOfSeq
    <3>2. \A i \in 1..Len(outQueue) : outQueue[i].frame \in 0..MaxFrames
      BY <3>1
    <3> QED
      BY <2>0, <3>2, UnitFacts, IsASeq
  <2>2. \A i \in 1..Len(outQueue) : queued[i] = outQueue[i].frame
    OBVIOUS
  <2>3. InDeviceFrames = capDone \o queued
    BY DEF InDeviceFrames
  <2> HIDE DEF queued
  <2>4. PICK d : d = InDeviceFrames
    OBVIOUS
  <2>5. PICK n : n = Len(capDone) + Len(outQueue)
    OBVIOUS
  <2>6. /\ d \in Seq(0..MaxFrames) /\ Len(d) = n /\ n \in Nat
        /\ \A i \in 1..n : d[i] = IF i <= Len(capDone) THEN capDone[i] ELSE queued[i - Len(capDone)]
    BY <2>0, <2>1, <2>3, <2>4, <2>5, FlowFacts, ConcatProperties
  <2>7. /\ Len(units) = n \/ Len(units) = n + 1
        /\ \A i \in 1..Len(capDone) : units[i] = capDone[i]
        /\ \A i \in 1..Len(outQueue) : units[Len(capDone) + i] = outQueue[i].frame
    BY <2>5 DEF ProfileInv, UnitInv
  <2>8. ASSUME NEW i \in 1..n PROVE d[i] = units[i]
    <3>1. CASE i <= Len(capDone)
      <4>1. i \in 1..Len(capDone)
        BY <2>0, <3>1, UnitFacts
      <4> QED
        BY <2>6, <2>7, <3>1, <4>1
    <3>2. CASE ~(i <= Len(capDone))
      <4>1. /\ i - Len(capDone) \in 1..Len(outQueue)
            /\ Len(capDone) + (i - Len(capDone)) = i
        BY <2>0, <2>5, <3>2, UnitFacts
      <4> QED
        BY <2>2, <2>6, <2>7, <3>2, <4>1
    <3> QED
      BY <3>1, <3>2
  <2>9. /\ SubSeq(units, 1, n) \in Seq(0..MaxFrames) /\ Len(SubSeq(units, 1, n)) = n
        /\ \A i \in 1..n : SubSeq(units, 1, n)[i] = units[i]
    <3>1. units \in Seq(0..MaxFrames) /\ n \in Nat /\ (Len(units) = n \/ Len(units) = n + 1)
      BY <2>0, <2>6, <2>7, UnitFacts
    <3>2. \A i \in 1..n : units[i] \in 0..MaxFrames
      <4>1. \A i \in 1..n : i \in 1..Len(units)
        BY <3>1
      <4>2. \A i \in 1..Len(units) : units[i] \in 0..MaxFrames
        BY <3>1, ElementOfSeq
      <4> QED
        BY <4>1, <4>2
    <3> QED
      BY <3>1, <3>2, SubSeqProperties
  <2>10. SubSeq(units, 1, n) = d
    BY <2>6, <2>8, <2>9, SeqEqual
  <2>11. Len(units) - n \in {0, 1}
    BY <2>6, <2>7
  <2> QED
    BY <2>4, <2>6, <2>10, <2>11, Zenon
<1> QED
  BY <1>1, <1>2, <1>3, PTL DEF Spec
=============================================================================
