-------------------------- MODULE EncoderPipeline --------------------------
(* The encoding pipeline of src/main.cpp: execute() starts the consumer       *)
(* thread, which moves camera buffers from the Argus stream into the output    *)
(* plane of the V4L2 encoder and back, while the DQ thread of the capture      *)
(* plane takes encoded frames out and hands them to the callback.  The camera  *)
(* and the encoder device are modelled by what the code relies on: both work   *)
(* in order, and turning a stream off makes its dequeue calls fail.            *)
EXTENDS Integers, Sequences, FiniteSets

CONSTANTS Buffers,        (* the Argus buffers, NUM_BUFFERS in the code        *)
          EncoderFrames,  (* MAX_ENCODER_FRAMES, slots used of the output plane*)
          CaptureSlots,   (* buffers of the capture plane, 6 in the code       *)
          MaxFrames,      (* bound on the frames the camera delivers           *)
          CanFail,        (* may an ioctl or a set-up call fail?               *)
          NoBuffer        (* no buffer                                         *)

ASSUME PipelineAssumption ==
  /\ IsFiniteSet(Buffers) /\ NoBuffer \notin Buffers
  /\ EncoderFrames \in Nat \ {0} /\ CaptureSlots \in Nat \ {0} /\ MaxFrames \in Nat
  /\ CanFail \in BOOLEAN

Slots == 1..EncoderFrames
EOS == 0                     \* the empty buffer that ends the stream

VARIABLES raw,       (* RAW_FRAME_MODE, an option                             *)
          mpc,       (* program point of execute()                            *)
          cpc,       (* program point of the consumer thread                  *)
          dpc,       (* program point of the DQ thread                        *)
          doShutdown,(* m_doShutdown                                          *)
          gotError,  (* m_gotError                                            *)
          encoder,   (* m_VideoEncoder: "none", "there" or "deleted"          *)
          free,      (* buffers the camera may fill                           *)
          captured,  (* filled buffers the consumer has not acquired          *)
          ended,     (* endOfStream was called                                *)
          held,      (* the buffer in the consumer's hands                    *)
          slot,      (* v4l2_buf.index of the consumer                        *)
          shared,    (* shared_buffer of each output plane buffer             *)
          outQueue,  (* slots queued on the output plane, with their frame    *)
          outDone,   (* slots the device has consumed                         *)
          capEmpty,  (* number of empty buffers queued on the capture plane   *)
          capDone,   (* frames encoded and not dequeued                       *)
          frame,     (* what the DQ thread has dequeued                       *)
          outOn, capOn, (* streamon of the two planes                         *)
          made,      (* number of frames captured                             *)
          acquired,  (* number of frames acquired by the consumer             *)
          output,    (* history: frames given to file, UDP and RTSP           *)
          units,     (* frames of unit_start_time_queue, by ascending id      *)
          gaveUp     (* history: waitForDQThread(2000) timed out              *)

cameraVars  == <<free, captured, ended, made>>
deviceVars  == <<outQueue, outDone, capEmpty, capDone, outOn, capOn>>
consumerVars == <<cpc, held, slot, shared, acquired, gaveUp>>
dqVars      == <<dpc, frame, output>>
mainVars    == <<mpc, doShutdown, gotError, encoder>>
vars == <<raw, units, cameraVars, deviceVars, consumerVars, dqVars, mainVars>>

Init == /\ mpc = "start" /\ cpc = "off" /\ dpc = "off"
        /\ doShutdown = FALSE /\ gotError = FALSE /\ encoder = "none"
        /\ free = Buffers /\ captured = << >> /\ ended = FALSE
        /\ held = NoBuffer /\ slot = 1 /\ shared = [s \in Slots |-> NoBuffer]
        /\ outQueue = << >> /\ outDone = << >> /\ capEmpty = 0 /\ capDone = << >>
        /\ frame = EOS /\ outOn = FALSE /\ capOn = FALSE
        /\ made = 0 /\ acquired = 0 /\ output = << >> /\ gaveUp = FALSE
        /\ raw \in BOOLEAN /\ units = << >>

-----------------------------------------------------------------------------
(* The camera (external): fills a free buffer while the repeating request is  *)
(* active.                                                                    *)
Capture == /\ mpc = "wait" /\ made < MaxFrames
           /\ \E b \in free : /\ free' = free \ {b}
                              /\ captured' = Append(captured, b)
           /\ made' = made + 1
           /\ UNCHANGED <<raw, units, ended, deviceVars, consumerVars, dqVars, mainVars>>

(* The encoder device (external): takes the oldest queued slot and an empty    *)
(* capture buffer; the empty slot comes out as an empty capture buffer.        *)
Encode == /\ outOn /\ capOn /\ outQueue # << >> /\ capEmpty > 0
          /\ LET item == Head(outQueue)
             IN  /\ outDone' = Append(outDone, item.slot)
                 /\ capDone' = Append(capDone, item.frame)
          /\ outQueue' = Tail(outQueue)
          /\ capEmpty' = capEmpty - 1
          /\ UNCHANGED <<raw, units, outOn, capOn, cameraVars, consumerVars, dqVars, mainVars>>

-----------------------------------------------------------------------------
(* setStreamStatus(false) on a plane: its buffers go back to the application.     *)
(* It does nothing when the plane is off, and nothing when STREAMOFF fails: then   *)
(* the plane stays on, and no caller looks at the result.                          *)
OutputOff  == \/ /\ outOn
                 /\ outOn' = FALSE /\ outQueue' = << >> /\ outDone' = << >>
                 /\ UNCHANGED <<capOn, capEmpty, capDone>>
              \/ (~outOn \/ CanFail) /\ UNCHANGED deviceVars
CaptureOff == \/ /\ capOn
                 /\ capOn' = FALSE /\ capEmpty' = 0 /\ capDone' = << >>
                 /\ UNCHANGED <<outOn, outQueue, outDone>>
              \/ (~capOn \/ CanFail) /\ UNCHANGED deviceVars

(* The element's profiler: qBuffer of the output plane starts a unit, before QBUF  *)
(* succeeds or fails, dqBuffer of the capture plane finishes the oldest one, and   *)
(* turning the capture plane off disables it.                                     *)
Profiling == capOn
FaultyFinishProcessing ==   \* a faulty variant: finishes the newest unit
  units' = IF units # << >> THEN SubSeq(units, 1, Len(units) - 1) ELSE units
StartProcessing(f) == units' = IF Profiling THEN Append(units, f) ELSE units
FinishProcessing == units' = IF Profiling /\ units # << >> THEN Tail(units) ELSE units

(* QBUF on the output plane fails when the slot is still in the device, and    *)
(* may fail when CanFail; the slot's shared_buffer is set before it is tried.   *)
InDevice(s) == \/ \E i \in 1..Len(outQueue) : outQueue[i].slot = s
               \/ \E i \in 1..Len(outDone) : outDone[i] = s
QueueOutput(b, f) == /\ ~InDevice(slot)
                     /\ shared' = [shared EXCEPT ![slot] = b]
                     /\ outQueue' = Append(outQueue, [slot |-> slot, frame |-> f])
                     /\ StartProcessing(f)
                     /\ UNCHANGED <<outDone, capEmpty, capDone, outOn, capOn>>
QueueFails(b, f) == /\ InDevice(slot) \/ CanFail
                    /\ shared' = [shared EXCEPT ![slot] = b]
                    /\ StartProcessing(f)
                    /\ UNCHANGED deviceVars

Goto(l) == cpc' = l

-----------------------------------------------------------------------------
(* Faulty variants of single steps, which the properties below must notice.    *)
(* No specification uses them.                                                  *)
FaultyRelease ==                       \* gives the frame back and keeps it
  /\ cpc = "release"
  /\ free' = free \cup {held}
  /\ Goto("acquire")
  /\ UNCHANGED <<raw, units, captured, ended, made, held, slot, shared, acquired, gaveUp,
                 deviceVars,
                 dqVars, mainVars>>

FaultyQueueFrame ==                    \* goes on when the frame was not queued
  /\ cpc = "queue"
  /\ QueueOutput(held, acquired) \/ QueueFails(held, acquired)
  /\ held' = NoBuffer
  /\ Goto("loop")
  /\ UNCHANGED <<raw, slot, acquired, gaveUp, cameraVars, dqVars, mainVars>>

FaultyWaitForDQThread ==               \* does not wait
  /\ cpc = "waitdq"
  /\ doShutdown' = TRUE
  /\ Goto("done")
  /\ UNCHANGED <<raw, units, held, slot, shared, acquired, gaveUp, cameraVars, deviceVars, dqVars,
                 mpc, gotError, encoder>>

FaultyRequestShutdown ==               \* does not join
  /\ mpc = "shutdown"
  /\ doShutdown' = TRUE
  /\ mpc' = "cleanup"
  /\ UNCHANGED <<raw, units, gotError, encoder, cameraVars, deviceVars, consumerVars, dqVars>>

FaultyRequeueTwice ==
  /\ dpc = "requeue"
  /\ capEmpty' = capEmpty + 2
  /\ dpc' = IF frame = EOS THEN "exit" ELSE "dq"
  /\ UNCHANGED <<raw, units, frame, output, outQueue, outDone, capDone, outOn, capOn,
                 cameraVars, consumerVars, mainVars>>

FaultyRequeueNever ==
  /\ dpc = "requeue"
  /\ dpc' = IF frame = EOS THEN "exit" ELSE "dq"
  /\ UNCHANGED <<raw, units, frame, output, cameraVars, deviceVars, consumerVars, mainVars>>

FaultyStopCapture ==                   \* does not end the stream
  /\ mpc = "wait"
  /\ cpc # "running"
  /\ mpc' = "shutdown"
  /\ UNCHANGED <<raw, units, cameraVars, doShutdown, gotError, encoder, deviceVars, consumerVars,
                 dqVars>>

-----------------------------------------------------------------------------
(* Consumer: threadInitialize.  m_VideoEncoder is NULL until createVideoEncoder  *)
(* has assigned it, which also a failing call may have done.                      *)
CreateEncoder ==
  /\ cpc = "init" /\ ~raw
  /\ \/ encoder' = "there" /\ Goto("configure")
     \/ CanFail /\ encoder' \in {"none", "there"} /\ Goto("failed")
  /\ UNCHANGED <<raw, units, held, slot, shared, acquired, gaveUp, mpc, doShutdown, gotError,
                 cameraVars, deviceVars, dqVars>>

(* The encoder is set up and its planes are turned on.  The DQ thread starts      *)
(* before the empty capture buffers are queued; if anything fails the thread ends  *)
(* and leaves things as they are.                                                  *)
ThreadInitialize ==
  /\ cpc = "configure" /\ encoder = "there"
  /\ \/ /\ outOn' = TRUE /\ capOn' = TRUE
        /\ dpc' = "dq"
        /\ \/ capEmpty' = CaptureSlots /\ Goto("running")
           \/ CanFail /\ capEmpty' \in 0..(CaptureSlots - 1) /\ Goto("failed")
     \/ /\ CanFail
        /\ Goto("failed")
        /\ outOn' \in BOOLEAN
        /\ UNCHANGED <<capOn, dpc, capEmpty>>
  /\ UNCHANGED <<raw, units, held, slot, shared, acquired, gaveUp, outQueue, outDone, capDone,
                 frame, output, cameraVars, mainVars>>

(* waitRunning gave up on a slow threadInitialize, and ~ConsumerThread has deleted *)
(* the encoder that threadInitialize goes on using, until a call fails or as if     *)
(* nothing had happened; a crash adds no state.                                     *)
UseDeleted == /\ cpc = "configure" /\ encoder = "deleted"
              /\ Goto("running") \/ Goto("failed")
              /\ UNCHANGED <<raw, units, held, slot, shared, acquired, gaveUp, cameraVars,
                             deviceVars, dqVars, mainVars>>

(* In raw frame mode there is no encoder.                                       *)
RawInitialize ==
  /\ cpc = "init" /\ raw
  /\ Goto("running")
  /\ UNCHANGED <<raw, units, held, slot, shared, acquired, gaveUp, cameraVars, deviceVars,
                 dqVars, mainVars>>

(* threadFunction: threadExecute runs, and in raw frame mode runs again, until     *)
(* shutdown is requested.                                                        *)
ThreadLoop == /\ cpc = "running"
              /\ slot' = 1
              /\ \/ doShutdown /\ Goto("done")
                 \/ ~doShutdown /\ Goto(IF raw THEN "rawacquire" ELSE "primeacquire")
              /\ UNCHANGED <<raw, units, held, shared, acquired, gaveUp, cameraVars, deviceVars,
                             dqVars, mainVars>>

(* threadExecute.  acquireBuffer blocks until there is a frame or the stream   *)
(* has ended; then, or when it or the conversion to a DmaBuffer fails, the      *)
(* first loop fails and the second leaves for EOS.                              *)
Acquire(from, to, atEnd) ==
  /\ cpc = from
  /\ \/ /\ captured # << >>
        /\ held' = Head(captured)
        /\ captured' = Tail(captured)
        /\ acquired' = acquired + 1
        /\ Goto(to) \/ (CanFail /\ Goto(atEnd))
     \/ /\ (captured = << >> /\ ended) \/ CanFail
        /\ Goto(atEnd)
        /\ UNCHANGED <<held, captured, acquired>>
  /\ UNCHANGED <<raw, units, free, ended, made, slot, shared, gaveUp, deviceVars, dqVars, mainVars>>

PrimeAcquire == Acquire("primeacquire", "primequeue", "failed")

(* Raw frame mode acquires frames and releases them at once.                     *)
RawAcquire == Acquire("rawacquire", "rawrelease", "running")
RawRelease == /\ cpc = "rawrelease"
              /\ free' = free \cup {held}
              /\ held' = NoBuffer
              /\ Goto("rawacquire")
              /\ UNCHANGED <<raw, units, captured, ended, made, slot, shared, acquired, gaveUp,
                             deviceVars, dqVars, mainVars>>

PrimeQueue ==
  /\ cpc = "primequeue"
  /\ \/ /\ QueueOutput(held, acquired)
        /\ held' = NoBuffer
        /\ IF slot < EncoderFrames THEN slot' = slot + 1 /\ Goto("primeacquire")
                                   ELSE UNCHANGED slot /\ Goto("loop")
     \/ QueueFails(held, acquired) /\ Goto("failed") /\ UNCHANGED <<held, slot>>
  /\ UNCHANGED <<raw, acquired, gaveUp, cameraVars, dqVars, mainVars>>

LoopTest == /\ cpc = "loop"
            /\ Goto(IF gotError THEN "eos" ELSE "dequeue")
            /\ UNCHANGED <<raw, units, held, slot, shared, acquired, gaveUp, cameraVars,
                           deviceVars, dqVars, mainVars>>

(* dqBuffer blocks while the stream is on and nothing is consumed.             *)
Dequeue ==
  /\ cpc = "dequeue"
  /\ \/ /\ outOn /\ outDone # << >>
        /\ slot' = Head(outDone)
        /\ outDone' = Tail(outDone)
        /\ held' = shared[Head(outDone)]
        /\ Goto("release")
     \/ /\ ~outOn \/ CanFail
        /\ Goto("failed")
        /\ UNCHANGED <<held, slot, outDone>>
  /\ UNCHANGED <<raw, units, outQueue, capEmpty, capDone, outOn, capOn,
                 shared, acquired, gaveUp, cameraVars, dqVars, mainVars>>

Release == /\ cpc = "release"
           /\ free' = free \cup {held}
           /\ held' = NoBuffer
           /\ Goto("acquire")
           /\ UNCHANGED <<raw, units, captured, ended, made, slot, shared, acquired, gaveUp,
                          deviceVars,
                          dqVars, mainVars>>

AcquireNext == Acquire("acquire", "queue", "eos")

QueueFrame ==
  /\ cpc = "queue"
  /\ \/ QueueOutput(held, acquired) /\ held' = NoBuffer /\ Goto("loop")
     \/ QueueFails(held, acquired) /\ Goto("failed") /\ UNCHANGED held
  /\ UNCHANGED <<raw, slot, acquired, gaveUp, cameraVars, dqVars, mainVars>>

(* EOS reuses v4l2_buf, whose index is the last buffer handled.                *)
SendEos ==
  /\ cpc = "eos"
  /\ \/ QueueOutput(NoBuffer, EOS) /\ Goto("waitdq")
     \/ QueueFails(NoBuffer, EOS) /\ Goto("failed")
  /\ UNCHANGED <<raw, held, slot, acquired, gaveUp, cameraVars, dqVars, mainVars>>

(* waitForDQThread(2000), whose result is ignored, and requestShutdown.        *)
WaitForDQThread ==
  /\ cpc = "waitdq"
  /\ gaveUp' = (dpc # "exit")
  /\ doShutdown' = TRUE
  /\ Goto("done")
  /\ UNCHANGED <<raw, units, held, slot, shared, acquired, cameraVars, deviceVars, dqVars,
                 mpc, gotError, encoder>>

-----------------------------------------------------------------------------
(* The DQ thread of the capture plane, and the encoder's callback.             *)
DqBuffer == /\ dpc = "dq"
            /\ capOn /\ capDone # << >>
            /\ frame' = Head(capDone)
            /\ capDone' = Tail(capDone)
            /\ FinishProcessing
            /\ dpc' = "callback"
            /\ UNCHANGED <<raw, output, outQueue, outDone, capEmpty, outOn, capOn,
                           cameraVars, consumerVars, mainVars>>

Deliver == /\ dpc = "callback"
           /\ output' = IF frame = EOS THEN output ELSE Append(output, frame)
           /\ dpc' = "requeue"
           /\ UNCHANGED <<raw, units, frame, cameraVars, deviceVars, consumerVars, mainVars>>

Requeue == /\ dpc = "requeue"
           /\ capEmpty' = capEmpty + 1
           /\ dpc' = IF frame = EOS THEN "exit" ELSE "dq"
           /\ UNCHANGED <<raw, units, frame, output, outQueue, outDone, capDone, outOn, capOn,
                          cameraVars, consumerVars, mainVars>>

(* A failed dequeue (callback without a buffer) or requeue: abort() turns the   *)
(* streams off, then sets m_gotError, and the callback ends the thread.          *)
AbortOutput == /\ \/ dpc = "dq" /\ (~capOn \/ CanFail)
                  \/ dpc = "requeue" /\ CanFail
               /\ OutputOff
               /\ dpc' = "abort"
               /\ UNCHANGED <<raw, units, frame, output, cameraVars, consumerVars, mainVars>>

AbortCapture == /\ dpc = "abort"
                /\ CaptureOff
                /\ dpc' = "aborted"
                /\ UNCHANGED <<raw, units, frame, output, cameraVars, consumerVars, mainVars>>

SetGotError == /\ dpc = "aborted"
               /\ gotError' = TRUE
               /\ dpc' = "exit"
               /\ UNCHANGED <<raw, units, frame, output, cameraVars, deviceVars, consumerVars,
                              mpc, doShutdown, encoder>>

-----------------------------------------------------------------------------
(* execute(): initialize and waitRunning, which gives up after five seconds.    *)
StartConsumer == /\ mpc = "start"
                 /\ mpc' = "waitrunning"
                 /\ Goto("init")
                 /\ UNCHANGED <<raw, units, held, slot, shared, acquired, gaveUp, doShutdown,
                                gotError, encoder,
                                cameraVars, deviceVars, dqVars>>

WaitRunning == /\ mpc = "waitrunning"
               /\ \/ cpc \notin {"init", "configure", "done", "failed"} /\ mpc' = "setup"
                  \/ cpc \in {"done", "failed"} /\ mpc' = "error"
                  \/ cpc \in {"init", "configure"} /\ CanFail /\ mpc' = "error"
               /\ UNCHANGED <<raw, units, doShutdown, gotError, encoder, cameraVars, deviceVars,
                              consumerVars, dqVars>>

(* The request, the RTSP server and repeat() are set up, or execute() fails.   *)
StartCapture == /\ mpc = "setup"
                /\ \/ mpc' = "wait"
                   \/ CanFail /\ mpc' = "error"
                /\ UNCHANGED <<raw, units, doShutdown, gotError, encoder, cameraVars, deviceVars,
                               consumerVars, dqVars>>

(* The wait loop ends on an error, or after CAPTURE_TIME, which is at least a  *)
(* second: the consumer has entered threadExecute by then.                     *)
StopCapture == /\ mpc = "wait"
               /\ cpc # "running"
               /\ ended' = TRUE
               /\ mpc' = "shutdown"
               /\ UNCHANGED <<raw, units, free, captured, made, doShutdown, gotError, encoder,
                              deviceVars, consumerVars, dqVars>>

(* Thread::shutdown sets m_doShutdown and joins.                               *)
RequestShutdown == /\ \/ mpc = "shutdown" /\ mpc' = "join"
                      \/ mpc = "errorshutdown" /\ mpc' = "errorjoin"
                   /\ doShutdown' = TRUE
                   /\ UNCHANGED <<raw, units, gotError, encoder, cameraVars, deviceVars,
                                  consumerVars, dqVars>>

Join == /\ mpc = "join" /\ cpc \in {"done", "failed"}
        /\ doShutdown' = FALSE
        /\ mpc' = "cleanup"
        /\ UNCHANGED <<raw, units, gotError, encoder, cameraVars, deviceVars, consumerVars, dqVars>>

(* cleanupUDP, and execute() returns, unless the join of the UDP sender there      *)
(* never ends: whether it does is the part of module UdpSender.                     *)
CleanupUDP == /\ mpc = "cleanup"
              /\ mpc' \in {"destroy", "udpjoin"}
              /\ UNCHANGED <<raw, units, doShutdown, gotError, encoder, cameraVars, deviceVars,
                             consumerVars, dqVars>>

(* ~ConsumerThread deletes the encoder, if there is one: that turns the streams  *)
(* off, waits for the DQ thread and closes the device.  ~Thread then joins a       *)
(* consumer that was not joined before.                                            *)
SkipEncoder == /\ \/ mpc = "destroy" /\ mpc' = "done"
                  \/ mpc = "error" /\ mpc' = "errorshutdown"
               /\ encoder = "none"
               /\ UNCHANGED <<raw, units, doShutdown, gotError, encoder, cameraVars, deviceVars,
                              consumerVars, dqVars>>

DeinitOutput == /\ \/ mpc = "destroy" /\ mpc' = "deinit"
                   \/ mpc = "error" /\ mpc' = "errordeinit"
                /\ encoder = "there"
                /\ OutputOff
                /\ UNCHANGED <<raw, units, doShutdown, gotError, encoder, cameraVars, consumerVars,
                               dqVars>>

DeinitCapture == /\ \/ mpc = "deinit" /\ mpc' = "destroywait"
                    \/ mpc = "errordeinit" /\ mpc' = "errorwait"
                 /\ CaptureOff
                 /\ UNCHANGED <<raw, units, doShutdown, gotError, encoder, cameraVars, consumerVars,
                                dqVars>>

DeleteEncoder == /\ \/ mpc = "destroywait" /\ mpc' = "done"
                    \/ mpc = "errorwait" /\ mpc' = "errorshutdown"
                 /\ dpc \in {"off", "exit"}
                 /\ encoder' = "deleted"
                 /\ outOn' = FALSE /\ capOn' = FALSE
                 /\ outQueue' = << >> /\ outDone' = << >> /\ capEmpty' = 0 /\ capDone' = << >>
                 /\ UNCHANGED <<raw, units, doShutdown, gotError, cameraVars, consumerVars, dqVars>>

ErrorJoin == /\ mpc = "errorjoin" /\ cpc \in {"done", "failed"}
             /\ doShutdown' = FALSE
             /\ mpc' = "done"
             /\ UNCHANGED <<raw, units, gotError, encoder, cameraVars, deviceVars, consumerVars,
                            dqVars>>

-----------------------------------------------------------------------------
Consumer == \/ CreateEncoder \/ ThreadInitialize \/ UseDeleted \/ RawInitialize \/ ThreadLoop
            \/ RawAcquire \/ RawRelease \/ PrimeAcquire \/ PrimeQueue \/ LoopTest \/ Dequeue
            \/ Release \/ AcquireNext \/ QueueFrame \/ SendEos \/ WaitForDQThread
Dq == DqBuffer \/ Deliver \/ Requeue \/ AbortOutput \/ AbortCapture \/ SetGotError
MainStep == \/ StartConsumer \/ WaitRunning \/ StartCapture \/ RequestShutdown \/ Join
            \/ CleanupUDP \/ SkipEncoder \/ DeinitOutput \/ DeinitCapture \/ DeleteEncoder
            \/ ErrorJoin
Next == Capture \/ Encode \/ Consumer \/ Dq \/ MainStep \/ StopCapture

Spec == Init /\ [][Next]_vars

(* Threads keep running and the device keeps encoding; a call that is blocked    *)
(* need not fail.  The wait loop of execute() is left when it sees an error; how  *)
(* long it lasts otherwise depends on CAPTURE_TIME, which may outlast the run.    *)
ConsumerBlocked == \/ cpc = "dequeue" /\ outOn /\ outDone = << >>
                   \/ /\ cpc \in {"primeacquire", "acquire", "rawacquire"}
                      /\ captured = << >> /\ ~ended
DqBlocked == dpc = "dq" /\ capOn /\ capDone = << >>
Fairness == /\ WF_vars(~ConsumerBlocked /\ Consumer) /\ WF_vars(~DqBlocked /\ Dq)
            /\ WF_vars(MainStep) /\ WF_vars(Encode)
            /\ WF_vars(gotError /\ StopCapture)
FairSpec == Spec /\ Fairness

-----------------------------------------------------------------------------
MainLabels == {"start", "waitrunning", "setup", "wait", "shutdown", "join", "cleanup", "udpjoin",
               "destroy", "deinit", "destroywait", "error", "errordeinit", "errorwait",
               "errorshutdown", "errorjoin", "done"}
ConsumerLabels == {"off", "init", "configure", "running", "rawacquire", "rawrelease",
                   "primeacquire", "primequeue", "loop", "dequeue", "release", "acquire", "queue",
                   "eos", "waitdq", "failed", "done"}
DqLabels == {"off", "dq", "callback", "requeue", "abort", "aborted", "exit"}

(* Types of the variables.                                                    *)
TypeOK == /\ mpc \in MainLabels /\ cpc \in ConsumerLabels /\ dpc \in DqLabels
          /\ doShutdown \in BOOLEAN /\ gotError \in BOOLEAN
          /\ encoder \in {"none", "there", "deleted"}
          /\ free \subseteq Buffers /\ captured \in Seq(Buffers) /\ ended \in BOOLEAN
          /\ held \in Buffers \cup {NoBuffer} /\ slot \in Slots
          /\ shared \in [Slots -> Buffers \cup {NoBuffer}]
          /\ outQueue \in Seq([slot : Slots, frame : 0..MaxFrames])
          /\ outDone \in Seq(Slots)
          /\ capEmpty \in 0..CaptureSlots /\ capDone \in Seq(0..MaxFrames)
          /\ frame \in 0..MaxFrames /\ outOn \in BOOLEAN /\ capOn \in BOOLEAN
          /\ made \in 0..MaxFrames /\ acquired \in 0..MaxFrames
          /\ output \in Seq(1..MaxFrames) /\ units \in Seq(0..MaxFrames) /\ raw \in BOOLEAN

(* A camera buffer is in one place: free for the camera, captured, in the       *)
(* consumer's hands, or in the encoder.  So the camera never fills a buffer the  *)
(* encoder reads.  None is missing until a failure or the end of the streams.    *)
(* And the consumer never queues a frame, or the end of the stream, in a slot     *)
(* the encoder still has; only after an abort the driver may have to refuse it.    *)
InEncoder == {shared[s] : s \in {t \in Slots : InDevice(t)}} \ {NoBuffer}
Waiting == {captured[i] : i \in 1..Len(captured)}
InHand == {held} \ {NoBuffer}
BuffersConserved ==
  /\ Cardinality(Waiting) = Len(captured)
  /\ \A s, t \in Slots : InDevice(s) /\ InDevice(t) /\ shared[s] = shared[t]
                         /\ shared[s] # NoBuffer => s = t
  /\ free \cap (Waiting \cup InHand \cup InEncoder) = {}
  /\ Waiting \cap (InHand \cup InEncoder) = {}
  /\ InHand \cap InEncoder = {}
  /\ outOn /\ ~gotError => free \cup Waiting \cup InHand \cup InEncoder = Buffers
  /\ cpc \in {"primequeue", "queue"} \/ (cpc = "eos" /\ ~gotError) => ~InDevice(slot)

(* Frames leave the encoder in the order they were acquired, none twice and      *)
(* none skipped, whatever fails on the way.                                       *)
FramesInOrder == \A i \in 1..Len(output) : output[i] = i

(* The latency the profiler takes of a frame that leaves the encoder is that       *)
(* frame's: while both planes stream, its oldest units are the frames in the         *)
(* device, in order, and only a frame whose QBUF failed may be left behind them.      *)
InDeviceFrames == capDone \o [i \in 1..Len(outQueue) |-> outQueue[i].frame]
LatencyOfOwnFrame ==
  outOn /\ capOn => /\ Len(units) - Len(InDeviceFrames) \in {0, 1}
                    /\ SubSeq(units, 1, Len(InDeviceFrames)) = InDeviceFrames

(* No consumer uses an encoder that ~ConsumerThread has deleted: execute() goes on   *)
(* only when "the consumer is connected to the stream" (main.cpp:1880).                *)
InUse == {"configure", "primequeue", "dequeue", "queue", "eos", "waitdq"}
NoUseAfterDelete == encoder = "deleted" => cpc \notin InUse

(* Once it is past threadInitialize it never does: although ~ConsumerThread deletes   *)
(* the encoder before ~Thread would join, a consumer that is still encoding was       *)
(* joined before, and one that was not has no frame to encode.                        *)
NoEncodingAfterDelete == encoder = "deleted" => cpc \notin InUse \ {"configure"}

(* When cleanupUDP runs after a consumer that ended normally, the DQ thread has    *)
(* ended, unless waitForDQThread gave up on it.  And if it did not end by an       *)
(* abort, every captured frame was delivered, or never left stream or consumer.    *)
DqThreadFinished ==
  ~raw /\ mpc = "cleanup" /\ cpc = "done" /\ ~gaveUp =>
    /\ dpc = "exit"
    /\ ~gotError => Len(output) + Len(captured) + Cardinality(InHand) = made

(* As long as the camera runs and nothing has failed, each frame to encode comes     *)
(* out: no buffer gets stuck, and camera, consumer, encoder and DQ thread never    *)
(* all wait.                                                                        *)
FramesFlow == \A n \in 1..MaxFrames :
                made >= n ~> \/ Len(output) >= n \/ raw
                             \/ ended \/ gotError
                             \/ cpc \in {"failed", "eos", "waitdq", "done"}

(* Once capture is stopped, and also when the DQ thread reports an error during a   *)
(* capture without a time limit, execute() returns and the encoder is gone, unless    *)
(* cleanupUDP hangs in its join, or a STREAMOFF failed: one of abort() leaves the      *)
(* consumer in its dequeue, the one of the destructor leaves the DQ thread in its.     *)
StopCompletes == mpc = "shutdown" \/ (mpc = "wait" /\ gotError) ~>
                   \/ mpc \in {"done", "udpjoin"}
                   \/ mpc = "join" /\ cpc = "dequeue" /\ gotError /\ outOn
                   \/ mpc = "destroywait" /\ dpc = "dq" /\ capOn
=============================================================================
