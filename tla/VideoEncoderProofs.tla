------------------------- MODULE VideoEncoderProofs -------------------------
(* Proofs about VideoEncoder, for any number of buffers, blocking or not, and    *)
(* for every order of calls and every call that fails.                           *)
EXTENDS VideoEncoder, FiniteSetTheorems, TLAPS

-----------------------------------------------------------------------------
(* Streams, as far as the controls depend on them: a plane streams only while it  *)
(* has buffers, since STREAMON needs them and REQBUFS(0) fails while it streams.   *)
StreamInv == /\ bufs \in [Planes -> Nat]
             /\ on \in [Planes -> BOOLEAN]
             /\ \A p \in Planes : on[p] => bufs[p] # 0

-----------------------------------------------------------------------------

LEMMA StepStream == StreamInv /\ [Next]_vars => StreamInv'
<1> SUFFICES ASSUME StreamInv, [Next]_vars PROVE StreamInv'
  OBVIOUS
<1> USE PlaneAssumption DEF StreamInv, Planes
<1>1. CASE UNCHANGED <<bufs, on>>
  BY <1>1
<1>2. ASSUME NEW p \in Planes, SetupPlane(p) PROVE StreamInv'
  BY <1>2 DEF SetupPlane, Indices
<1>3. CASE DeinitRelease
  BY <1>3 DEF DeinitRelease
<1>4. ASSUME NEW p \in Planes, StreamOn(p) PROVE StreamInv'
  BY <1>4 DEF StreamOn
<1>5. ASSUME NEW t \in Threads, StreamOff(t) PROVE StreamInv'
  BY <1>5, ZenonT(60) DEF StreamOff, deviceVars
<1>6. ASSUME App PROVE UNCHANGED <<bufs, on>> \/ \E p \in Planes : SetupPlane(p) \/ StreamOn(p)
  <2> USE DEF deviceVars, encoderVars, planeVars
  <2>1. CASE Control \/ SetCaptureFormat \/ SetOutputFormat \/ Start \/ QueueCapture
    BY <2>1 DEF Control, SetCaptureFormat, SetOutputFormat, SetFormat, Start, StartDQThread,
       QueueCapture
  <2>2. CASE SetupOutput \/ SetupCapture
    BY <2>2 DEF SetupOutput, SetupCapture, Setup
  <2>3. CASE StreamOutput \/ StreamCapture
    BY <2>3 DEF StreamOutput, StreamCapture, TurnOn, CannotTurnOn
  <2>4. CASE QueueBuffer \/ DequeueOutput \/ AppDequeue \/ Wait \/ OtherCall \/ Delete
    BY <2>4 DEF QueueBuffer, DequeueOutput, AppDequeue, DqIoctl, Wait, OtherCall, StopDQThread,
       Delete
  <2> QED
    BY <1>6, <2>1, <2>2, <2>3, <2>4 DEF App
<1>7. ASSUME DqThread PROVE UNCHANGED <<bufs, on>> \/ StreamOff("dq")
  BY <1>7 DEF DqThread, DqBegin, DqTest, DqDequeue, DqIoctl, DqCount, DqCallback, DqAgain,
     DqFailed, DqStreaming, DqLeave, DqEnd, StreamCheck, AbortNext
<1>8. ASSUME InCall PROVE UNCHANGED <<bufs, on>> \/ StreamOff("app") \/ DeinitRelease
  BY <1>8 DEF InCall, StreamCheck, AbortNext, DqCount, WaitForDQThread, Join, SetupBuffer
<1>9. ASSUME Device PROVE UNCHANGED <<bufs, on>>
  BY <1>9 DEF Device, Process
<1>10. "app" \in Threads /\ "dq" \in Threads
  BY DEF Threads
<1>11. CASE Next
  BY <1>1, <1>2, <1>3, <1>4, <1>5, <1>6, <1>7, <1>8, <1>9, <1>10, <1>11 DEF Next, Inner, Dq
<1>12. CASE UNCHANGED vars
  BY <1>12 DEF vars, planeVars
<1> QED
  BY <1>11, <1>12

THEOREM StreamsHaveBuffers == Spec => []StreamInv
<1>1. Init => StreamInv
  BY DEF Init, PlaneInit, StreamInv
<1>2. StreamInv /\ [Next]_vars => StreamInv'
  BY StepStream
<1> QED
  BY <1>1, <1>2, PTL DEF Spec

(* While both planes stream no control that shapes the stream is accepted any more,  *)
(* and queries that need buffers are, whatever order of calls led there.             *)
THEOREM ControlsStaySettled == Spec => []ControlsSettled
<1>1. StreamInv => ControlsSettled
  <2> SUFFICES ASSUME StreamInv, \A p \in Planes : on[p], NEW c \in Controls
               PROVE  /\ c \in BeforeBuffers => Refused(c)
                      /\ c \in Queries => ~Refused(c)
    BY DEF ControlsSettled
  <2>1. BuffersRequested /\ ~BuffersNotRequested
    BY DEF StreamInv, BuffersRequested, BuffersNotRequested
  <2>2. c \in Queries => /\ c \notin AnyTime \cup BeforeBuffers \cup FrameParams
                         /\ c \notin {"setProfile"} \cup AspectRatio
    BY DEF Queries, AnyTime, BeforeBuffers, FrameParams, AspectRatio, FrameAndBitrate,
       PeakBitrate, ForceIdr, Polling, ProfileAndLevel, RateAndGop, SliceAndPreset, Features,
       Av1AndBuffering, StreamShape, QpRange, VuiAndAud, PocAndInitQp, ChromaAndLossless
  <2> QED
    BY <2>1, <2>2 DEF Refused
<1> QED
  BY <1>1, StreamsHaveBuffers, PTL

-----------------------------------------------------------------------------
(* What BuffersOutliveThread rests on.  First the types.                          *)
Active == DqLabels \ {"off", "ended"}
ThreadTypes == /\ pc \in [Threads -> AppLabels \cup DqLabels]
               /\ pc["app"] \in AppLabels /\ pc["dq"] \in DqLabels
               /\ arg \in [Threads -> Planes]
               /\ ret \in [Threads -> AppLabels \cup DqLabels]
               /\ item \in [Threads -> Nat]
               /\ goal \in {"call", "setup", "delete"} /\ running \in BOOLEAN
BufferTypes == /\ DOMAIN where = Planes
               /\ \A p \in Planes : where[p] \in [Indices(p) -> Places]
               /\ mapped \subseteq 1..bufs["capture"]
               /\ \A p \in Planes : bufs[p] <= Requested[p]

(* Where a thread goes on after setStreamStatus(false): the DQ thread stays in its  *)
(* abort, and the application in what it has called.                               *)
Calls == /\ pc["dq"] \in {"check", "streamoff"} => ret["dq"] \in {"abort2", "leave"}
         /\ goal = "call" => /\ pc["app"] \notin {"release", "closed"}
                             /\ pc["app"] \in {"check", "streamoff"} =>
                                  ret["app"] \in {"ready", "abort2"}
         /\ goal # "call" => \/ pc["app"] \in {"waitdq", "join", "release", "closed", "undefined"}
                             \/ pc["app"] \in {"check", "streamoff"} /\ ret["app"] = "waitdq"

(* dqthread_running is set as long as the thread is not past its last section.      *)
Runs == pc["dq"] \in Active => running

(* Once the application has found it clear for the capture plane, nobody starts the  *)
(* thread again before the buffers are gone.                                       *)
Gone == \/ pc["app"] \in {"join", "release"} /\ arg["app"] = "capture"
        \/ pc["app"] = "closed"
        => pc["dq"] \notin Active

(* Capture buffers are mapped when setupPlane is done, one after the other.          *)
Mapped == /\ goal = "call" /\ pc["app"] \notin {"setup", "error"} =>
               mapped = 1..bufs["capture"]
          /\ pc["app"] = "setup" => /\ item["app"] \in 1..bufs["capture"]
                                    /\ mapped = 1..(item["app"] - 1)

(* During the set-up of the capture plane, and the clean-up after one that failed,   *)
(* the device has none of its buffers and the thread neither.                       *)
Quiet == pc["app"] = "setup" \/ (goal = "setup" /\ arg["app"] = "capture") =>
           /\ pc["dq"] \notin {"dequeued", "callback"}
           /\ \A i \in Indices("capture") : where["capture"][i] = "app"

(* Before the end only mapped buffers are with the device.                          *)
Lent == pc["app"] # "closed" =>
          \A i \in Indices("capture") : where["capture"][i] # "app" => i \in mapped

LifeInv == /\ ThreadTypes /\ BufferTypes /\ StreamInv /\ Calls /\ Runs /\ Gone
           /\ Mapped /\ Quiet /\ Lent /\ BuffersOutliveThread

(* Turning a plane off leaves no stream without buffers, and giving its buffers back  *)
(* leaves the other plane's as they were.                                            *)
LEMMA OffStream == ASSUME StreamInv, NEW p \in Planes, UNCHANGED bufs,
                          on' = [on EXCEPT ![p] = FALSE] \/ on' = on
                   PROVE  StreamInv'
  BY DEF StreamInv

LEMMA ReleaseTypes == ASSUME BufferTypes, bufs \in [Planes -> Nat], NEW p \in Planes,
                             mapped' = IF p = "capture" THEN {} ELSE mapped,
                             bufs' = [bufs EXCEPT ![p] = 0],
                             where' = [where EXCEPT ![p] = [i \in Indices(p) |-> "app"]]
                      PROVE  BufferTypes'
<1>1. DOMAIN where' = Planes /\ mapped' \subseteq 1..bufs'["capture"]
  BY DEF BufferTypes, Planes
<1>2. ASSUME NEW q \in Planes PROVE where'[q] \in [Indices(q) -> Places]
  <2>1. [i \in Indices(p) |-> "app"] \in [Indices(p) -> Places]
    BY DEF Places
  <2>2. q = p \/ where'[q] = where[q]
    BY DEF BufferTypes
  <2>3. q = p => where'[q] = [i \in Indices(p) |-> "app"]
    BY DEF BufferTypes
  <2> QED
    BY <2>1, <2>2, <2>3 DEF BufferTypes
<1>3. ASSUME NEW q \in Planes PROVE bufs'[q] <= Requested[q]
  <2>1. Requested[q] \in Nat
    BY PlaneAssumption
  <2>2. q = p => bufs'[q] = 0
    OBVIOUS
  <2>3. q # p => bufs'[q] = bufs[q]
    OBVIOUS
  <2> QED
    BY <2>1, <2>2, <2>3 DEF BufferTypes
<1> QED
  BY <1>1, <1>2, <1>3 DEF BufferTypes

LEMMA InCallLife == LifeInv /\ Alive /\ InCall => LifeInv'
<1> SUFFICES ASSUME LifeInv, Alive, InCall PROVE LifeInv'
  OBVIOUS
<1> USE PlaneAssumption DEF LifeInv, ThreadTypes, BufferTypes, StreamInv, Calls, Runs, Gone,
      Mapped, Quiet, Lent, BuffersOutliveThread, Active, AppLabels, DqLabels, Planes, Threads,
      Indices, Places, Goto, Moves, Returns, dqVars, deviceVars, threadVars
<1>1. CASE StreamCheck("app")
  BY <1>1, SMTT(40) DEF StreamCheck, AfterStreamOff
<1>2. CASE StreamOff("app")
  <2>1. ThreadTypes'
    BY <1>2 DEF StreamOff, AfterStreamOff
  <2>2. BufferTypes'
    BY <1>2, SMTT(40) DEF StreamOff, AfterStreamOff
  <2>3. StreamInv'
    <3>1. arg["app"] \in Planes /\ bufs' = bufs
      BY <1>2 DEF StreamOff
    <3>2. on' = [on EXCEPT ![arg["app"]] = FALSE] \/ on' = on
      BY <1>2 DEF StreamOff
    <3> QED
      BY <3>1, <3>2, OffStream
  <2>4. Calls'
    BY <1>2 DEF StreamOff, AfterStreamOff
  <2>5. Runs'
    BY <1>2 DEF StreamOff, AfterStreamOff
  <2>6. Gone'
    BY <1>2 DEF StreamOff, AfterStreamOff
  <2>7. Mapped'
    BY <1>2 DEF StreamOff, AfterStreamOff
  <2>8. Quiet'
    BY <1>2 DEF StreamOff, AfterStreamOff
  <2>9. Lent'
    BY <1>2 DEF StreamOff, AfterStreamOff
  <2>10. BuffersOutliveThread'
    BY <1>2 DEF StreamOff, AfterStreamOff
  <2> QED
    BY <2>1, <2>2, <2>3, <2>4, <2>5, <2>6, <2>7, <2>8, <2>9, <2>10
<1>3. CASE AbortNext("app")
  BY <1>3 DEF AbortNext, CallStreamOff
<1>4. CASE DqCount("app")
  BY <1>4, SMTT(40) DEF DqCount
<1>5. CASE WaitForDQThread
  BY <1>5, SMTT(40) DEF WaitForDQThread
<1>6. CASE Join
  BY <1>6, SMTT(40) DEF Join, AfterJoin
<1>7. CASE DeinitRelease
  <2>1. ThreadTypes'
    BY <1>7 DEF DeinitRelease, Deinit, CallStreamOff
  <2>2. BufferTypes'
    <3>1. arg["app"] \in Planes /\ mapped' = IF arg["app"] = "capture" THEN {} ELSE mapped
      BY <1>7 DEF DeinitRelease
    <3>2. CASE UNCHANGED <<bufs, where>>
      BY <3>1, <3>2
    <3>3. CASE /\ bufs' = [bufs EXCEPT ![arg["app"]] = 0]
               /\ where' = [where EXCEPT ![arg["app"]] =
                              [i \in Indices(arg["app"]) |-> "app"]]
      BY <3>1, <3>3, ReleaseTypes
    <3> QED
      BY <1>7, <3>2, <3>3 DEF DeinitRelease
  <2>3. StreamInv'
    BY <1>7 DEF DeinitRelease, Deinit, CallStreamOff
  <2>4. Calls'
    BY <1>7 DEF DeinitRelease, Deinit, CallStreamOff
  <2>5. Runs'
    BY <1>7 DEF DeinitRelease, Deinit, CallStreamOff
  <2>6. Gone'
    BY <1>7 DEF DeinitRelease, Deinit, CallStreamOff
  <2>7. Mapped'
    BY <1>7 DEF DeinitRelease, Deinit, CallStreamOff
  <2>8. Quiet'
    BY <1>7 DEF DeinitRelease, Deinit, CallStreamOff
  <2>9. Lent'
    BY <1>7, SMTT(40) DEF DeinitRelease, Deinit, CallStreamOff
  <2>10. BuffersOutliveThread'
    BY <1>7 DEF DeinitRelease, Deinit, CallStreamOff
  <2> QED
    BY <2>1, <2>2, <2>3, <2>4, <2>5, <2>6, <2>7, <2>8, <2>9, <2>10
<1>8. CASE SetupBuffer
  <2>1. ThreadTypes'
    BY <1>8, SMTT(40) DEF SetupBuffer, Deinit, CallStreamOff
  <2>2. BufferTypes'
    BY <1>8, SMTT(40) DEF SetupBuffer, Deinit, CallStreamOff
  <2>3. StreamInv'
    BY <1>8 DEF SetupBuffer, Deinit, CallStreamOff
  <2>4. Calls'
    BY <1>8, SMTT(40) DEF SetupBuffer, Deinit, CallStreamOff
  <2>5. Runs'
    BY <1>8 DEF SetupBuffer, Deinit, CallStreamOff
  <2>6. Gone'
    BY <1>8, SMTT(40) DEF SetupBuffer, Deinit, CallStreamOff
  <2>7. Mapped'
    <3>1. CASE UNCHANGED mapped /\ Deinit("capture", "setup")
      BY <1>8, <3>1 DEF SetupBuffer, Deinit, CallStreamOff
    <3>2. CASE mapped' = mapped \cup {item["app"]}
      <4>1. mapped' = 1..item["app"] /\ item["app"] \in 1..bufs["capture"]
        BY <1>8, <3>2, SMTT(40) DEF SetupBuffer
      <4> QED
        BY <1>8, <4>1, SMTT(40) DEF SetupBuffer, Deinit, CallStreamOff
    <3> QED
      BY <1>8, <3>1, <3>2 DEF SetupBuffer
  <2>8. Quiet'
    BY <1>8 DEF SetupBuffer, Deinit, CallStreamOff
  <2>9. Lent'
    BY <1>8 DEF SetupBuffer, Deinit, CallStreamOff
  <2>10. BuffersOutliveThread'
    BY <1>8 DEF SetupBuffer, Deinit, CallStreamOff
  <2> QED
    BY <2>1, <2>2, <2>3, <2>4, <2>5, <2>6, <2>7, <2>8, <2>9, <2>10
<1> QED
  BY <1>1, <1>2, <1>3, <1>4, <1>5, <1>6, <1>7, <1>8 DEF InCall

(* A buffer or a whole plane of buffers that changes places.                          *)
LEMMA PlacePlane == ASSUME BufferTypes, UNCHANGED <<bufs, mapped>>, NEW p \in Planes,
                           NEW f \in [Indices(p) -> Places], where' = [where EXCEPT ![p] = f]
                    PROVE  BufferTypes'
<1>1. DOMAIN where' = Planes
  BY DEF BufferTypes
<1>2. ASSUME NEW q \in Planes PROVE where'[q] \in [Indices(q) -> Places]
  <2>1. q = p => where'[q] = f
    BY DEF BufferTypes
  <2>2. q # p => where'[q] = where[q]
    BY DEF BufferTypes
  <2> QED
    BY <2>1, <2>2 DEF BufferTypes
<1> QED
  BY <1>1, <1>2 DEF BufferTypes

LEMMA PlaceIn == ASSUME NEW S, NEW f \in [S -> Places], NEW i, NEW x \in Places
                 PROVE  [f EXCEPT ![i] = x] \in [S -> Places]
  OBVIOUS

LEMMA PlaceOne == ASSUME BufferTypes, UNCHANGED <<bufs, mapped>>, NEW p \in Planes,
                         NEW i, NEW x \in Places, where' = [where EXCEPT ![p][i] = x]
                  PROVE  BufferTypes'
<1>1. where[p] \in [Indices(p) -> Places]
  BY DEF BufferTypes
<1>2. [where[p] EXCEPT ![i] = x] \in [Indices(p) -> Places]
  BY <1>1
<1>3. where' = [where EXCEPT ![p] = [where[p] EXCEPT ![i] = x]]
  BY DEF BufferTypes
<1> QED
  BY <1>2, <1>3, PlacePlane

LEMMA DqLife == LifeInv /\ Alive /\ DqThread => LifeInv'
<1> SUFFICES ASSUME LifeInv, Alive, DqThread PROVE LifeInv'
  OBVIOUS
<1> USE PlaneAssumption DEF LifeInv, ThreadTypes, BufferTypes, StreamInv, Calls, Runs, Gone,
      Mapped, Quiet, Lent, BuffersOutliveThread, Active, AppLabels, DqLabels, Planes, Threads,
      Indices, Places, Goto, Moves, Returns, dqVars, deviceVars, threadVars
<1>1. CASE StreamCheck("dq")
  BY <1>1, SMTT(40) DEF StreamCheck, AfterStreamOff
<1>2. CASE StreamOff("dq")
  <2>1. ThreadTypes'
    BY <1>2 DEF StreamOff, AfterStreamOff
  <2>2. BufferTypes'
    <3>1. arg["dq"] \in Planes /\ UNCHANGED <<bufs, mapped>>
      BY <1>2 DEF StreamOff
    <3>2. \/ where' = [where EXCEPT ![arg["dq"]] = [i \in Indices(arg["dq"]) |-> "app"]]
          \/ UNCHANGED where
      BY <1>2 DEF StreamOff
    <3>3. [i \in Indices(arg["dq"]) |-> "app"] \in [Indices(arg["dq"]) -> Places]
      OBVIOUS
    <3> QED
      BY <3>1, <3>2, <3>3, PlacePlane, SMTT(40)
  <2>3. StreamInv'
    <3>1. arg["dq"] \in Planes /\ bufs' = bufs
      BY <1>2 DEF StreamOff
    <3>2. on' = [on EXCEPT ![arg["dq"]] = FALSE] \/ on' = on
      BY <1>2 DEF StreamOff
    <3> QED
      BY <3>1, <3>2, OffStream
  <2>4. Calls'
    BY <1>2 DEF StreamOff, AfterStreamOff
  <2>5. Runs'
    BY <1>2 DEF StreamOff, AfterStreamOff
  <2>6. Gone'
    BY <1>2 DEF StreamOff, AfterStreamOff
  <2>7. Mapped'
    BY <1>2 DEF StreamOff, AfterStreamOff
  <2>8. Quiet'
    BY <1>2, SMTT(40) DEF StreamOff, AfterStreamOff
  <2>9. Lent'
    BY <1>2, SMTT(40) DEF StreamOff, AfterStreamOff
  <2>10. BuffersOutliveThread'
    BY <1>2 DEF StreamOff, AfterStreamOff
  <2> QED
    BY <2>1, <2>2, <2>3, <2>4, <2>5, <2>6, <2>7, <2>8, <2>9, <2>10
<1>3. CASE AbortNext("dq")
  BY <1>3 DEF AbortNext, CallStreamOff
<1>4. CASE DqCount("dq")
  BY <1>4, SMTT(40) DEF DqCount
<1>5. CASE DqBegin
  BY <1>5 DEF DqBegin
<1>10. CASE DqTest
  BY <1>10 DEF DqTest
<1>11. CASE DqAgain
  BY <1>11 DEF DqAgain
<1>6. CASE DqDequeue
  <2>1. ThreadTypes'
    BY <1>6, SMTT(40) DEF DqDequeue, DqIoctl
  <2>2. BufferTypes'
    <3>1. UNCHANGED <<bufs, mapped>> /\ "capture" \in Planes /\ "app" \in Places
      BY <1>6 DEF DqDequeue, DqIoctl
    <3>2. UNCHANGED where \/ \E i : where' = [where EXCEPT !["capture"][i] = "app"]
      BY <1>6 DEF DqDequeue, DqIoctl
    <3> QED
      BY <3>1, <3>2, PlaceOne
  <2>3. StreamInv'
    BY <1>6 DEF DqDequeue, DqIoctl
  <2>4. Calls'
    BY <1>6, SMTT(40) DEF DqDequeue, DqIoctl
  <2>5. Runs'
    BY <1>6 DEF DqDequeue, DqIoctl
  <2>6. Gone'
    BY <1>6 DEF DqDequeue, DqIoctl
  <2>7. Mapped'
    BY <1>6 DEF DqDequeue, DqIoctl
  <2>8. Quiet'
    BY <1>6, SMTT(40) DEF DqDequeue, DqIoctl
  <2>9. Lent'
    BY <1>6, SMTT(40) DEF DqDequeue, DqIoctl
  <2>10. BuffersOutliveThread'
    BY <1>6 DEF DqDequeue, DqIoctl
  <2> QED
    BY <2>1, <2>2, <2>3, <2>4, <2>5, <2>6, <2>7, <2>8, <2>9, <2>10
<1>7. CASE DqCallback
  <2>1. ThreadTypes'
    BY <1>7, SMTT(40) DEF DqCallback, Queue, Abort, CallStreamOff
  <2>2. BufferTypes'
    <3>1. UNCHANGED <<bufs, mapped>> /\ "capture" \in Planes /\ "queued" \in Places
      BY <1>7 DEF DqCallback, Queue, Abort, CallStreamOff
    <3>2. UNCHANGED where \/ \E i : where' = [where EXCEPT !["capture"][i] = "queued"]
      BY <1>7 DEF DqCallback, Queue, Abort, CallStreamOff
    <3> QED
      BY <3>1, <3>2, PlaceOne
  <2>3. StreamInv'
    BY <1>7 DEF DqCallback, Queue, Abort, CallStreamOff
  <2>4. Calls'
    BY <1>7, SMTT(40) DEF DqCallback, Queue, Abort, CallStreamOff
  <2>5. Runs'
    BY <1>7 DEF DqCallback, Queue, Abort, CallStreamOff
  <2>6. Gone'
    BY <1>7 DEF DqCallback, Queue, Abort, CallStreamOff
  <2>7. Mapped'
    BY <1>7 DEF DqCallback, Queue, Abort, CallStreamOff
  <2>8. Quiet'
    BY <1>7 DEF DqCallback, Queue, Abort, CallStreamOff
  <2>9. Lent'
    BY <1>7 DEF DqCallback, Queue, Abort, CallStreamOff
  <2>10. BuffersOutliveThread'
    BY <1>7 DEF DqCallback, Queue, Abort, CallStreamOff
  <2> QED
    BY <2>1, <2>2, <2>3, <2>4, <2>5, <2>6, <2>7, <2>8, <2>9, <2>10
<1>8. CASE DqFailed
  BY <1>8, SMTT(40) DEF DqFailed, Abort, CallStreamOff
<1>9. CASE DqStreaming
  BY <1>9, SMTT(40) DEF DqStreaming
<1>12. CASE DqLeave
  BY <1>12 DEF DqLeave
<1>13. CASE DqEnd
  <2>1. /\ UNCHANGED <<bufs, mapped, on, where, arg, ret, item, goal>> /\ running' = FALSE
        /\ pc["dq"] = "ending" /\ pc' = [pc EXCEPT !["dq"] = "ended"]
    BY <1>13 DEF DqEnd
  <2>2. /\ pc'["dq"] = "ended" /\ pc'["app"] = pc["app"]
        /\ pc' \in [Threads -> AppLabels \cup DqLabels]
    BY <2>1
  <2>3. ThreadTypes'
    BY <2>1, <2>2
  <2>4. BufferTypes'
    BY <2>1, <2>2
  <2>5. StreamInv'
    BY <2>1, <2>2
  <2>6. Calls'
    BY <2>1, <2>2
  <2>7. Runs'
    BY <2>1, <2>2
  <2>8. Gone'
    BY <2>1, <2>2
  <2>9. Mapped'
    BY <2>1, <2>2
  <2>10. Quiet'
    BY <2>1, <2>2
  <2>11. Lent'
    BY <2>1, <2>2, SMTT(40)
  <2>12. BuffersOutliveThread'
    BY <2>1, <2>2
  <2> QED
    BY <2>3, <2>4, <2>5, <2>6, <2>7, <2>8, <2>9, <2>10, <2>11, <2>12
<1> QED
  BY <1>1, <1>2, <1>3, <1>4, <1>5, <1>6, <1>7, <1>8, <1>9,
     <1>10, <1>11, <1>12, <1>13 DEF DqThread

LEMMA AppLife == LifeInv /\ Alive /\ App => LifeInv'
<1> SUFFICES ASSUME LifeInv, Alive, App PROVE LifeInv'
  OBVIOUS
<1> USE PlaneAssumption DEF LifeInv, ThreadTypes, BufferTypes, StreamInv, Calls, Runs, Gone,
      Mapped, Quiet, Lent, BuffersOutliveThread, Active, AppLabels, DqLabels, Planes, Threads,
      Indices, Places, Goto, Moves, Returns, dqVars, deviceVars, threadVars, encoderVars
<1>1. CASE Control
  BY <1>1, SMTT(40) DEF Control, At, Fails
<1>2. CASE SetCaptureFormat \/ SetOutputFormat
  BY <1>2, SMTT(40) DEF SetCaptureFormat, SetOutputFormat, SetFormat, At
<1>3. CASE SetupOutput
  <2>1. ThreadTypes'
    <3>1. CASE Deinit("output", "setup")
      BY <1>3, <3>1 DEF SetupOutput, Setup, At, SetupPlane, Deinit, CallStreamOff
    <3>2. CASE /\ Goto("app", "ready") /\ item' = [item EXCEPT !["app"] = 1]
               /\ UNCHANGED <<arg, ret, goal>>
      BY <1>3, <3>2 DEF SetupOutput, Setup, At, SetupPlane
    <3> QED
      BY <1>3, <3>1, <3>2 DEF SetupOutput, Setup, SetupPlane
  <2>2. BufferTypes'
    BY <1>3, SMTT(40) DEF SetupOutput, Setup, At, SetupPlane, Deinit, CallStreamOff
  <2>3. StreamInv'
    BY <1>3 DEF SetupOutput, Setup, At, SetupPlane, Deinit, CallStreamOff
  <2>4. Calls'
    BY <1>3 DEF SetupOutput, Setup, At, SetupPlane, Deinit, CallStreamOff
  <2>5. Runs'
    BY <1>3 DEF SetupOutput, Setup, At, SetupPlane, Deinit, CallStreamOff
  <2>6. Gone'
    BY <1>3 DEF SetupOutput, Setup, At, SetupPlane, Deinit, CallStreamOff
  <2>7. Mapped'
    BY <1>3, SMTT(40) DEF SetupOutput, Setup, At, SetupPlane, Deinit, CallStreamOff
  <2>8. Quiet'
    BY <1>3 DEF SetupOutput, Setup, At, SetupPlane, Deinit, CallStreamOff
  <2>9. Lent'
    BY <1>3 DEF SetupOutput, Setup, At, SetupPlane, Deinit, CallStreamOff
  <2>10. BuffersOutliveThread'
    BY <1>3, SMTT(40) DEF SetupOutput, Setup, At, SetupPlane, Deinit, CallStreamOff
  <2> QED
    BY <2>1, <2>2, <2>3, <2>4, <2>5, <2>6, <2>7, <2>8, <2>9, <2>10
<1>4. CASE SetupCapture
  <2>1. ThreadTypes'
    BY <1>4 DEF SetupCapture, Setup, At, SetupPlane, Deinit, CallStreamOff
  <2>2. BufferTypes'
    <3>1. UNCHANGED <<where, mapped>> /\ bufs["capture"] = 0
      BY <1>4 DEF SetupCapture, Setup, SetupPlane
    <3>2. mapped = {}
      BY <3>1
    <3>3. \/ UNCHANGED bufs
          \/ \E n \in 1..Requested["capture"] : bufs' = [bufs EXCEPT !["capture"] = n]
      BY <1>4 DEF SetupCapture, Setup, SetupPlane
    <3>4. \A p \in Planes : bufs'[p] <= Requested[p]
      BY <3>3
    <3> QED
      BY <3>1, <3>2, <3>4
  <2>3. StreamInv'
    BY <1>4 DEF SetupCapture, Setup, At, SetupPlane, Deinit, CallStreamOff
  <2>4. Calls'
    BY <1>4 DEF SetupCapture, Setup, At, SetupPlane, Deinit, CallStreamOff
  <2>5. Runs'
    BY <1>4 DEF SetupCapture, Setup, At, SetupPlane, Deinit, CallStreamOff
  <2>6. Gone'
    BY <1>4 DEF SetupCapture, Setup, At, SetupPlane, Deinit, CallStreamOff
  <2>7. Mapped'
    <3>1. UNCHANGED mapped /\ bufs["capture"] = 0
      BY <1>4 DEF SetupCapture, Setup, SetupPlane
    <3>2. mapped = {}
      BY <3>1
    <3>3. CASE Deinit("capture", "setup")
      BY <1>4, <3>3 DEF SetupCapture, Setup, At, SetupPlane, Deinit, CallStreamOff
    <3>4. CASE /\ \E n \in Indices("capture") : bufs' = [bufs EXCEPT !["capture"] = n]
               /\ Goto("app", "setup") /\ item' = [item EXCEPT !["app"] = 1]
      <4>1. /\ bufs'["capture"] \in Nat /\ bufs'["capture"] >= 1
            /\ pc'["app"] = "setup" /\ item'["app"] = 1
        BY <3>4
      <4>2. mapped' = 1..(item'["app"] - 1)
        BY <3>1, <3>2, <4>1
      <4> QED
        BY <4>1, <4>2
    <3> QED
      BY <1>4, <3>3, <3>4 DEF SetupCapture, Setup, SetupPlane
  <2>8. Quiet'
    BY <1>4 DEF SetupCapture, Setup, At, SetupPlane, Deinit, CallStreamOff
  <2>9. Lent'
    BY <1>4 DEF SetupCapture, Setup, At, SetupPlane, Deinit, CallStreamOff
  <2>10. BuffersOutliveThread'
    BY <1>4 DEF SetupCapture, Setup, At, SetupPlane, Deinit, CallStreamOff
  <2> QED
    BY <2>1, <2>2, <2>3, <2>4, <2>5, <2>6, <2>7, <2>8, <2>9, <2>10
<1>5. CASE StreamOutput \/ StreamCapture
  <2>1. ThreadTypes'
    BY <1>5 DEF StreamOutput, StreamCapture, TurnOn, CannotTurnOn, At, StreamOn
  <2>2. BufferTypes'
    BY <1>5 DEF StreamOutput, StreamCapture, TurnOn, CannotTurnOn, At, StreamOn
  <2>3. StreamInv'
    <3>1. Next /\ StreamInv
      BY <1>5 DEF Next, App
    <3> QED
      BY <3>1, StepStream
  <2>4. Calls'
    BY <1>5 DEF StreamOutput, StreamCapture, TurnOn, CannotTurnOn, At, StreamOn
  <2>5. Runs'
    BY <1>5 DEF StreamOutput, StreamCapture, TurnOn, CannotTurnOn, At, StreamOn
  <2>6. Gone'
    BY <1>5 DEF StreamOutput, StreamCapture, TurnOn, CannotTurnOn, At, StreamOn
  <2>7. Mapped'
    BY <1>5 DEF StreamOutput, StreamCapture, TurnOn, CannotTurnOn, At, StreamOn
  <2>8. Quiet'
    BY <1>5 DEF StreamOutput, StreamCapture, TurnOn, CannotTurnOn, At, StreamOn
  <2>9. Lent'
    BY <1>5 DEF StreamOutput, StreamCapture, TurnOn, CannotTurnOn, At, StreamOn
  <2>10. BuffersOutliveThread'
    BY <1>5 DEF StreamOutput, StreamCapture, TurnOn, CannotTurnOn, At, StreamOn
  <2> QED
    BY <2>1, <2>2, <2>3, <2>4, <2>5, <2>6, <2>7, <2>8, <2>9, <2>10
<1>6. CASE Start
  BY <1>6, SMTT(40) DEF Start, At, StartDQThread
<1>7. CASE QueueCapture
  <2>1. ThreadTypes'
    BY <1>7, SMTT(40) DEF QueueCapture, Queue, Fails
  <2>2. BufferTypes'
    BY <1>7, SMTT(40) DEF QueueCapture, Queue, Fails
  <2>3. StreamInv'
    BY <1>7 DEF QueueCapture, Queue, Fails
  <2>4. Calls'
    BY <1>7 DEF QueueCapture, Queue, Fails
  <2>5. Runs'
    BY <1>7 DEF QueueCapture, Queue, Fails
  <2>6. Gone'
    BY <1>7 DEF QueueCapture, Queue, Fails
  <2>7. Mapped'
    BY <1>7 DEF QueueCapture, Queue, Fails
  <2>8. Quiet'
    BY <1>7 DEF QueueCapture, Queue, Fails
  <2>9. Lent'
    BY <1>7 DEF QueueCapture, Queue, Fails
  <2>10. BuffersOutliveThread'
    BY <1>7 DEF QueueCapture, Queue, Fails
  <2> QED
    BY <2>1, <2>2, <2>3, <2>4, <2>5, <2>6, <2>7, <2>8, <2>9, <2>10
<1>8. CASE QueueBuffer
  BY <1>8, SMTT(40) DEF QueueBuffer, Later, Queue
<1>9. CASE DequeueOutput
  BY <1>9 DEF DequeueOutput, Later
<1>10. CASE AppDequeue
  <2>1. ThreadTypes'
    BY <1>10, SMTT(40) DEF AppDequeue, DqIoctl
  <2>2. BufferTypes'
    <3>1. UNCHANGED <<bufs, mapped>> /\ "output" \in Planes /\ "app" \in Places
      BY <1>10 DEF AppDequeue, DqIoctl
    <3>2. UNCHANGED where \/ \E i : where' = [where EXCEPT !["output"][i] = "app"]
      BY <1>10 DEF AppDequeue, DqIoctl
    <3> QED
      BY <3>1, <3>2, PlaceOne
  <2>3. StreamInv'
    BY <1>10 DEF AppDequeue, DqIoctl
  <2>4. Calls'
    BY <1>10 DEF AppDequeue, DqIoctl
  <2>5. Runs'
    BY <1>10 DEF AppDequeue, DqIoctl
  <2>6. Gone'
    BY <1>10 DEF AppDequeue, DqIoctl
  <2>7. Mapped'
    BY <1>10 DEF AppDequeue, DqIoctl
  <2>8. Quiet'
    BY <1>10, SMTT(40) DEF AppDequeue, DqIoctl
  <2>9. Lent'
    BY <1>10, SMTT(40) DEF AppDequeue, DqIoctl
  <2>10. BuffersOutliveThread'
    BY <1>10 DEF AppDequeue, DqIoctl
  <2> QED
    BY <2>1, <2>2, <2>3, <2>4, <2>5, <2>6, <2>7, <2>8, <2>9, <2>10
<1>11. CASE Wait
  BY <1>11 DEF Wait, Later
<1>12. CASE OtherCall
  BY <1>12, SMTT(40) DEF OtherCall, Later, StopDQThread, CallStreamOff, Abort
<1>13. CASE Delete
  BY <1>13, SMTT(40) DEF Delete, Deinit, CallStreamOff
<1> QED
  BY <1>1, <1>2, <1>3, <1>4, <1>5, <1>6, <1>7, <1>8, <1>9, <1>10, <1>11, <1>12, <1>13 DEF App

LEMMA ProcessTypes == ASSUME BufferTypes, Process PROVE BufferTypes'
<1>1. PICK i \in Indices("output"), j \in Indices("capture") :
             where' = [where EXCEPT !["output"][i] = "done", !["capture"][j] = "done"]
  BY DEF Process
<1>2. /\ where["output"] \in [Indices("output") -> Places] /\ DOMAIN where = Planes
      /\ where["capture"] \in [Indices("capture") -> Places] /\ "done" \in Places
  BY DEF BufferTypes, Planes, Places
<1>3. where'["output"] = [where["output"] EXCEPT ![i] = "done"]
  BY <1>1, <1>2 DEF Planes
<1>4. where'["capture"] = [where["capture"] EXCEPT ![j] = "done"]
  BY <1>1, <1>2 DEF Planes
<1>5. DOMAIN where' = Planes /\ UNCHANGED <<bufs, mapped>>
  BY <1>1, <1>2 DEF Process
<1>6. where'["output"] \in [Indices("output") -> Places]
  BY <1>2, <1>3, PlaceIn
<1>7. where'["capture"] \in [Indices("capture") -> Places]
  BY <1>2, <1>4, PlaceIn
<1> QED
  BY <1>5, <1>6, <1>7 DEF BufferTypes, Planes

LEMMA DeviceLife == LifeInv /\ Device => LifeInv'
<1> SUFFICES ASSUME LifeInv, Device PROVE LifeInv'
  OBVIOUS
<1> USE PlaneAssumption DEF LifeInv, ThreadTypes, BufferTypes, StreamInv, Calls, Runs, Gone,
      Mapped, Quiet, Lent, BuffersOutliveThread, Active, Planes, Threads,
      Indices, Places, threadVars, dqVars, encoderVars, Device, Process
<1>1. ThreadTypes'
  OBVIOUS
<1>2. BufferTypes'
  BY ProcessTypes
<1>3. StreamInv'
  OBVIOUS
<1>4. Calls'
  OBVIOUS
<1>5. Runs'
  OBVIOUS
<1>6. Gone'
  OBVIOUS
<1>7. Mapped'
  OBVIOUS
<1>8. Quiet'
  OBVIOUS
<1>9. Lent'
  OBVIOUS
<1>10. BuffersOutliveThread'
  OBVIOUS
<1> QED
  BY <1>1, <1>2, <1>3, <1>4, <1>5, <1>6, <1>7, <1>8, <1>9, <1>10

LEMMA StepLife == LifeInv /\ [Next]_vars => LifeInv'
<1>1. LifeInv /\ UNCHANGED vars => LifeInv'
  BY DEF vars, planeVars, deviceVars, dqVars, threadVars, LifeInv, ThreadTypes, BufferTypes,
     StreamInv, Calls, Runs, Gone, Mapped, Quiet, Lent, BuffersOutliveThread
<1> QED
  BY <1>1, AppLife, InCallLife, DqLife, DeviceLife DEF Next, Inner, Dq

THEOREM LifeInvariant == Spec => []LifeInv
<1>1. ASSUME Init PROVE LifeInv
  <2> USE <1>1, PlaneAssumption DEF Init, PlaneInit, ThreadTypes, BufferTypes, StreamInv, Calls,
          Runs, Gone, Mapped, Quiet, Lent, BuffersOutliveThread, Active, AppLabels, DqLabels,
          Planes, Threads, Indices, Places
  <2>1. ThreadTypes
    <3>1. pc = [app |-> "ready", dq |-> "off"] /\ item = [t \in Threads |-> 1]
      OBVIOUS
    <3>2. pc \in [Threads -> AppLabels \cup DqLabels] /\ item \in [Threads -> Nat]
      BY <3>1
    <3> QED
      BY <3>2
  <2>2. BufferTypes
    OBVIOUS
  <2>3. StreamInv
    OBVIOUS
  <2>4. Calls
    OBVIOUS
  <2>5. Runs
    OBVIOUS
  <2>6. Gone
    OBVIOUS
  <2>7. Mapped
    OBVIOUS
  <2>8. Quiet
    OBVIOUS
  <2>9. Lent
    OBVIOUS
  <2>10. BuffersOutliveThread
    OBVIOUS
  <2> QED
    BY <2>1, <2>2, <2>3, <2>4, <2>5, <2>6, <2>7, <2>8, <2>9, <2>10 DEF LifeInv
<1> QED
  BY <1>1, StepLife, PTL DEF Spec

(* Whatever the order of calls and failures, the capture buffer that the DQ thread  *)
(* has dequeued, or that its callback works on, is still allocated and mapped.        *)
THEOREM BuffersOutlive == Spec => []BuffersOutliveThread
<1>1. LifeInv => BuffersOutliveThread
  BY DEF LifeInv
<1> QED
  BY <1>1, LifeInvariant, PTL

-----------------------------------------------------------------------------
(* The rest of the types.                                                           *)
FlagTypes == /\ blocking \in BOOLEAN /\ stop \in BOOLEAN /\ handle \in BOOLEAN
             /\ broken \in BOOLEAN
             /\ client \in {"consumer", "other"}
             /\ codec \in IF client = "consumer" THEN {"H264", "H265"} ELSE {"VP8"}

LEMMA ClientKept == [Next]_vars => UNCHANGED <<client, codec, blocking>>
<1> USE DEF dqVars, deviceVars, encoderVars
<1>1. App => UNCHANGED <<client, codec, blocking>>
  BY ZenonT(60) DEF App, Control, At, SetCaptureFormat, SetOutputFormat, SetFormat, SetupOutput,
     SetupCapture, Setup, SetupPlane, StreamOutput, StreamCapture, TurnOn, StreamOn,
     CannotTurnOn, Start, StartDQThread, QueueCapture, QueueBuffer, Later, DequeueOutput,
     AppDequeue, DqIoctl, Wait, OtherCall, StopDQThread, Delete
<1>2. Inner \/ Dq \/ Device => UNCHANGED <<client, codec, blocking>>
  BY ZenonT(60) DEF Inner, Dq, Device, InCall, DqThread, StreamCheck, StreamOff, AbortNext,
     DqCount, WaitForDQThread, Join, DeinitRelease, SetupBuffer, DqBegin, DqTest, DqDequeue,
     DqIoctl, DqCallback, DqAgain, DqFailed, DqStreaming, DqLeave, DqEnd, Process
<1>3. UNCHANGED vars => UNCHANGED <<client, codec, blocking>>
  BY DEF vars, planeVars
<1> QED
  BY <1>1, <1>2, <1>3, Zenon DEF Next

LEMMA FlagStep == FlagTypes /\ [Next]_vars => FlagTypes'
<1> SUFFICES ASSUME FlagTypes, [Next]_vars PROVE FlagTypes'
  OBVIOUS
<1> USE DEF dqVars, deviceVars, FlagTypes
<1>1. App => stop' \in BOOLEAN /\ handle' \in BOOLEAN /\ broken' \in BOOLEAN
  BY ZenonT(60) DEF App, Control, SetCaptureFormat, SetOutputFormat, SetFormat,
     SetupOutput, SetupCapture, Setup, SetupPlane, StreamOutput, StreamCapture, TurnOn, StreamOn,
     CannotTurnOn, Start, StartDQThread, QueueCapture, QueueBuffer, DequeueOutput,
     AppDequeue, DqIoctl, Wait, OtherCall, StopDQThread, Delete
<1>2. Inner \/ Dq \/ Device => stop' \in BOOLEAN /\ handle' \in BOOLEAN /\ broken' \in BOOLEAN
  BY ZenonT(60) DEF Inner, Dq, Device, InCall, DqThread, StreamCheck, StreamOff,
     AbortNext, DqCount, WaitForDQThread, Join, DeinitRelease, SetupBuffer, DqBegin, DqTest,
     DqDequeue, DqIoctl, DqCallback, DqAgain, DqFailed, DqStreaming, DqLeave, DqEnd, Process
<1>3. UNCHANGED vars => stop' \in BOOLEAN /\ handle' \in BOOLEAN /\ broken' \in BOOLEAN
  BY DEF vars, planeVars
<1>4. stop' \in BOOLEAN /\ handle' \in BOOLEAN /\ broken' \in BOOLEAN
  BY <1>1, <1>2, <1>3, Zenon DEF Next
<1> QED
  BY <1>4, ClientKept

(* A buffer in a thread's hands is one of a plane's.                                 *)
ItemTypes == item \in [Threads -> Indices("output") \cup Indices("capture")]

LEMMA ItemStep == LifeInv /\ ItemTypes /\ [Next]_vars => ItemTypes'
<1> SUFFICES ASSUME LifeInv, ItemTypes, [Next]_vars PROVE ItemTypes'
  OBVIOUS
<1>1. /\ Requested["output"] \in Nat \ {0} /\ Requested["capture"] \in Nat \ {0}
      /\ bufs["capture"] \in Nat /\ bufs["capture"] <= Requested["capture"]
      /\ pc["app"] = "setup" => item["app"] \in 1..bufs["capture"]
  BY PlaneAssumption DEF Planes, LifeInv, StreamInv, BufferTypes, Mapped
<1>2. ASSUME NEW t \in Threads, NEW i \in Indices("output") \cup Indices("capture"),
             item' = [item EXCEPT ![t] = i]
      PROVE  ItemTypes'
  BY <1>2 DEF ItemTypes
<1>3. "app" \in Threads /\ "dq" \in Threads /\ 1 \in Indices("output")
  BY <1>1 DEF Threads, Indices
<1>4. CASE UNCHANGED item
  BY <1>4 DEF ItemTypes
<1>5. CASE \E t \in Threads : item' = [item EXCEPT ![t] = 1]
  BY <1>2, <1>3, <1>5
<1>6. ASSUME NEW t \in Threads, NEW p \in Planes, DqIoctl(t, p) PROVE ItemTypes'
  <2>1. \/ item' = [item EXCEPT ![t] = 1]
        \/ \E i \in Indices(p) : item' = [item EXCEPT ![t] = i]
    BY <1>6, Zenon DEF DqIoctl, Returns
  <2>2. Indices(p) \subseteq Indices("output") \cup Indices("capture")
    BY DEF Planes
  <2> QED
    BY <1>2, <1>3, <2>1, <2>2
<1>7. ASSUME SetupBuffer \/ QueueCapture PROVE ItemTypes'
  <2>1. \/ item' = [item EXCEPT !["app"] = 1] \/ UNCHANGED item
        \/ item["app"] < bufs["capture"] /\ item' = [item EXCEPT !["app"] = item["app"] + 1]
    BY <1>7, Zenon DEF SetupBuffer, QueueCapture, Fails, Moves, Deinit
  <2>2. item["app"] < bufs["capture"] => item["app"] + 1 \in Indices("capture")
    <3>1. item["app"] \in Nat
      BY DEF LifeInv, ThreadTypes, Threads
    <3> QED
      BY <1>1, <3>1 DEF Indices
  <2> QED
    BY <1>2, <1>3, <1>4, <1>5, <2>1, <2>2
<1>8. ASSUME App, ~QueueCapture, ~AppDequeue
      PROVE  UNCHANGED item \/ \E t \in Threads : item' = [item EXCEPT ![t] = 1]
  BY <1>3, <1>8, ZenonT(60) DEF App, Control, Fails, SetCaptureFormat, SetOutputFormat, SetFormat,
     SetupOutput, SetupCapture, Setup, SetupPlane, StreamOutput, StreamCapture, TurnOn,
     CannotTurnOn, Start, StartDQThread, QueueBuffer, DequeueOutput, Wait, OtherCall,
     StopDQThread, Delete, Moves, Deinit, Abort, threadVars
<1>9. ASSUME InCall, ~SetupBuffer
      PROVE  UNCHANGED item \/ \E t \in Threads : item' = [item EXCEPT ![t] = 1]
  BY <1>3, <1>9, ZenonT(60) DEF InCall, StreamCheck, StreamOff, AfterStreamOff, AbortNext, DqCount,
     WaitForDQThread, Join, DeinitRelease, Moves, Returns, Deinit
<1>10. ASSUME DqThread, ~DqDequeue
       PROVE  UNCHANGED item \/ \E t \in Threads : item' = [item EXCEPT ![t] = 1]
  BY <1>3, <1>10, ZenonT(60) DEF DqThread, StreamCheck, StreamOff, AfterStreamOff, AbortNext,
     DqCount, DqBegin, DqTest, DqCallback, DqAgain, DqFailed, DqStreaming, DqLeave, DqEnd,
     Moves, Returns, Abort
<1>11. CASE AppDequeue \/ DqDequeue
  BY <1>3, <1>6, <1>11 DEF AppDequeue, DqDequeue, Planes
<1>12. CASE Device \/ UNCHANGED vars
  BY <1>4, <1>12 DEF Device, Process, threadVars, vars, planeVars
<1> QED
  BY <1>4, <1>5, <1>7, <1>8, <1>9, <1>10, <1>11, <1>12, Zenon DEF Next, Inner, Dq

LEMMA StepNumbers ==
  /\ Len(Program) = 17
  /\ Program[1] = "create" /\ Program[2] = "enableProfiling"
  /\ Program[3] = "setCapturePlaneFormat" /\ Program[4] = "setOutputPlaneFormat"
  /\ Program[5] = "setBitrate" /\ Program[6] = "setProfile" /\ Program[7] = "setLevel"
  /\ Program[8] = "setRateControlMode" /\ Program[9] = "setIFrameInterval"
  /\ Program[10] = "setFrameRate" /\ Program[11] = "setHWPresetType"
  /\ Program[12] = "setupOutput" /\ Program[13] = "setupCapture"
  /\ Program[14] = "streamOutput" /\ Program[15] = "streamCapture"
  /\ Program[16] = "startDQThread" /\ Program[17] = "queueCapture"
BY DEF Program

FormatTypes == /\ step \in 1..(Len(Program) + 1)
               /\ pixfmt \in [Planes -> Codecs \cup {None, "YUV420M"}]
               /\ fmt \in [Planes -> Codecs \cup {None, "YUV420M"}]

(* The consumer's program makes its way with the formats it set, and asks for         *)
(* buffers in the end; after an error it does not come back to it.                     *)
OnCourse ==
  client = "consumer" /\ step <= 17 =>
    /\ pc["app"] \in {"ready", "setup", "error"} \/ goal # "call"
    /\ pc["app"] \in {"ready", "setup"} =>
         /\ fmt = pixfmt
         /\ pixfmt["capture"] = IF step <= 3 THEN None ELSE codec
         /\ pixfmt["output"] = IF step <= 4 THEN None ELSE "YUV420M"
    /\ step <= 12 => \A p \in Planes : bufs[p] = 0

LEMMA CourseKept ==
  ASSUME OnCourse, FormatTypes, UNCHANGED <<client, codec, pixfmt, fmt>>,
         step' \in Nat,
         step' = step \/ (step' = step + 1 /\ step \notin {3, 4, 12}) \/ step' > 17,
         pc'["app"] \in {"ready", "setup"} => pc["app"] \in {"ready", "setup"},
         \/ pc'["app"] \in {"ready", "setup", "error"} \/ goal' # "call"
         \/ pc["app"] \notin {"ready", "setup", "error"} /\ goal = "call",
         \A p \in Planes : bufs'[p] \in {bufs[p], 0}
  PROVE  OnCourse'
<1> SUFFICES ASSUME client = "consumer", step' <= 17 PROVE OnCourse'
  BY DEF OnCourse
<1>1. step \in Nat /\ step <= 17
  BY StepNumbers DEF FormatTypes
<1>2. /\ pc["app"] \in {"ready", "setup", "error"} \/ goal # "call"
      /\ pc["app"] \in {"ready", "setup"} =>
           /\ fmt = pixfmt
           /\ pixfmt["capture"] = IF step <= 3 THEN None ELSE codec
           /\ pixfmt["output"] = IF step <= 4 THEN None ELSE "YUV420M"
      /\ step <= 12 => \A p \in Planes : bufs[p] = 0
  BY <1>1 DEF OnCourse
<1>3. /\ step' <= 3 <=> step <= 3
      /\ step' <= 4 <=> step <= 4
      /\ step' <= 12 <=> step <= 12
  BY <1>1
<1>4. pc'["app"] \in {"ready", "setup", "error"} \/ goal' # "call"
  BY <1>2
<1>5. pc'["app"] \in {"ready", "setup"} =>
           /\ fmt' = pixfmt'
           /\ pixfmt'["capture"] = IF step' <= 3 THEN None ELSE codec'
           /\ pixfmt'["output"] = IF step' <= 4 THEN None ELSE "YUV420M"
  BY <1>2, <1>3
<1>6. step' <= 12 => \A p \in Planes : bufs'[p] = 0
  BY <1>2, <1>3
<1> QED
  BY <1>4, <1>5, <1>6 DEF OnCourse

LEMMA FormatsAreNoControls ==
  {"setCapturePlaneFormat", "setOutputPlaneFormat", "setupOutput"} \cap
    (Controls \cup {"create", "enableProfiling"}) = {}
BY ZenonT(60) DEF Controls, AnyTime, BeforeBuffers, FrameAndBitrate, PeakBitrate, ProfileAndLevel,
   RateAndGop, ForceIdr, SliceAndPreset, FrameParams, Features, Av1AndBuffering, StreamShape,
   Queries, QpRange, AspectRatio, VuiAndAud, Polling, PocAndInitQp, FramesToEncode,
   ChromaAndLossless

LEMMA FormatStep == FlagTypes /\ FormatTypes /\ [Next]_vars => FormatTypes'
<1> SUFFICES ASSUME FlagTypes, FormatTypes, [Next]_vars PROVE FormatTypes'
  OBVIOUS
<1>1. CASE UNCHANGED <<step, pixfmt, fmt>>
  BY <1>1 DEF FormatTypes
<1>2. ASSUME NEW c, At(c) PROVE step' \in 1..(Len(Program) + 1)
  BY <1>2, StepNumbers DEF At, Consuming, FormatTypes
<1>3. ASSUME NEW p \in Planes, NEW f \in Codecs \cup {"YUV420M"}, SetFormat(p, f)
      PROVE  /\ pixfmt' \in [Planes -> Codecs \cup {None, "YUV420M"}]
             /\ fmt' \in [Planes -> Codecs \cup {None, "YUV420M"}]
  BY <1>3 DEF SetFormat, FormatTypes
<1>4. CASE SetCaptureFormat \/ SetOutputFormat
  <2>1. codec \in Codecs \cup {"YUV420M"} /\ "YUV420M" \in Codecs \cup {"YUV420M"}
    BY DEF FlagTypes, Codecs
  <2>2. step' \in 1..(Len(Program) + 1)
    BY <1>2, <1>4 DEF SetCaptureFormat, SetOutputFormat
  <2>3. /\ pixfmt' \in [Planes -> Codecs \cup {None, "YUV420M"}]
        /\ fmt' \in [Planes -> Codecs \cup {None, "YUV420M"}]
    BY <1>3, <1>4, <2>1 DEF SetCaptureFormat, SetOutputFormat, Planes
  <2> QED
    BY <2>2, <2>3 DEF FormatTypes
<1>5. ASSUME App, ~SetCaptureFormat, ~SetOutputFormat
      PROVE  /\ UNCHANGED <<pixfmt, fmt>>
             /\ UNCHANGED step \/ QueueCapture \/ \E c : At(c)
  BY <1>5, ZenonT(60) DEF App, Control, SetupOutput, SetupCapture, Setup, StreamOutput,
     StreamCapture, TurnOn, CannotTurnOn, Start, QueueBuffer, QueueCapture, DequeueOutput,
     AppDequeue, Wait, OtherCall, Delete, Later, encoderVars
<1>6. CASE QueueCapture
  <2>1. step' = step \/ step' = step + 1
    BY <1>6, Zenon DEF QueueCapture
  <2> QED
    BY <1>5, <1>6, <2>1, StepNumbers DEF QueueCapture, Consuming, FormatTypes, App
<1>7. CASE Inner \/ Dq \/ Device \/ UNCHANGED vars
  BY <1>1, <1>7 DEF Inner, Dq, Device, encoderVars, vars
<1>8. CASE App
  BY <1>1, <1>2, <1>4, <1>5, <1>6, <1>8 DEF FormatTypes
<1> QED
  BY <1>7, <1>8, Zenon DEF Next

LEMMA CourseStep ==
  LifeInv /\ FlagTypes /\ FormatTypes /\ OnCourse /\ [Next]_vars => OnCourse'
<1> SUFFICES ASSUME LifeInv, FlagTypes, FormatTypes, OnCourse, [Next]_vars,
                    client = "consumer", step' <= 17
             PROVE  OnCourse'
  BY ClientKept DEF OnCourse
<1>0. /\ UNCHANGED <<client, codec>>
      /\ step \in Nat /\ step' \in Nat
      /\ pc \in [Threads -> AppLabels \cup DqLabels] /\ "app" \in Threads /\ "dq" \in Threads
      /\ bufs \in [Planes -> Nat]
  BY ClientKept, FormatStep, StepNumbers DEF FormatTypes, LifeInv, ThreadTypes, StreamInv, Threads
<1>1. ASSUME App, step > 17 PROVE FALSE
  <2>1. ~Consuming
    BY <1>0, <1>1, StepNumbers DEF Consuming
  <2>2. UNCHANGED step
    BY <1>1, <2>1, ZenonT(60) DEF App, Control, SetCaptureFormat, SetOutputFormat, SetupOutput,
       SetupCapture, StreamOutput, StreamCapture, Start, QueueCapture, QueueBuffer,
       DequeueOutput, AppDequeue, Wait, OtherCall, Delete, Later, At, encoderVars
  <2> QED
    BY <1>0, <1>1, <2>2
<1>2. ASSUME Inner \/ Dq \/ Device \/ UNCHANGED vars PROVE UNCHANGED encoderVars
  BY <1>2 DEF Inner, Dq, Device, vars
<1>3. step <= 17
  BY <1>0, <1>1, <1>2 DEF Next, encoderVars
<1>4. /\ pc["app"] \in {"ready", "setup", "error"} \/ goal # "call"
      /\ goal # "call" => \/ pc["app"] \in {"waitdq", "join", "release", "closed", "undefined"}
                          \/ pc["app"] \in {"check", "streamoff"} /\ ret["app"] = "waitdq"
  BY <1>3 DEF OnCourse, LifeInv, Calls
<1>5. ASSUME NEW c, At(c)
      PROVE  Program[step] = c /\ step' = step + 1 /\ pc["app"] = "ready" /\ goal = "call"
  BY <1>4, <1>5 DEF At
<1>6. CASE Control
  <2>1. /\ Program[step] \in Controls \cup {"create", "enableProfiling"}
        /\ step' = step + 1 /\ pc["app"] = "ready"
        /\ UNCHANGED <<bufs, pixfmt, fmt>>
    BY <1>5, <1>6 DEF Control
  <2>2. step \notin {3, 4, 12}
    BY <2>1, StepNumbers, FormatsAreNoControls
  <2>3. pc'["app"] \in {"ready", "error"}
    <3>1. UNCHANGED threadVars \/ Goto("app", "error")
      BY <1>6, Zenon DEF Control, Moves, Fails
    <3> QED
      BY <1>0, <2>1, <3>1 DEF threadVars, Goto
  <2> QED
    BY <1>0, <2>1, <2>2, <2>3, CourseKept
<1>7. ASSUME NEW p \in Planes, NEW f, SetFormat(p, f), pc["app"] = "ready"
      PROVE  \/ /\ pc'["app"] = "ready" /\ pixfmt' = [pixfmt EXCEPT ![p] = f]
                /\ fmt' = [fmt EXCEPT ![p] = f] /\ UNCHANGED bufs
             \/ pc'["app"] = "error" /\ UNCHANGED bufs
  BY <1>0, <1>7 DEF SetFormat, Moves, Goto, threadVars
<1>8. CASE SetCaptureFormat \/ SetOutputFormat
  <2>1. /\ pc["app"] = "ready" /\ step' = step + 1
        /\ (SetCaptureFormat /\ step = 3) \/ (SetOutputFormat /\ step = 4)
    BY <1>0, <1>3, <1>5, <1>8, StepNumbers DEF SetCaptureFormat, SetOutputFormat, FormatTypes
  <2>2. /\ fmt = pixfmt /\ pixfmt["capture"] = IF step <= 3 THEN None ELSE codec
        /\ pixfmt["output"] = None
        /\ \A p \in Planes : bufs[p] = 0
    BY <2>1 DEF OnCourse
  <2>3. CASE SetCaptureFormat /\ step = 3
    BY <1>0, <1>7, <2>1, <2>2, <2>3 DEF SetCaptureFormat, OnCourse, Planes, FormatTypes
  <2>4. CASE SetOutputFormat /\ step = 4
    BY <1>0, <1>7, <2>1, <2>2, <2>4 DEF SetOutputFormat, OnCourse, Planes, FormatTypes
  <2> QED
    BY <2>1, <2>3, <2>4
<1>9. CASE SetupOutput \/ SetupCapture
  <2>1. /\ pc["app"] = "ready" /\ step' = step + 1 /\ UNCHANGED <<pixfmt, fmt>>
        /\ step \in {12, 13}
    BY <1>0, <1>3, <1>5, <1>9, StepNumbers DEF SetupOutput, SetupCapture, Setup, FormatTypes
  <2>2. pc'["app"] \in {"ready", "setup"} \/ goal' # "call"
    BY <1>0, <1>9 DEF SetupOutput, SetupCapture, Setup, SetupPlane, Goto, Deinit
  <2> QED
    BY <1>0, <2>1, <2>2 DEF OnCourse
<1>10. CASE StreamOutput \/ StreamCapture \/ Start \/ QueueCapture
  <2>1. /\ pc["app"] = "ready" /\ UNCHANGED <<pixfmt, fmt, bufs>>
        /\ step' = step + 1 \/ step' = step
    <3>1. CASE QueueCapture
      BY <1>0, <3>1, Zenon DEF QueueCapture
    <3>2. CASE StreamOutput \/ StreamCapture \/ Start
      BY <1>5, <3>2, StepNumbers DEF StreamOutput, StreamCapture, Start, TurnOn, CannotTurnOn,
         StreamOn, StartDQThread
    <3> QED
      BY <1>10, <3>1, <3>2
  <2>2. step \notin {3, 4, 12}
    BY <1>5, <1>10, StepNumbers DEF StreamOutput, StreamCapture, Start, QueueCapture
  <2>3. pc'["app"] \in {"ready", "error"}
    <3>1. UNCHANGED pc \/ Goto("app", "error") \/ Goto("dq", "begin")
      BY <1>10, Zenon DEF StreamOutput, StreamCapture, Start, QueueCapture, TurnOn, CannotTurnOn,
         StartDQThread, Moves, Fails, threadVars
    <3> QED
      BY <1>0, <2>1, <3>1 DEF Goto
  <2> QED
    BY <1>0, <2>1, <2>2, <2>3, CourseKept
<1>11. ASSUME QueueBuffer \/ DequeueOutput \/ AppDequeue \/ Wait \/ OtherCall PROVE FALSE
  BY <1>0, <1>3, <1>4, <1>11, StepNumbers DEF QueueBuffer, DequeueOutput, AppDequeue, Wait,
     OtherCall, Later
<1>12. CASE Delete
  <2>1. goal' = "delete" /\ pc'["app"] = "check" /\ UNCHANGED <<bufs, step, pixfmt, fmt>>
    BY <1>0, <1>12 DEF Delete, Deinit, CallStreamOff, Goto, encoderVars
  <2> QED
    BY <1>0, <2>1, CourseKept
<1>13. ASSUME UNCHANGED encoderVars, \A p \in Planes : bufs'[p] \in {bufs[p], 0},
              \/ pc'["app"] = pc["app"] /\ goal' = goal
              \/ pc["app"] = "setup" /\ pc'["app"] \in {"ready", "setup"}
              \/ pc'["app"] \notin {"ready", "setup"} /\ goal' # "call"
              \/ pc'["app"] = "error"
       PROVE  OnCourse'
  BY <1>0, <1>4, <1>13, CourseKept DEF encoderVars
<1>14. CASE Dq \/ Device \/ UNCHANGED vars
  <2>1. UNCHANGED bufs /\ pc'["app"] = pc["app"] /\ goal' = goal
    <3>1. CASE Device \/ UNCHANGED vars
      BY <3>1 DEF Device, Process, vars, planeVars, threadVars
    <3>2. CASE Dq
      <4>1. UNCHANGED <<bufs, goal>> /\ (UNCHANGED pc \/ \E l : pc' = [pc EXCEPT !["dq"] = l])
        BY <3>2, ZenonT(60) DEF Dq, DqThread, StreamCheck, StreamOff, AfterStreamOff, AbortNext,
           DqCount, DqBegin, DqTest, DqDequeue, DqIoctl, DqCallback, DqAgain, DqFailed,
           DqStreaming, DqLeave, DqEnd, Moves, Returns, Abort, CallStreamOff, Goto
      <4> QED
        BY <1>0, <4>1
    <3> QED
      BY <1>14, <3>1, <3>2
  <2> QED
    BY <1>2, <1>13, <1>14, <2>1
<1>15. CASE Inner
  <2>1. UNCHANGED encoderVars
    BY <1>15 DEF Inner
  <2>2. CASE StreamCheck("app") \/ StreamOff("app")
    BY <1>0, <1>4, <1>13, <2>1, <2>2 DEF StreamCheck, StreamOff, AfterStreamOff, Moves, Goto
  <2>3. ASSUME AbortNext("app") \/ DqCount("app") PROVE FALSE
    BY <1>4, <2>3 DEF AbortNext, DqCount
  <2>4. CASE WaitForDQThread
    BY <1>0, <1>4, <1>13, <2>1, <2>4 DEF WaitForDQThread, Moves, Goto
  <2>5. CASE Join
    <3>1. UNCHANGED <<bufs, goal>> /\ goal # "call" /\ pc'["app"] \in {"release", "undefined"}
      BY <1>0, <1>4, <2>5 DEF Join, AfterJoin, Goto
    <3> QED
      BY <1>13, <2>1, <3>1
  <2>6. CASE DeinitRelease
    <3>1. \A p \in Planes : bufs'[p] \in {bufs[p], 0}
      BY <1>0, <2>6 DEF DeinitRelease
    <3>2. pc'["app"] = "error" \/ (goal' # "call" /\ pc'["app"] \in {"check", "closed"})
      BY <1>0, <2>6 DEF DeinitRelease, Deinit, CallStreamOff, Moves, Goto
    <3> QED
      BY <1>13, <2>1, <3>1, <3>2
  <2>7. CASE SetupBuffer
    <3>1. /\ UNCHANGED bufs /\ pc["app"] = "setup"
          /\ pc'["app"] \in {"ready", "setup"} \/ (goal' # "call" /\ pc'["app"] = "check")
      BY <1>0, <2>7 DEF SetupBuffer, Deinit, CallStreamOff, Goto
    <3> QED
      BY <1>13, <2>1, <3>1
  <2> QED
    BY <1>15, <2>2, <2>3, <2>4, <2>5, <2>6, <2>7, Zenon DEF Inner, InCall
<1> QED
  BY <1>6, <1>8, <1>9, <1>10, <1>11, <1>12, <1>14, <1>15, Zenon DEF Next, App

(* Every call of the consumer's set-up is one that the element accepts.               *)
LEMMA CourseAccepted == LifeInv /\ FlagTypes /\ FormatTypes /\ OnCourse => SetupNotRefused
<1> SUFFICES ASSUME LifeInv, FlagTypes, FormatTypes, OnCourse, Consuming, pc["app"] = "ready"
             PROVE  LET c == Program[step]
                    IN  /\ Skipped(c) \/ ~Refused(c)
                        /\ c = "enableProfiling" => \A p \in Planes : pixfmt[p] = None
                        /\ c \in Controls => fmt = pixfmt
  BY DEF SetupNotRefused
<1>1. /\ client = "consumer" /\ step \in 1..17 /\ codec \in {"H264", "H265"}
      /\ "capture" \in Planes /\ "output" \in Planes
  BY StepNumbers DEF Consuming, FormatTypes, FlagTypes, Planes
<1>2. /\ fmt = pixfmt
      /\ pixfmt["capture"] = IF step <= 3 THEN None ELSE codec
      /\ pixfmt["output"] = IF step <= 4 THEN None ELSE "YUV420M"
      /\ step <= 12 => \A p \in Planes : bufs[p] = 0
  BY <1>1 DEF OnCourse
<1>3. CASE step \in 5..11
  <2>1. Program[step] \in {"setBitrate", "setProfile", "setLevel", "setRateControlMode",
                           "setIFrameInterval", "setFrameRate", "setHWPresetType"}
    BY <1>3, StepNumbers
  <2>2. ~FormatsNotSet
    BY <1>1, <1>2, <1>3 DEF FormatsNotSet, Planes, None
  <2>3. ~BuffersRequested /\ pixfmt["capture"] \in {"H264", "H265"}
    BY <1>1, <1>2, <1>3 DEF BuffersRequested
  <2>4. Program[step] \notin FrameParams \cup Queries
    BY <2>1, Zenon DEF FrameParams, Queries
  <2>5. ~Refused(Program[step])
    BY <2>2, <2>3, <2>4, Zenon DEF Refused
  <2>6. Program[step] # "enableProfiling"
    BY <2>1
  <2> QED
    BY <1>2, <2>5, <2>6
<1>4. CASE step \notin 5..11
  <2>1. Program[step] \in {"create", "enableProfiling", "setCapturePlaneFormat",
                           "setOutputPlaneFormat", "setupOutput", "setupCapture", "streamOutput",
                           "streamCapture", "startDQThread", "queueCapture"}
    BY <1>1, <1>4, StepNumbers
  <2>2. Program[step] \notin AnyTime \cup BeforeBuffers \cup FrameParams \cup Queries
    BY <2>1, ZenonT(40) DEF AnyTime, BeforeBuffers, FrameAndBitrate, PeakBitrate,
       ProfileAndLevel, RateAndGop, ForceIdr, SliceAndPreset, FrameParams, Features,
       Av1AndBuffering, StreamShape, Queries, QpRange, AspectRatio, VuiAndAud, Polling,
       PocAndInitQp, ChromaAndLossless
  <2>3. Program[step] \notin {"setProfile"} \cup AspectRatio
    BY <2>1 DEF AspectRatio
  <2>4. ~Refused(Program[step])
    BY <2>2, <2>3, Zenon DEF Refused
  <2>5. Program[step] = "enableProfiling" => step = 2
    BY <1>1, StepNumbers
  <2>6. step = 2 => \A p \in Planes : pixfmt[p] = None
    BY <1>2 DEF Planes
  <2> QED
    BY <1>2, <2>4, <2>5, <2>6
<1> QED
  BY <1>3, <1>4

LEMMA CourseInvariant == Spec => [](FlagTypes /\ FormatTypes /\ OnCourse)
<1>1. Init => FlagTypes /\ FormatTypes /\ OnCourse
  <2> SUFFICES ASSUME Init PROVE FlagTypes /\ FormatTypes /\ OnCourse
    OBVIOUS
  <2>1. FlagTypes
    BY DEF Init, PlaneInit, FlagTypes
  <2>2. /\ step = 1 /\ pixfmt = [p \in Planes |-> None] /\ fmt = [p \in Planes |-> None]
        /\ bufs = [p \in Planes |-> 0] /\ pc["app"] = "ready"
    BY DEF Init, PlaneInit
  <2>3. FormatTypes
    BY <2>2, StepNumbers DEF FormatTypes
  <2>4. OnCourse
    BY <2>2 DEF OnCourse, Planes
  <2> QED
    BY <2>1, <2>3, <2>4
<1>2. /\ LifeInv /\ FlagTypes /\ FormatTypes /\ OnCourse /\ [Next]_vars
      => FlagTypes' /\ FormatTypes' /\ OnCourse'
  BY FlagStep, FormatStep, CourseStep
<1> QED
  BY <1>1, <1>2, LifeInvariant, PTL DEF Spec

(* createVideoEncoder and threadInitialize make their calls in an order in which the   *)
(* element refuses none of them, whatever fails and whatever else the element goes      *)
(* through, and each control is set under the formats asked for.                       *)
THEOREM SetupIsAccepted == Spec => []SetupNotRefused
<1>1. LifeInv /\ FlagTypes /\ FormatTypes /\ OnCourse => SetupNotRefused
  BY CourseAccepted
<1> QED
  BY <1>1, LifeInvariant, CourseInvariant, PTL

-----------------------------------------------------------------------------
(* The count of the buffers with the device, as sets: those of a plane that are with   *)
(* it, and the threads between a DQBUF of the plane and the section that counts it.     *)
Held(w, p) == {i \in Indices(p) : w[p][i] # "app"}
Between(c, a, p) == {t \in Threads : c[t] = "dequeued" /\ a[t] = p}
Balanced(n, w, c, a, p) == n[p] = Cardinality(Held(w, p)) + Cardinality(Between(c, a, p))

CountTypes == num \in [Planes -> 0..(Wrap - 1)] /\ straddled \in [Planes -> BOOLEAN]
BalanceInv ==
  goal # "delete" => \A p \in Planes : ~straddled[p] => Balanced(num, where, pc, arg, p)

(* The DQ thread dequeues from the capture plane and the application from the output     *)
(* plane.                                                                              *)
PlanesInHand == /\ arg["dq"] = "output" => pc["dq"] \in {"check", "streamoff"}
                /\ pc["app"] = "dequeue" => arg["app"] = "output"

(* A buffer that was not allocated is not with the device, nor is one of a plane whose    *)
(* set-up has failed.                                                                   *)
HeldAllocated ==
  \A p \in Planes : \A i \in Indices(p) : where[p][i] # "app" => i <= bufs[p]
FailedSetupEmpty ==
  goal = "setup" => \A i \in Indices(arg["app"]) : where[arg["app"]][i] = "app"

LEMMA HeldFinite ==
  ASSUME NEW w, NEW p \in Planes
  PROVE  /\ IsFiniteSet(Held(w, p)) /\ Cardinality(Held(w, p)) \in Nat
         /\ Cardinality(Held(w, p)) <= Requested[p]
<1>1. Requested[p] \in Nat
  BY PlaneAssumption
<1>2. IsFiniteSet(1..Requested[p]) /\ Cardinality(1..Requested[p]) = Requested[p]
  BY <1>1, FS_Interval, SMTT(40)
<1>3. Held(w, p) \subseteq 1..Requested[p]
  BY DEF Held, Indices
<1> QED
  BY <1>2, <1>3, FS_Subset, FS_CardinalityType

LEMMA BetweenFinite ==
  ASSUME NEW c, NEW a, NEW p
  PROVE  /\ IsFiniteSet(Between(c, a, p)) /\ Cardinality(Between(c, a, p)) \in Nat
         /\ Cardinality(Between(c, a, p)) <= 2
<1>1. IsFiniteSet({"app"}) /\ Cardinality({"app"}) = 1
  BY FS_Singleton
<1>2. IsFiniteSet({"app"} \cup {"dq"}) /\ Cardinality({"app"} \cup {"dq"}) = 2
  BY <1>1, FS_AddElement
<1>3. Between(c, a, p) \subseteq {"app"} \cup {"dq"}
  BY DEF Between, Threads
<1> QED
  BY <1>2, <1>3, FS_Subset, FS_CardinalityType

LEMMA BetweenSame ==
  ASSUME NEW c, NEW d, NEW a, NEW b, NEW p,
         \A t \in Threads : (c[t] = "dequeued" /\ a[t] = p) <=> (d[t] = "dequeued" /\ b[t] = p)
  PROVE  Between(d, b, p) = Between(c, a, p)
BY DEF Between

(* qBuffer: one more with the device, one more counted, and no overflow.                  *)
LEMMA PutBalance ==
  ASSUME NEW p \in Planes, NEW n, NEW m, NEW w, NEW v, NEW c, NEW a, NEW i \in Indices(p),
         Balanced(n, w, c, a, p), w[p][i] = "app",
         m[p] = (n[p] + 1) % Wrap, Held(v, p) = Held(w, p) \cup {i}
  PROVE  Balanced(m, v, c, a, p)
<1>1. i \notin Held(w, p)
  BY DEF Held
<1>2. Cardinality(Held(v, p)) = Cardinality(Held(w, p)) + 1
  BY <1>1, HeldFinite, FS_AddElement
<1>3. /\ Cardinality(Held(w, p)) \in Nat /\ Cardinality(Between(c, a, p)) \in Nat
      /\ Cardinality(Held(v, p)) <= Requested[p] /\ Cardinality(Between(c, a, p)) <= 2
      /\ Requested[p] \in Nat /\ Wrap \in Nat /\ Requested[p] + 2 < Wrap
  BY HeldFinite, BetweenFinite, PlaneAssumption
<1>4. n[p] \in Nat /\ n[p] + 1 < Wrap
  BY <1>2, <1>3 DEF Balanced
<1>5. m[p] = n[p] + 1
  BY <1>3, <1>4
<1> QED
  BY <1>2, <1>3, <1>5 DEF Balanced

(* DQBUF: the buffer is out of the device and still counted.                              *)
LEMMA TakeBalance ==
  ASSUME NEW p \in Planes, NEW n, NEW w, NEW v, NEW c, NEW a, NEW d, NEW i \in Indices(p),
         NEW t \in Threads, Balanced(n, w, c, a, p), w[p][i] # "app",
         Held(v, p) = Held(w, p) \ {i}, c[t] # "dequeued",
         Between(d, a, p) = Between(c, a, p) \cup {t}
  PROVE  Balanced(n, v, d, a, p)
<1>1. i \in Held(w, p) /\ t \notin Between(c, a, p)
  BY DEF Held, Between
<1>2. Cardinality(Held(v, p)) = Cardinality(Held(w, p)) - 1
  BY <1>1, HeldFinite, FS_RemoveElement, ZenonT(60)
<1>3. Cardinality(Between(d, a, p)) = Cardinality(Between(c, a, p)) + 1
  BY <1>1, BetweenFinite, FS_AddElement
<1> QED
  BY <1>2, <1>3, HeldFinite, BetweenFinite DEF Balanced

(* ... until the section that follows, in which the count is above zero.                  *)
LEMMA CountBalance ==
  ASSUME NEW p \in Planes, NEW n, NEW m, NEW w, NEW c, NEW a, NEW d, NEW b,
         NEW t \in Between(c, a, p), Balanced(n, w, c, a, p),
         m[p] = (n[p] - 1) % Wrap, Between(d, b, p) = Between(c, a, p) \ {t}
  PROVE  Balanced(m, w, d, b, p)
<1>1. Cardinality(Between(d, b, p)) = Cardinality(Between(c, a, p)) - 1
  BY BetweenFinite, FS_RemoveElement
<1>2. Cardinality(Between(d, b, p)) \in Nat /\ Cardinality(Between(c, a, p)) \in Nat
  BY BetweenFinite
<1>3. /\ Cardinality(Held(w, p)) \in Nat /\ Cardinality(Held(w, p)) <= Requested[p]
      /\ Cardinality(Between(c, a, p)) <= 2
      /\ Requested[p] \in Nat /\ Wrap \in Nat /\ Requested[p] + 2 < Wrap
  BY HeldFinite, BetweenFinite, PlaneAssumption
<1>4. n[p] \in Nat /\ n[p] >= 1 /\ n[p] - 1 < Wrap
  BY <1>1, <1>2, <1>3 DEF Balanced
<1>5. m[p] = n[p] - 1
  BY <1>3, <1>4
<1> QED
  BY <1>1, <1>2, <1>3, <1>5 DEF Balanced

(* What a thread's program point says of the calls it is in.                              *)
LEMMA CallFacts ==
  ASSUME LifeInv
  PROVE  /\ pc \in [Threads -> AppLabels \cup DqLabels] /\ arg \in [Threads -> Planes]
         /\ \A t \in Threads : pc[t] \in {"check", "streamoff"} =>
              ret[t] \in {"ready", "abort2", "leave", "waitdq"}
         /\ pc["dq"] \in {"check", "streamoff"} => ret["dq"] \in {"abort2", "leave"}
         /\ goal # "call" =>
              \/ pc["app"] \in {"waitdq", "join", "release", "closed", "undefined"}
              \/ pc["app"] \in {"check", "streamoff"} /\ ret["app"] = "waitdq"
         /\ goal \in {"call", "setup", "delete"} /\ pc["dq"] \in DqLabels
         /\ bufs \in [Planes -> Nat] /\ on \in [Planes -> BOOLEAN]
         /\ Threads = {"app", "dq"} /\ Planes = {"output", "capture"}
<1>1. goal # "call" =>
        \/ pc["app"] \in {"waitdq", "join", "release", "closed", "undefined"}
        \/ pc["app"] \in {"check", "streamoff"} /\ ret["app"] = "waitdq"
  BY DEF LifeInv, Calls
<1>2. /\ pc["dq"] \in {"check", "streamoff"} => ret["dq"] \in {"abort2", "leave"}
      /\ goal = "call" /\ pc["app"] \in {"check", "streamoff"} => ret["app"] \in {"ready", "abort2"}
  BY DEF LifeInv, Calls
<1> QED
  BY <1>1, <1>2 DEF LifeInv, ThreadTypes, StreamInv, Threads, Planes

(* In a deinitPlane the application makes no other call.                                  *)
LEMMA Deinitializing ==
  ASSUME LifeInv, goal # "call"
  PROVE  /\ ~App
         /\ InCall => \/ /\ StreamCheck("app") \/ StreamOff("app") \/ WaitForDQThread \/ Join
                         /\ UNCHANGED <<arg, goal>>
                      \/ DeinitRelease
<1>0. \/ pc["app"] \in {"waitdq", "join", "release", "closed", "undefined"}
      \/ pc["app"] \in {"check", "streamoff"} /\ ret["app"] = "waitdq"
  BY CallFacts
<1>1. ASSUME App PROVE FALSE
  BY <1>0, <1>1 DEF App, Control, At, SetCaptureFormat, SetOutputFormat, SetupOutput,
     SetupCapture, StreamOutput, StreamCapture, Start, QueueCapture, QueueBuffer, Later,
     DequeueOutput, AppDequeue, Wait, OtherCall, Delete
<1>2. ASSUME AbortNext("app") \/ DqCount("app") \/ SetupBuffer PROVE FALSE
  BY <1>0, <1>2 DEF AbortNext, DqCount, SetupBuffer
<1>3. ASSUME StreamCheck("app") \/ StreamOff("app") PROVE UNCHANGED <<arg, goal>>
  <2>1. ret["app"] = "waitdq"
    BY <1>0, <1>3 DEF StreamCheck, StreamOff
  <2> QED
    BY <1>3, <2>1, Zenon DEF StreamCheck, StreamOff, AfterStreamOff, Moves
<1>4. ASSUME WaitForDQThread \/ Join PROVE UNCHANGED <<arg, goal>>
  BY <1>4, Zenon DEF WaitForDQThread, Join, Moves
<1> QED
  BY <1>1, <1>2, <1>3, <1>4, Zenon DEF InCall

(* Each thread moves by itself, but for the creation of the DQ thread and its join.       *)
LEMMA AppMoves ==
  ASSUME LifeInv, App \/ InCall
  PROVE  /\ arg'["dq"] = arg["dq"]
         /\ \/ pc'["dq"] = pc["dq"]
            \/ pc["dq"] \notin Active /\ pc'["dq"] \in {"begin", "off"}
<1>0. pc \in [Threads -> AppLabels \cup DqLabels] /\ arg \in [Threads -> Planes]
      /\ Threads = {"app", "dq"}
  BY CallFacts
<1>1. UNCHANGED arg \/ \E y : arg' = [arg EXCEPT !["app"] = y]
  <2>1. App => UNCHANGED arg \/ \E y : arg' = [arg EXCEPT !["app"] = y]
    BY ZenonT(60) DEF App, Control, Fails, SetCaptureFormat, SetOutputFormat, SetFormat,
       SetupOutput, SetupCapture, Setup, SetupPlane, StreamOutput, StreamCapture, TurnOn,
       CannotTurnOn, Start, StartDQThread, QueueBuffer, QueueCapture, DequeueOutput, AppDequeue,
       DqIoctl, Returns, Wait, OtherCall, StopDQThread, Delete, Moves, Deinit, Abort,
       CallStreamOff, threadVars
  <2>2. InCall => UNCHANGED arg \/ \E y : arg' = [arg EXCEPT !["app"] = y]
    BY ZenonT(60) DEF InCall, StreamCheck, StreamOff, AfterStreamOff, AbortNext, DqCount,
       WaitForDQThread, Join, DeinitRelease, SetupBuffer, Moves, Returns, Deinit, CallStreamOff
  <2> QED
    BY <2>1, <2>2
<1>2. \/ UNCHANGED pc \/ \E l : pc' = [pc EXCEPT !["app"] = l]
      \/ ~running /\ pc' = [pc EXCEPT !["dq"] = "begin"]
      \/ pc["dq"] = "ended" /\ \E l : pc' = [app |-> l, dq |-> "off"]
  <2>1. App => \/ UNCHANGED pc \/ \E l : pc' = [pc EXCEPT !["app"] = l]
               \/ ~running /\ pc' = [pc EXCEPT !["dq"] = "begin"]
    BY ZenonT(60) DEF App, Control, Fails, SetCaptureFormat, SetOutputFormat, SetFormat,
       SetupOutput, SetupCapture, Setup, SetupPlane, StreamOutput, StreamCapture, TurnOn,
       CannotTurnOn, Start, StartDQThread, QueueBuffer, QueueCapture, DequeueOutput, AppDequeue,
       DqIoctl, Returns, Wait, OtherCall, StopDQThread, Delete, Moves, Deinit, Abort,
       CallStreamOff, threadVars, Goto
  <2>2. InCall => \/ UNCHANGED pc \/ \E l : pc' = [pc EXCEPT !["app"] = l]
                  \/ pc["dq"] = "ended" /\ \E l : pc' = [app |-> l, dq |-> "off"]
    BY ZenonT(60) DEF InCall, StreamCheck, StreamOff, AfterStreamOff, AbortNext, DqCount,
       WaitForDQThread, Join, DeinitRelease, SetupBuffer, Moves, Returns, Deinit, CallStreamOff,
       Goto
  <2> QED
    BY <2>1, <2>2
<1>3. ~running => pc["dq"] \notin Active
  BY DEF LifeInv, Runs
<1>4. "ended" \notin Active
  BY DEF Active
<1> QED
  BY <1>0, <1>1, <1>2, <1>3, <1>4

LEMMA DqMoves ==
  ASSUME LifeInv, DqThread
  PROVE  /\ arg'["app"] = arg["app"] /\ pc'["app"] = pc["app"]
         /\ UNCHANGED <<goal, bufs, mapped>>
<1>0. pc \in [Threads -> AppLabels \cup DqLabels] /\ arg \in [Threads -> Planes]
      /\ Threads = {"app", "dq"}
  BY CallFacts
<1>1. /\ UNCHANGED arg \/ \E y : arg' = [arg EXCEPT !["dq"] = y]
      /\ UNCHANGED pc \/ \E l : pc' = [pc EXCEPT !["dq"] = l]
      /\ UNCHANGED <<goal, bufs, mapped>>
  BY ZenonT(60) DEF DqThread, StreamCheck, StreamOff, AfterStreamOff, AbortNext, DqCount, DqBegin,
     DqTest, DqDequeue, DqIoctl, DqCallback, DqAgain, DqFailed, DqStreaming, DqLeave, DqEnd,
     Moves, Returns, Abort, CallStreamOff, Goto
<1> QED
  BY <1>0, <1>1

(* The steps that change where buffers are, or their count.                                *)
Puts == \E p \in Planes : \E i \in Indices(p) : i <= bufs[p] /\ Queue(p, i)
Takes == AppDequeue \/ DqDequeue

LEMMA DeviceEffects ==
  ASSUME LifeInv, ItemTypes, Next
  PROVE  \/ UNCHANGED deviceVars
         \/ (QueueCapture \/ QueueBuffer \/ DqCallback) /\ Puts /\ UNCHANGED bufs
         \/ Takes
         \/ \E t \in Threads : StreamOff(t) \/ DqCount(t)
         \/ DeinitRelease \/ Process
<1>0. "app" \in Threads /\ "dq" \in Threads /\ "capture" \in Planes
  BY DEF Threads, Planes
<1>1. ASSUME App, ~QueueCapture, ~QueueBuffer, ~AppDequeue PROVE UNCHANGED deviceVars
  BY <1>1, ZenonT(60) DEF App, Control, SetCaptureFormat, SetOutputFormat, SetFormat,
     SetupOutput, SetupCapture, Setup, SetupPlane, StreamOutput, StreamCapture, TurnOn, StreamOn,
     CannotTurnOn, Start, StartDQThread, DequeueOutput, Wait, OtherCall, StopDQThread, Delete
<1>2. CASE QueueCapture
  <2>1. /\ UNCHANGED bufs
        /\ UNCHANGED deviceVars
           \/ (item["app"] <= bufs["capture"] /\ Queue("capture", item["app"]))
    BY <1>2, Zenon DEF QueueCapture
  <2>2. ASSUME item["app"] <= bufs["capture"] PROVE item["app"] \in Indices("capture")
    <3>1. item["app"] \in Nat \ {0}
      BY <1>0, PlaneAssumption DEF ItemTypes, Indices
    <3>2. bufs["capture"] \in Nat /\ bufs["capture"] <= Requested["capture"]
          /\ Requested["capture"] \in Nat
      BY <1>0, PlaneAssumption DEF LifeInv, BufferTypes, StreamInv
    <3> QED
      BY <2>2, <3>1, <3>2 DEF Indices
  <2> QED
    BY <1>0, <1>2, <2>1, <2>2 DEF Puts
<1>3. CASE QueueBuffer
  <2>1. PICK p \in Planes : \E i \in 1..bufs[p] : Queue(p, i)
    BY <1>3 DEF QueueBuffer
  <2>2. bufs[p] \in Nat /\ bufs[p] <= Requested[p] /\ Requested[p] \in Nat
    BY PlaneAssumption DEF LifeInv, BufferTypes, StreamInv
  <2>3. Puts
    BY <2>1, <2>2 DEF Puts, Indices
  <2> QED
    BY <1>3, <2>3 DEF QueueBuffer
<1>4. CASE DqCallback
  <2>1. item["dq"] \in Indices("capture") /\ item["dq"] <= bufs["capture"]
    <3>1. pc["dq"] = "callback"
      BY <1>4 DEF DqCallback
    <3>2. item["dq"] \in mapped /\ mapped \subseteq 1..bufs["capture"]
      BY <3>1 DEF LifeInv, BuffersOutliveThread, BufferTypes
    <3>3. bufs["capture"] \in Nat /\ bufs["capture"] <= Requested["capture"]
          /\ Requested["capture"] \in Nat
      BY <1>0, PlaneAssumption DEF LifeInv, BufferTypes, StreamInv
    <3>4. item["dq"] \in 1..bufs["capture"]
      BY <3>2
    <3> QED
      BY <3>3, <3>4 DEF Indices
  <2>2. UNCHANGED bufs /\ (UNCHANGED deviceVars \/ Queue("capture", item["dq"]))
    BY <1>4, Zenon DEF DqCallback
  <2> QED
    BY <1>0, <1>4, <2>1, <2>2 DEF Puts
<1>5. ASSUME InCall PROVE \/ UNCHANGED deviceVars \/ DeinitRelease
                          \/ StreamOff("app") \/ DqCount("app")
  BY <1>5, ZenonT(60) DEF InCall, StreamCheck, AbortNext, WaitForDQThread, Join, SetupBuffer
<1>6. ASSUME DqThread PROVE \/ UNCHANGED deviceVars \/ DqCallback \/ DqDequeue
                            \/ StreamOff("dq") \/ DqCount("dq")
  BY <1>6, ZenonT(60) DEF DqThread, StreamCheck, AbortNext, DqBegin, DqTest, DqAgain, DqFailed,
     DqStreaming, DqLeave, DqEnd
<1> QED
  BY <1>0, <1>1, <1>2, <1>3, <1>4, <1>5, <1>6 DEF Next, Inner, Dq, Device, Takes

LEMMA HandStep == LifeInv /\ PlanesInHand /\ [Next]_vars => PlanesInHand'
<1> SUFFICES ASSUME LifeInv, PlanesInHand, [Next]_vars PROVE PlanesInHand'
  OBVIOUS
<1>0. /\ pc \in [Threads -> AppLabels \cup DqLabels] /\ arg \in [Threads -> Planes]
      /\ Threads = {"app", "dq"} /\ Planes = {"output", "capture"}
      /\ pc["dq"] \in {"check", "streamoff"} => ret["dq"] \in {"abort2", "leave"}
      /\ pc["app"] \in {"check", "streamoff"} =>
           ret["app"] \in {"ready", "abort2", "leave", "waitdq"}
  BY CallFacts
<1>1. CASE App \/ InCall
  <2>1. arg'["dq"] = "output" => pc'["dq"] \in {"check", "streamoff"}
    BY <1>1, AppMoves DEF PlanesInHand, Active, DqLabels
  <2>2. ASSUME pc'["app"] = "dequeue" PROVE arg'["app"] = "output"
    <3>1. CASE DequeueOutput
      BY <1>0, <3>1 DEF DequeueOutput
    <3>2. ASSUME ~DequeueOutput PROVE pc'["app"] = pc["app"] /\ arg' = arg
      <4>1. ASSUME App
            PROVE  \/ UNCHANGED <<pc, arg>> \/ (Goto("dq", "begin") /\ UNCHANGED arg)
                   \/ \E l \in AppLabels \ {"dequeue"} : Goto("app", l)
        BY <3>2, <4>1, ZenonT(60) DEF App, Control, Fails, SetCaptureFormat, SetOutputFormat,
           SetFormat, SetupOutput, SetupCapture, Setup, SetupPlane, StreamOutput, StreamCapture,
           TurnOn, CannotTurnOn, Start, StartDQThread, QueueBuffer, QueueCapture, AppDequeue,
           DqIoctl, Returns, Wait, OtherCall, StopDQThread, Delete, Moves, Deinit, Abort,
           CallStreamOff, threadVars, AppLabels
      <4>2. ASSUME InCall PROVE pc'["app"] # "dequeue"
        <5>1. CASE StreamCheck("app") \/ StreamOff("app")
          BY <1>0, <5>1 DEF StreamCheck, StreamOff, AfterStreamOff, Moves, Returns, Goto
        <5>2. CASE AbortNext("app") \/ DqCount("app") \/ WaitForDQThread
          BY <1>0, <5>2 DEF AbortNext, CallStreamOff, DqCount, WaitForDQThread, Moves, Returns, Goto
        <5>3. CASE Join
          BY <1>0, <5>3 DEF Join, AfterJoin, Goto
        <5>4. CASE DeinitRelease \/ SetupBuffer
          BY <1>0, <5>4 DEF DeinitRelease, SetupBuffer, Deinit, CallStreamOff, Moves, Goto
        <5> QED
          BY <4>2, <5>1, <5>2, <5>3, <5>4, Zenon DEF InCall
      <4> QED
        BY <1>0, <1>1, <2>2, <4>1, <4>2 DEF Goto
    <3> QED
      BY <2>2, <3>1, <3>2 DEF PlanesInHand
  <2> QED
    BY <2>1, <2>2 DEF PlanesInHand
<1>2. CASE DqThread
  <2>1. pc'["app"] = "dequeue" => arg'["app"] = "output"
    BY <1>2, DqMoves DEF PlanesInHand
  <2>2. arg["dq"] = "output" => pc["dq"] \in {"check", "streamoff"}
    BY DEF PlanesInHand
  <2>3. arg'["dq"] = "output" => pc'["dq"] \in {"check", "streamoff"}
    <3>1. CASE StreamCheck("dq") \/ StreamOff("dq")
      BY <1>0, <3>1 DEF StreamCheck, StreamOff, AfterStreamOff, Moves, Returns, Goto
    <3>2. CASE AbortNext("dq") \/ DqCount("dq")
      BY <1>0, <2>2, <3>2 DEF AbortNext, CallStreamOff, DqCount, Moves, Goto
    <3>3. CASE DqBegin \/ DqTest \/ DqAgain \/ DqStreaming \/ DqLeave \/ DqEnd
      BY <2>2, <3>3 DEF DqBegin, DqTest, DqAgain, DqStreaming, DqLeave, DqEnd, Moves
    <3>4. CASE DqDequeue
      BY <1>0, <2>2, <3>4 DEF DqDequeue, DqIoctl, Returns
    <3>5. CASE DqCallback \/ DqFailed
      BY <1>0, <2>2, <3>5 DEF DqCallback, DqFailed, Returns, Moves, Abort, CallStreamOff, Goto
    <3> QED
      BY <1>2, <3>1, <3>2, <3>3, <3>4, <3>5, Zenon DEF DqThread
  <2> QED
    BY <2>1, <2>3 DEF PlanesInHand
<1>3. CASE Device \/ UNCHANGED vars
  BY <1>3 DEF Device, Process, PlanesInHand, threadVars, vars, planeVars
<1> QED
  BY <1>1, <1>2, <1>3, Zenon DEF Next, Inner, Dq

(* A DQBUF that succeeds, by the thread whose plane it is.                                 *)
LEMMA TakeFacts ==
  ASSUME LifeInv, PlanesInHand, Takes
  PROVE  \/ /\ UNCHANGED where
            /\ \E t \in Threads :
                 /\ pc[t] # "dequeued" /\ pc'[t] # "dequeued"
                 /\ \A u \in Threads \ {t} : pc'[u] = pc[u] /\ arg'[u] = arg[u]
         \/ \E t \in Threads : \E i \in Indices(arg[t]) :
              /\ pc[t] # "dequeued" /\ pc' = [pc EXCEPT ![t] = "dequeued"] /\ UNCHANGED arg
              /\ where[arg[t]][i] = "done"
              /\ where' = [where EXCEPT ![arg[t]][i] = "app"]
<1>0. /\ pc \in [Threads -> AppLabels \cup DqLabels] /\ arg \in [Threads -> Planes]
      /\ Threads = {"app", "dq"} /\ Planes = {"output", "capture"}
  BY CallFacts
<1>1. ASSUME NEW t \in Threads, DqIoctl(t, arg[t]), pc[t] # "dequeued"
      PROVE  \/ /\ UNCHANGED where /\ pc'[t] # "dequeued"
                /\ \A u \in Threads \ {t} : pc'[u] = pc[u] /\ arg'[u] = arg[u]
             \/ \E i \in Indices(arg[t]) :
                  /\ pc' = [pc EXCEPT ![t] = "dequeued"] /\ UNCHANGED arg
                  /\ where[arg[t]][i] = "done"
                  /\ where' = [where EXCEPT ![arg[t]][i] = "app"]
  <2>1. \/ \E l \in {"failed", "ready", "again"} : Returns(t, l) /\ UNCHANGED where
        \/ \E i \in Indices(arg[t]) :
             /\ pc' = [pc EXCEPT ![t] = "dequeued"] /\ UNCHANGED arg
             /\ where[arg[t]][i] = "done"
             /\ where' = [where EXCEPT ![arg[t]][i] = "app"]
    BY <1>1, Zenon DEF DqIoctl, Goto
  <2>2. ASSUME NEW l \in {"failed", "ready", "again"}, Returns(t, l)
        PROVE  /\ pc'[t] # "dequeued"
               /\ \A u \in Threads \ {t} : pc'[u] = pc[u] /\ arg'[u] = arg[u]
    BY <1>0, <2>2 DEF Returns, Goto
  <2> QED
    BY <2>1, <2>2
<1>2. CASE AppDequeue
  <2>1. pc["app"] = "dequeue" /\ arg["app"] = "output" /\ DqIoctl("app", "output")
    BY <1>2 DEF AppDequeue, PlanesInHand
  <2> QED
    BY <1>0, <1>1, <2>1
<1>3. CASE DqDequeue
  <2>1. pc["dq"] = "dq" /\ arg["dq"] = "capture" /\ DqIoctl("dq", "capture")
    BY <1>0, <1>3 DEF DqDequeue, PlanesInHand
  <2> QED
    BY <1>0, <1>1, <2>1
<1> QED
  BY <1>2, <1>3 DEF Takes

(* What else the steps that move buffers leave alone.                                     *)
LEMMA BufsMoves == Next => UNCHANGED bufs \/ DeinitRelease \/ \E p \in Planes : SetupPlane(p)
<1>0. "output" \in Planes /\ "capture" \in Planes
  BY DEF Planes
<1>1. App => UNCHANGED bufs \/ \E p \in Planes : SetupPlane(p)
  BY <1>0, ZenonT(60) DEF App, Control, SetCaptureFormat, SetOutputFormat, SetFormat, SetupOutput,
     SetupCapture, Setup, StreamOutput, StreamCapture, TurnOn, StreamOn, CannotTurnOn, Start,
     StartDQThread, QueueCapture, QueueBuffer, DequeueOutput, AppDequeue, DqIoctl, Wait,
     OtherCall, StopDQThread, Delete
<1>2. InCall => UNCHANGED bufs \/ DeinitRelease
  BY ZenonT(60) DEF InCall, StreamCheck, StreamOff, AbortNext, DqCount, WaitForDQThread, Join,
     SetupBuffer
<1>3. DqThread => UNCHANGED bufs
  BY ZenonT(60) DEF DqThread, StreamCheck, StreamOff, AbortNext, DqCount, DqBegin, DqTest,
     DqDequeue, DqIoctl, DqCallback, DqAgain, DqFailed, DqStreaming, DqLeave, DqEnd
<1>4. Device => UNCHANGED bufs
  BY DEF Device, Process
<1> QED
  BY <1>1, <1>2, <1>3, <1>4, Zenon DEF Next, Inner, Dq

LEMMA DeletesOn == LifeInv /\ Next /\ goal = "delete" => goal' = "delete"
<1> SUFFICES ASSUME LifeInv, Next, goal = "delete" PROVE goal' = "delete"
  OBVIOUS
<1>1. ~App /\ (InCall => UNCHANGED goal \/ DeinitRelease)
  BY Deinitializing
<1>2. DeinitRelease => goal' = "delete"
  BY DEF DeinitRelease, Deinit, Moves
<1>3. Dq => goal' = "delete"
  BY DqMoves DEF Dq
<1>4. Device => goal' = "delete"
  BY DEF Device, Process, threadVars
<1> QED
  BY <1>1, <1>2, <1>3, <1>4 DEF Next, Inner

(* Between a DQBUF and the section that counts it, the thread does nothing else.            *)
LEMMA DequeuedKept ==
  ASSUME LifeInv, Next, ~Takes, \A t \in Threads : ~DqCount(t)
  PROVE  \A p \in Planes : Between(pc', arg', p) = Between(pc, arg, p)
<1>0. /\ pc \in [Threads -> AppLabels \cup DqLabels] /\ arg \in [Threads -> Planes]
      /\ Threads = {"app", "dq"}
      /\ pc["dq"] \in {"check", "streamoff"} => ret["dq"] \in {"abort2", "leave"}
      /\ pc["app"] \in {"check", "streamoff"} =>
           ret["app"] \in {"ready", "abort2", "leave", "waitdq"}
      /\ ~DqCount("app") /\ ~DqCount("dq") /\ ~AppDequeue /\ ~DqDequeue
  BY CallFacts DEF Takes
<1> SUFFICES \A t \in Threads : \/ pc'[t] = pc[t] /\ arg'[t] = arg[t]
                                \/ pc[t] # "dequeued" /\ pc'[t] # "dequeued"
  <2>1. SUFFICES ASSUME NEW p \in Planes PROVE Between(pc', arg', p) = Between(pc, arg, p)
    OBVIOUS
  <2> QED
    BY BetweenSame
<1>1. CASE App
  <2>1. \/ pc'["dq"] = pc["dq"] /\ arg'["dq"] = arg["dq"]
        \/ pc["dq"] # "dequeued" /\ pc'["dq"] # "dequeued"
    BY <1>1, AppMoves DEF Active, DqLabels
  <2>2. pc["app"] \in {"ready", "error"}
    BY <1>0, <1>1 DEF App, Control, At, SetCaptureFormat, SetOutputFormat, SetupOutput,
       SetupCapture, StreamOutput, StreamCapture, Start, QueueCapture, QueueBuffer, Later,
       DequeueOutput, Wait, OtherCall, Delete
  <2>3. \/ UNCHANGED pc \/ Goto("dq", "begin")
        \/ \E l \in AppLabels \ {"dequeued"} : Goto("app", l)
    BY <1>0, <1>1, ZenonT(60) DEF App, Control, Fails, SetCaptureFormat, SetOutputFormat,
       SetFormat, SetupOutput, SetupCapture, Setup, SetupPlane, StreamOutput, StreamCapture,
       TurnOn, CannotTurnOn, Start, StartDQThread, QueueBuffer, QueueCapture, DequeueOutput,
       Wait, OtherCall, StopDQThread, Delete, Moves, Deinit, Abort, CallStreamOff, threadVars,
       AppLabels
  <2>4. pc["app"] # "dequeued" /\ pc'["app"] # "dequeued"
    BY <1>0, <2>2, <2>3 DEF Goto
  <2> QED
    BY <1>0, <2>1, <2>4
<1>2. CASE InCall
  <2>1. \/ pc'["dq"] = pc["dq"] /\ arg'["dq"] = arg["dq"]
        \/ pc["dq"] # "dequeued" /\ pc'["dq"] # "dequeued"
    BY <1>2, AppMoves DEF Active, DqLabels
  <2>2. pc["app"] # "dequeued" /\ pc'["app"] # "dequeued"
    <3>1. CASE StreamCheck("app") \/ StreamOff("app")
      BY <1>0, <3>1 DEF StreamCheck, StreamOff, AfterStreamOff, Moves, Returns, Goto
    <3>2. CASE AbortNext("app") \/ WaitForDQThread
      BY <1>0, <3>2 DEF AbortNext, CallStreamOff, WaitForDQThread, Moves, Returns, Goto
    <3>3. CASE Join
      BY <1>0, <3>3 DEF Join, AfterJoin, Goto
    <3>4. CASE DeinitRelease \/ SetupBuffer
      BY <1>0, <3>4 DEF DeinitRelease, SetupBuffer, Deinit, CallStreamOff, Moves, Goto
    <3> QED
      BY <1>0, <1>2, <3>1, <3>2, <3>3, <3>4, Zenon DEF InCall
  <2> QED
    BY <1>0, <2>1, <2>2
<1>3. CASE DqThread
  <2>1. pc'["app"] = pc["app"] /\ arg'["app"] = arg["app"]
    BY <1>3, DqMoves
  <2>2. pc["dq"] # "dequeued" /\ pc'["dq"] # "dequeued"
    <3>1. CASE StreamCheck("dq") \/ StreamOff("dq")
      BY <1>0, <3>1 DEF StreamCheck, StreamOff, AfterStreamOff, Moves, Returns, Goto
    <3>2. CASE AbortNext("dq") \/ DqBegin \/ DqTest \/ DqAgain \/ DqStreaming \/ DqLeave \/ DqEnd
      BY <1>0, <3>2 DEF AbortNext, CallStreamOff, DqBegin, DqTest, DqAgain, DqStreaming, DqLeave,
         DqEnd, Moves, Goto
    <3>3. CASE DqCallback \/ DqFailed
      BY <1>0, <3>3 DEF DqCallback, DqFailed, Returns, Moves, Abort, CallStreamOff, Goto
    <3> QED
      BY <1>0, <1>3, <3>1, <3>2, <3>3, Zenon DEF DqThread
  <2> QED
    BY <1>0, <2>1, <2>2
<1>4. CASE Device
  BY <1>4 DEF Device, Process, threadVars
<1> QED
  BY <1>1, <1>2, <1>3, <1>4, Zenon DEF Next, Inner, Dq

(* Where buffers go, plane by plane: only a qBuffer gives the device one more.              *)
LEMMA PlaceEffects ==
  ASSUME LifeInv, ItemTypes, PlanesInHand, Next
  PROVE  /\ DOMAIN where = Planes /\ \A p \in Planes : DOMAIN where[p] = Indices(p)
         /\ \/ UNCHANGED where
            \/ \E p \in Planes : \E i \in Indices(p) :
                 /\ QueueCapture \/ QueueBuffer \/ DqCallback
                 /\ i <= bufs[p] /\ Queue(p, i)
            \/ \E p \in Planes : \E i \in Indices(p) :
                 where[p][i] = "done" /\ where' = [where EXCEPT ![p][i] = "app"]
            \/ \E p \in Planes : where' = [where EXCEPT ![p] = [i \in Indices(p) |-> "app"]]
            \/ Process
<1>0. DOMAIN where = Planes /\ \A p \in Planes : DOMAIN where[p] = Indices(p)
  BY DEF LifeInv, BufferTypes
<1>1. arg \in [Threads -> Planes] /\ "app" \in Threads
  BY CallFacts
<1>2. CASE UNCHANGED deviceVars \/ Process
  BY <1>0, <1>2 DEF deviceVars
<1>3. CASE (QueueCapture \/ QueueBuffer \/ DqCallback) /\ Puts
  BY <1>0, <1>3 DEF Puts
<1>4. CASE Takes
  BY <1>0, <1>1, <1>4, TakeFacts
<1>5. ASSUME NEW t \in Threads, StreamOff(t) \/ DqCount(t)
      PROVE  \/ UNCHANGED where
             \/ where' = [where EXCEPT ![arg[t]] = [i \in Indices(arg[t]) |-> "app"]]
  BY <1>5, Zenon DEF StreamOff, DqCount, deviceVars
<1>6. CASE DeinitRelease
  <2>1. \/ UNCHANGED where
        \/ where' = [where EXCEPT ![arg["app"]] = [i \in Indices(arg["app"]) |-> "app"]]
    BY <1>6, Zenon DEF DeinitRelease
  <2> QED
    BY <1>0, <1>1, <2>1
<1> QED
  BY <1>0, <1>1, <1>2, <1>3, <1>4, <1>5, <1>6, DeviceEffects

LEMMA AllocatedStep ==
  LifeInv /\ ItemTypes /\ PlanesInHand /\ HeldAllocated /\ [Next]_vars => HeldAllocated'
<1> SUFFICES ASSUME LifeInv, ItemTypes, PlanesInHand, HeldAllocated, [Next]_vars
             PROVE  HeldAllocated'
  OBVIOUS
<1>0. bufs \in [Planes -> Nat]
  BY CallFacts
<1>1. CASE UNCHANGED vars
  BY <1>1 DEF vars, planeVars, deviceVars, HeldAllocated
<1>2. CASE Next /\ \E p \in Planes : SetupPlane(p)
  <2>1. PICK p \in Planes : SetupPlane(p)
    BY <1>2
  <2>2. UNCHANGED where /\ bufs[p] = 0 /\ \A q \in Planes \ {p} : bufs'[q] = bufs[q]
    BY <1>0, <2>1 DEF SetupPlane, deviceVars
  <2>3. \A i \in Indices(p) : where[p][i] = "app"
    BY <2>2 DEF HeldAllocated, Indices
  <2> QED
    BY <2>2, <2>3 DEF HeldAllocated
<1>3. CASE DeinitRelease
  <2>1. arg["app"] \in Planes /\ DOMAIN where = Planes
    BY <1>3 DEF LifeInv, ThreadTypes, Threads, BufferTypes
  <2>2. \/ UNCHANGED <<bufs, where>>
        \/ /\ bufs' = [bufs EXCEPT ![arg["app"]] = 0]
           /\ where' = [where EXCEPT ![arg["app"]] = [i \in Indices(arg["app"]) |-> "app"]]
    BY <1>3, Zenon DEF DeinitRelease
  <2> QED
    BY <1>0, <2>1, <2>2 DEF HeldAllocated
<1>4. CASE Next /\ UNCHANGED bufs
  <2>1. SUFFICES ASSUME NEW p \in Planes, NEW i \in Indices(p), where'[p][i] # "app"
                 PROVE  i <= bufs[p]
    BY <1>4 DEF HeldAllocated
  <2>2. DOMAIN where = Planes /\ \A q \in Planes : DOMAIN where[q] = Indices(q)
    BY <1>4, PlaceEffects
  <2>3. SUFFICES ASSUME where[p][i] = "app" PROVE i <= bufs[p]
    BY DEF HeldAllocated
  <2>4. ASSUME NEW q \in Planes, NEW j \in Indices(q), j <= bufs[q], Queue(q, j)
        PROVE  i <= bufs[p]
    BY <2>1, <2>2, <2>3, <2>4 DEF Queue
  <2>5. ASSUME NEW q \in Planes, NEW j \in Indices(q), where' = [where EXCEPT ![q][j] = "app"]
        PROVE  FALSE
    BY <2>1, <2>2, <2>3, <2>5
  <2>6. ASSUME NEW q \in Planes, where' = [where EXCEPT ![q] = [j \in Indices(q) |-> "app"]]
        PROVE  FALSE
    BY <2>1, <2>2, <2>3, <2>6
  <2>7. ASSUME Process PROVE FALSE
    <3>1. PICK j \in Indices("output"), k \in Indices("capture") :
            /\ where["output"][j] = "queued" /\ where["capture"][k] = "queued"
            /\ where' = [where EXCEPT !["output"][j] = "done", !["capture"][k] = "done"]
      BY <2>7 DEF Process
    <3> QED
      BY <2>1, <2>2, <2>3, <3>1 DEF Planes
  <2> QED
    BY <1>4, <2>1, <2>3, <2>4, <2>5, <2>6, <2>7, PlaceEffects
<1> QED
  BY <1>1, <1>2, <1>3, <1>4, BufsMoves

(* A set-up that fails asks for a deinitPlane of a plane whose buffers the device has not. *)
LEMMA GoalSetup ==
  ASSUME LifeInv, Next, goal # "setup", goal' = "setup"
  PROVE  \/ \E p \in Planes : bufs[p] = 0 /\ UNCHANGED where /\ arg'["app"] = p
         \/ pc["app"] = "setup" /\ UNCHANGED where /\ arg'["app"] = "capture"
<1>0. arg \in [Threads -> Planes] /\ Threads = {"app", "dq"} /\ Planes = {"output", "capture"}
      /\ ("output" \in Planes /\ "capture" \in Planes)
  BY CallFacts
<1>1. ~DqThread /\ ~Device
  BY DqMoves DEF Device, Process, threadVars
<1>2. ASSUME App PROVE \E p \in Planes : SetupPlane(p) /\ goal' = "setup"
  BY <1>0, <1>2, ZenonT(60) DEF App, Control, Fails, SetCaptureFormat, SetOutputFormat,
     SetFormat, SetupOutput, SetupCapture, Setup, StreamOutput, StreamCapture,
     TurnOn, CannotTurnOn, Start, StartDQThread, QueueBuffer, QueueCapture, DequeueOutput,
     AppDequeue, DqIoctl, Returns, Wait, OtherCall, StopDQThread, Delete, Moves, Deinit, Abort,
     CallStreamOff, threadVars
<1>3. ASSUME NEW p \in Planes, SetupPlane(p), goal' = "setup"
      PROVE  bufs[p] = 0 /\ UNCHANGED where /\ arg'["app"] = p
  BY <1>0, <1>3 DEF SetupPlane, Deinit, CallStreamOff, deviceVars
<1>4. ASSUME InCall PROVE SetupBuffer /\ goal' = "setup"
  BY <1>4, ZenonT(60) DEF InCall, StreamCheck, StreamOff, AfterStreamOff, AbortNext, DqCount,
     WaitForDQThread, Join, DeinitRelease, Moves, Returns, Deinit
<1>5. ASSUME SetupBuffer, goal' = "setup"
      PROVE  pc["app"] = "setup" /\ UNCHANGED where /\ arg'["app"] = "capture"
  BY <1>0, <1>5 DEF SetupBuffer, Deinit, CallStreamOff, deviceVars
<1> QED
  BY <1>1, <1>2, <1>3, <1>4, <1>5 DEF Next, Inner, Dq

LEMMA FailedStep ==
  LifeInv /\ ItemTypes /\ PlanesInHand /\ HeldAllocated /\ FailedSetupEmpty /\ [Next]_vars
  => FailedSetupEmpty'
<1> SUFFICES ASSUME LifeInv, ItemTypes, PlanesInHand, HeldAllocated, FailedSetupEmpty,
                    [Next]_vars, goal' = "setup"
             PROVE  \A i \in Indices(arg'["app"]) : where'[arg'["app"]][i] = "app"
  BY DEF FailedSetupEmpty
<1>1. CASE UNCHANGED vars
  BY <1>1 DEF vars, planeVars, deviceVars, threadVars, FailedSetupEmpty
<1>2. CASE Next /\ goal # "setup"
  <2>1. CASE \E p \in Planes : bufs[p] = 0 /\ UNCHANGED where /\ arg'["app"] = p
    BY <2>1 DEF HeldAllocated, Indices
  <2>2. CASE pc["app"] = "setup" /\ UNCHANGED where /\ arg'["app"] = "capture"
    BY <2>2 DEF LifeInv, Quiet
  <2> QED
    BY <1>2, <2>1, <2>2, GoalSetup
<1>3. CASE Next /\ goal = "setup"
  <2>0. /\ DOMAIN where = Planes /\ \A q \in Planes : DOMAIN where[q] = Indices(q)
        /\ \A i \in Indices(arg["app"]) : where[arg["app"]][i] = "app"
        /\ arg["app"] \in {"output", "capture"} /\ Planes = {"output", "capture"}
    BY <1>3, PlaceEffects, CallFacts DEF FailedSetupEmpty
  <2>1. ~App /\ (InCall => UNCHANGED arg \/ DeinitRelease)
    BY <1>3, Deinitializing
  <2>2. ~DeinitRelease
    BY <1>3 DEF DeinitRelease
  <2>3. arg'["app"] = arg["app"]
    <3>1. Dq => arg'["app"] = arg["app"]
      BY DqMoves DEF Dq
    <3>2. Device => arg'["app"] = arg["app"]
      BY DEF Device, Process, threadVars
    <3> QED
      BY <1>3, <2>1, <2>2, <3>1, <3>2 DEF Next, Inner
  <2>4. SUFFICES ASSUME NEW i \in Indices(arg["app"]), where'[arg["app"]][i] # "app" PROVE FALSE
    BY <2>3
  <2>5. ASSUME NEW q \in Planes, NEW j \in Indices(q), QueueCapture \/ QueueBuffer \/ DqCallback,
               Queue(q, j)
        PROVE  FALSE
    <3>1. DqCallback
      BY <2>1, <2>5 DEF App
    <3>2. arg["app"] = "output"
      BY <1>3, <2>0, <3>1 DEF DqCallback, LifeInv, Quiet
    <3>3. \A k \in Indices("output") : where'["output"][k] = where["output"][k]
      <4>1. UNCHANGED deviceVars \/ where' = [where EXCEPT !["capture"][item["dq"]] = "queued"]
        BY <3>1, Zenon DEF DqCallback, Queue
      <4> QED
        BY <2>0, <4>1 DEF deviceVars
    <3> QED
      BY <2>0, <2>4, <3>2, <3>3
  <2>6. ASSUME NEW q \in Planes, NEW j \in Indices(q), where' = [where EXCEPT ![q][j] = "app"]
        PROVE  FALSE
    BY <2>0, <2>4, <2>6
  <2>7. ASSUME NEW q \in Planes, where' = [where EXCEPT ![q] = [j \in Indices(q) |-> "app"]]
        PROVE  FALSE
    BY <2>0, <2>4, <2>7
  <2>8. ASSUME Process PROVE FALSE
    BY <2>0, <2>8 DEF Process
  <2> QED
    BY <1>3, <2>0, <2>4, <2>5, <2>6, <2>7, <2>8, PlaceEffects
<1> QED
  BY <1>1, <1>2, <1>3

LEMMA CountStep == LifeInv /\ ItemTypes /\ CountTypes /\ [Next]_vars => CountTypes'
<1> SUFFICES ASSUME LifeInv, ItemTypes, CountTypes, [Next]_vars PROVE CountTypes'
  OBVIOUS
<1>0. /\ Wrap \in Nat \ {0} /\ arg \in [Threads -> Planes]
      /\ num \in [Planes -> 0..(Wrap - 1)] /\ straddled \in [Planes -> BOOLEAN]
  <2>1. Wrap \in Nat /\ Requested["output"] \in Nat /\ Requested["output"] + 2 < Wrap
    BY PlaneAssumption DEF Planes
  <2> QED
    BY <2>1, CallFacts DEF CountTypes
<1>1. \A n \in 0..(Wrap - 1) : (n + 1) % Wrap \in 0..(Wrap - 1) /\ (n - 1) % Wrap \in 0..(Wrap - 1)
  BY <1>0
<1>2. ASSUME NEW p \in Planes, NEW x \in 0..(Wrap - 1), num' = [num EXCEPT ![p] = x]
      PROVE  num' \in [Planes -> 0..(Wrap - 1)]
  BY <1>0, <1>2
<1>3. ASSUME NEW p \in Planes, NEW i \in Indices(p), Queue(p, i) PROVE CountTypes'
  BY <1>0, <1>1, <1>2, <1>3 DEF Queue, CountTypes
<1>4. ASSUME NEW t \in Threads, DqCount(t) PROVE CountTypes'
  BY <1>0, <1>1, <1>2, <1>4 DEF DqCount, CountTypes
<1>5. ASSUME NEW t \in Threads, StreamOff(t) PROVE CountTypes'
  <2>1. \/ UNCHANGED <<num, straddled>>
        \/ /\ num' = [num EXCEPT ![arg[t]] = 0]
           /\ straddled' = [straddled EXCEPT ![arg[t]] = Dequeuing(arg[t]) # {}]
    BY <1>5, Zenon DEF StreamOff, deviceVars
  <2>2. (Dequeuing(arg[t]) # {}) \in BOOLEAN
    OBVIOUS
  <2>3. CASE UNCHANGED <<num, straddled>>
    BY <2>3 DEF CountTypes
  <2>4. CASE /\ num' = [num EXCEPT ![arg[t]] = 0]
             /\ straddled' = [straddled EXCEPT ![arg[t]] = Dequeuing(arg[t]) # {}]
    <3>1. straddled' \in [Planes -> BOOLEAN]
      BY <1>0, <2>4, Zenon DEF CountTypes
    <3>2. num' \in [Planes -> 0..(Wrap - 1)]
      BY <1>0, <1>2, <2>4
    <3> QED
      BY <3>1, <3>2 DEF CountTypes
  <2> QED
    BY <2>1, <2>3, <2>4
<1>6. CASE UNCHANGED deviceVars \/ Takes \/ DeinitRelease \/ Process
  <2>1. UNCHANGED <<num, straddled>>
    BY <1>6, Zenon DEF deviceVars, Takes, AppDequeue, DqDequeue, DqIoctl, DeinitRelease, Process
  <2> QED
    BY <2>1 DEF CountTypes
<1>7. CASE UNCHANGED vars
  BY <1>6, <1>7 DEF vars, planeVars
<1> QED
  BY <1>3, <1>4, <1>5, <1>6, <1>7, DeviceEffects DEF Puts

(* Whatever a step does to one plane, the count stays right: a qBuffer and the section      *)
(* after a DQBUF move one buffer and count it, a DQBUF hands the buffer to a thread that     *)
(* will count it, and a STREAMOFF that finds no thread in between starts again from zero.    *)
LEMMA BalanceStep ==
  ASSUME LifeInv, ItemTypes, PlanesInHand, FailedSetupEmpty, CountTypes, BalanceInv, Next,
         goal # "delete", NEW p \in Planes, ~straddled'[p]
  PROVE  Balanced(num', where', pc', arg', p)
<1>0. /\ pc \in [Threads -> AppLabels \cup DqLabels] /\ arg \in [Threads -> Planes]
      /\ DOMAIN where = Planes /\ \A q \in Planes : DOMAIN where[q] = Indices(q)
      /\ Threads = {"app", "dq"} /\ num \in [Planes -> 0..(Wrap - 1)]
      /\ straddled \in [Planes -> BOOLEAN]
  BY CallFacts, PlaceEffects DEF CountTypes
<1>1. ~straddled[p] => Balanced(num, where, pc, arg, p)
  BY DEF BalanceInv
<1>2. ASSUME num'[p] = num[p], straddled'[p] = straddled[p], Held(where', p) = Held(where, p),
             Between(pc', arg', p) = Between(pc, arg, p)
      PROVE  Balanced(num', where', pc', arg', p)
  BY <1>1, <1>2 DEF Balanced
<1>3. CASE Takes
  <2>1. UNCHANGED <<num, straddled>>
    BY <1>3, Zenon DEF Takes, AppDequeue, DqDequeue, DqIoctl
  <2>2. CASE /\ UNCHANGED where
             /\ \E t \in Threads : /\ pc[t] # "dequeued" /\ pc'[t] # "dequeued"
                                   /\ \A u \in Threads \ {t} : pc'[u] = pc[u] /\ arg'[u] = arg[u]
    <3>1. Between(pc', arg', p) = Between(pc, arg, p)
      BY <2>2 DEF Between
    <3> QED
      BY <1>2, <2>1, <2>2, <3>1
  <2>3. ASSUME NEW t \in Threads, NEW i \in Indices(arg[t]),
               pc[t] # "dequeued", pc' = [pc EXCEPT ![t] = "dequeued"], UNCHANGED arg,
               where[arg[t]][i] = "done", where' = [where EXCEPT ![arg[t]][i] = "app"]
        PROVE  Balanced(num', where', pc', arg', p)
    <3>1. CASE p = arg[t]
      <4>1. Held(where', p) = Held(where, p) \ {i}
        BY <1>0, <2>3, <3>1 DEF Held
      <4>2. Between(pc', arg, p) = Between(pc, arg, p) \cup {t}
        BY <1>0, <2>3, <3>1 DEF Between
      <4>3. /\ i \in Indices(p) /\ where[p][i] # "app" /\ pc[t] # "dequeued"
            /\ Balanced(num, where, pc, arg, p)
        BY <1>1, <2>1, <2>3, <3>1
      <4>4. Balanced(num, where', pc', arg, p)
        BY <4>1, <4>2, <4>3, TakeBalance
      <4> QED
        BY <2>1, <2>3, <4>4 DEF Balanced
    <3>2. CASE p # arg[t]
      <4>1. Held(where', p) = Held(where, p)
        BY <1>0, <2>3, <3>2 DEF Held
      <4>2. Between(pc', arg', p) = Between(pc, arg, p)
        BY <1>0, <2>3, <3>2 DEF Between
      <4> QED
        BY <1>2, <2>1, <4>1, <4>2
    <3> QED
      BY <3>1, <3>2
  <2> QED
    BY <1>3, <2>2, <2>3, TakeFacts
<1>4. ASSUME NEW t \in Threads, DqCount(t) PROVE Balanced(num', where', pc', arg', p)
  <2>1. /\ pc[t] = "dequeued" /\ num' = [num EXCEPT ![arg[t]] = (@ - 1) % Wrap]
        /\ UNCHANGED <<where, straddled>>
    BY <1>4 DEF DqCount
  <2>2. /\ pc'[t] # "dequeued"
        /\ \A u \in Threads \ {t} : pc'[u] = pc[u] /\ arg'[u] = arg[u]
    BY <1>0, <1>4 DEF DqCount, Moves, Returns, Goto
  <2>3. CASE p = arg[t]
    <3>1. t \in Between(pc, arg, p) /\ Between(pc', arg', p) = Between(pc, arg, p) \ {t}
      BY <2>1, <2>2, <2>3 DEF Between
    <3>2. num'[p] = (num[p] - 1) % Wrap
      BY <1>0, <2>1, <2>3
    <3> QED
      BY <1>1, <2>1, <3>1, <3>2, CountBalance
  <2>4. CASE p # arg[t]
    <3>1. Between(pc', arg', p) = Between(pc, arg, p)
      BY <2>2, <2>4 DEF Between
    <3>2. num'[p] = num[p]
      BY <1>0, <2>1, <2>4
    <3> QED
      BY <1>2, <2>1, <3>1, <3>2
  <2> QED
    BY <2>3, <2>4
<1>5. CASE ~Takes /\ \A t \in Threads : ~DqCount(t)
  <2>0. Between(pc', arg', p) = Between(pc, arg, p)
    BY <1>5, DequeuedKept
  <2>1. CASE UNCHANGED deviceVars
    BY <1>2, <2>0, <2>1 DEF deviceVars
  <2>2. ASSUME NEW q \in Planes, NEW i \in Indices(q), Queue(q, i)
        PROVE  Balanced(num', where', pc', arg', p)
    <3>1. /\ where[q][i] = "app" /\ where' = [where EXCEPT ![q][i] = "queued"]
          /\ num' = [num EXCEPT ![q] = (@ + 1) % Wrap] /\ UNCHANGED straddled
      BY <2>2 DEF Queue
    <3>2. CASE p = q
      <4>1. Held(where', p) = Held(where, p) \cup {i}
        BY <1>0, <3>1, <3>2 DEF Held
      <4>2. num'[p] = (num[p] + 1) % Wrap
        BY <1>0, <3>1, <3>2
      <4>3. i \in Indices(p) /\ where[p][i] = "app" /\ Balanced(num, where, pc, arg, p)
        BY <1>1, <3>1, <3>2
      <4>4. Balanced(num', where', pc, arg, p)
        BY <4>1, <4>2, <4>3, PutBalance
      <4> QED
        BY <2>0, <4>4 DEF Balanced
    <3>3. CASE p # q
      <4>1. Held(where', p) = Held(where, p) /\ num'[p] = num[p]
        BY <1>0, <3>1, <3>3 DEF Held
      <4> QED
        BY <1>2, <2>0, <3>1, <4>1
    <3> QED
      BY <3>2, <3>3
  <2>3. ASSUME NEW t \in Threads, StreamOff(t) PROVE Balanced(num', where', pc', arg', p)
    <3>1. \/ UNCHANGED <<where, num, straddled>>
          \/ /\ where' = [where EXCEPT ![arg[t]] = [i \in Indices(arg[t]) |-> "app"]]
             /\ num' = [num EXCEPT ![arg[t]] = 0]
             /\ straddled' = [straddled EXCEPT ![arg[t]] = Dequeuing(arg[t]) # {}]
      BY <2>3, Zenon DEF StreamOff, deviceVars
    <3>2. CASE UNCHANGED <<where, num, straddled>>
      BY <1>2, <2>0, <3>2
    <3>3. CASE /\ where' = [where EXCEPT ![arg[t]] = [i \in Indices(arg[t]) |-> "app"]]
               /\ num' = [num EXCEPT ![arg[t]] = 0]
               /\ straddled' = [straddled EXCEPT ![arg[t]] = Dequeuing(arg[t]) # {}]
      <4>1. CASE p = arg[t]
        <5>1. Held(where', p) = {}
          BY <1>0, <3>3, <4>1 DEF Held
        <5>2. num'[p] = 0
          BY <1>0, <3>3, <4>1
        <5>3. Between(pc, arg, p) = {}
          <6>1. straddled'[p] = (Dequeuing(p) # {})
            BY <1>0, <3>3, <4>1, Zenon
          <6> QED
            BY <6>1 DEF Dequeuing, Between
        <5> QED
          BY <2>0, <5>1, <5>2, <5>3, FS_EmptySet DEF Balanced
      <4>2. CASE p # arg[t]
        <5>1. Held(where', p) = Held(where, p) /\ num'[p] = num[p]
          BY <1>0, <3>3, <4>2 DEF Held
        <5>2. straddled'[p] = straddled[p]
          BY <1>0, <3>3, <4>2, Zenon
        <5> QED
          BY <1>2, <2>0, <5>1, <5>2
      <4> QED
        BY <4>1, <4>2
    <3> QED
      BY <3>1, <3>2, <3>3
  <2>4. CASE DeinitRelease
    <3>1. goal = "setup"
      BY <2>4, CallFacts DEF DeinitRelease
    <3>2. /\ UNCHANGED <<num, straddled>>
          /\ \/ UNCHANGED where
             \/ where' = [where EXCEPT ![arg["app"]] = [i \in Indices(arg["app"]) |-> "app"]]
      BY <2>4, Zenon DEF DeinitRelease
    <3>3. Held(where', p) = Held(where, p)
      BY <1>0, <3>1, <3>2 DEF Held, FailedSetupEmpty
    <3> QED
      BY <1>2, <2>0, <3>2, <3>3
  <2>5. CASE Process
    <3>1. PICK j \in Indices("output"), k \in Indices("capture") :
            /\ where["output"][j] = "queued" /\ where["capture"][k] = "queued"
            /\ where' = [where EXCEPT !["output"][j] = "done", !["capture"][k] = "done"]
      BY <2>5 DEF Process
    <3>2. Held(where', p) = Held(where, p)
      BY <1>0, <3>1 DEF Held, Planes
    <3> QED
      BY <1>2, <2>0, <2>5, <3>2 DEF Process
  <2> QED
    BY <1>5, <2>1, <2>2, <2>3, <2>4, <2>5, DeviceEffects DEF Puts
<1> QED
  BY <1>3, <1>4, <1>5

-----------------------------------------------------------------------------
Counting == ItemTypes /\ PlanesInHand /\ HeldAllocated /\ FailedSetupEmpty
            /\ CountTypes /\ BalanceInv

LEMMA CountInvariant == Spec => []Counting
<1>1. Init => Counting
  <2> SUFFICES ASSUME Init PROVE Counting
    OBVIOUS
  <2>1. /\ where = [p \in Planes |-> [i \in Indices(p) |-> "app"]]
        /\ num = [p \in Planes |-> 0] /\ straddled = [p \in Planes |-> FALSE]
        /\ pc = [app |-> "ready", dq |-> "off"] /\ goal = "call"
        /\ arg = [t \in Threads |-> "capture"] /\ item = [t \in Threads |-> 1]
    BY DEF Init, PlaneInit
  <2>2. /\ Requested["output"] \in Nat \ {0} /\ Wrap \in Nat /\ Requested["output"] + 2 < Wrap
    BY PlaneAssumption DEF Planes
  <2>3. ItemTypes
    BY <2>1, <2>2 DEF ItemTypes, Indices
  <2>4. PlanesInHand /\ FailedSetupEmpty /\ HeldAllocated
    BY <2>1 DEF PlanesInHand, Threads, FailedSetupEmpty, HeldAllocated
  <2>5. CountTypes
    BY <2>1, <2>2 DEF CountTypes
  <2>6. BalanceInv
    <3>1. SUFFICES ASSUME NEW p \in Planes PROVE Balanced(num, where, pc, arg, p)
      BY DEF BalanceInv
    <3>2. Held(where, p) = {} /\ Between(pc, arg, p) = {} /\ num[p] = 0
      BY <2>1 DEF Held, Between, Threads
    <3> QED
      BY <3>2, FS_EmptySet DEF Balanced
  <2> QED
    BY <2>3, <2>4, <2>5, <2>6 DEF Counting
<1>2. LifeInv /\ Counting /\ [Next]_vars => Counting'
  <2> SUFFICES ASSUME LifeInv, Counting, [Next]_vars PROVE Counting'
    OBVIOUS
  <2>1. ItemTypes' /\ PlanesInHand' /\ HeldAllocated' /\ FailedSetupEmpty' /\ CountTypes'
    BY ItemStep, HandStep, AllocatedStep, FailedStep, CountStep DEF Counting
  <2>2. BalanceInv'
    <3>1. CASE UNCHANGED vars
      BY <3>1 DEF Counting, BalanceInv, Balanced, vars, planeVars, deviceVars, threadVars
    <3>2. CASE Next
      BY <3>2, DeletesOn, BalanceStep DEF Counting, BalanceInv
    <3> QED
      BY <3>1, <3>2
  <2> QED
    BY <2>1, <2>2 DEF Counting
<1> QED
  BY <1>1, <1>2, LifeInvariant, PTL DEF Spec

(* num_queued_buffers is the number of buffers the device has, with those whose DQBUF     *)
(* has returned and is not counted yet, however the DQ thread's dqBuffer interleaves with   *)
(* the application's calls, and never wraps around, until a STREAMOFF falls in between.     *)
THEOREM QueuedCountIsExact == Spec => []QueuedCountExact
<1>1. Counting => QueuedCountExact
  BY DEF Counting, BalanceInv, QueuedCountExact, Balanced, Held, Between, InDriver, Dequeuing
<1> QED
  BY <1>1, CountInvariant, PTL

(* The types of all variables, the buffers' number and the program's steps included.        *)
THEOREM TypeCorrect == Spec => []TypeOK
<1>1. LifeInv /\ FlagTypes /\ FormatTypes /\ Counting => TypeOK
  <2> SUFFICES ASSUME LifeInv, FlagTypes, FormatTypes, Counting PROVE TypeOK
    OBVIOUS
  <2>1. mapped \subseteq Indices("capture")
    <3>1. /\ mapped \subseteq 1..bufs["capture"] /\ bufs["capture"] \in Nat
          /\ bufs["capture"] <= Requested["capture"] /\ Requested["capture"] \in Nat
      BY PlaneAssumption DEF LifeInv, BufferTypes, StreamInv, Planes
    <3> QED
      BY <3>1 DEF Indices
  <2>2. \A t \in Threads : item[t] \in Indices("output") \cup Indices("capture")
    BY DEF Counting, ItemTypes
  <2>3. codec \in Codecs /\ blocking \in BOOLEAN /\ stop \in BOOLEAN /\ handle \in BOOLEAN
        /\ broken \in BOOLEAN /\ client \in {"consumer", "other"}
    BY DEF FlagTypes, Codecs
  <2> QED
    BY <2>1, <2>2, <2>3 DEF TypeOK, LifeInv, ThreadTypes, BufferTypes, StreamInv, FormatTypes,
       Counting, CountTypes
<1> QED
  BY <1>1, LifeInvariant, CourseInvariant, CountInvariant, PTL
=============================================================================
