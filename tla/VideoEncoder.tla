---------------------------- MODULE VideoEncoder ----------------------------
(* The video encoder element (src/classes/NvVideoEncoder.cpp, NvV4l2Element.cpp) *)
(* from its creation to its deletion, used by one of two clients: the consumer   *)
(* of src/main.cpp, which calls createVideoEncoder and threadInitialize, or any   *)
(* other application, which calls the methods in an order of its own.            *)
EXTENDS V4l2Plane, Sequences

VARIABLES client,     (* "consumer" or "other"                                  *)
          codec,      (* ENCODER_PIXFMT; another client encodes VP8              *)
          step,       (* the call of Program the consumer makes next             *)
          pixfmt,     (* output_plane_pixfmt and capture_plane_pixfmt            *)
          fmt         (* the formats in the driver                              *)

encoderVars == <<client, codec, step, pixfmt, fmt>>
vars == <<planeVars, encoderVars>>

None == "none"
Codecs == {"H264", "H265", "VP8"}

-----------------------------------------------------------------------------
(* The controls of the encoder, in the order of the source, by the functions      *)
(* that set or query them.                                                        *)
FrameAndBitrate   == {"setFrameRate", "setBitrate"}
PeakBitrate       == {"setPeakBitrate"}
ProfileAndLevel   == {"setProfile", "setLevel"}
RateAndGop        == {"setConstantQp", "setRateControlMode", "setMaxPerfMode",
                      "setIFrameInterval", "setIDRInterval"}
ForceIdr          == {"forceIDR"}
SliceAndPreset    == {"setTemporalTradeoff", "setSliceLength", "setHWPresetType"}
FrameParams       == {"setROIParams", "setPPEInitParams", "SetInputMetaParams"}
Features          == {"enableROI", "enableReconCRC", "enableExternalRPS",
                      "enableExternalRC", "enableAV1Tile"}
Av1AndBuffering   == {"setAV1SsimRdo", "setAV1DisableCDFUpdate", "setVirtualBufferSize",
                      "setNumReferenceFrames"}
StreamShape       == {"setSliceIntrarefresh", "setNumBFrames", "setInsertSpsPpsAtIdrEnabled",
                      "setCABAC", "setSliceLevelEncode", "enableMotionVectorReporting"}
Queries           == {"getMetadata", "getMotionVectors"}
QpRange           == {"setQpRange"}
AspectRatio       == {"setSampleAspectRatioWidth", "setSampleAspectRatioHeight"}
VuiAndAud         == {"setInsertVuiEnabled", "setExtendedColorFormat", "setInsertAudEnabled",
                      "setAlliFramesEncode"}
Polling           == {"DevicePoll", "SetPollInterrupt", "ClearPollInterrupt"}
PocAndInitQp      == {"setPocType", "setInitQP"}
FramesToEncode    == {"setFramesToEncode"}
ChromaAndLossless == {"setChromaFactorIDC", "setLossless"}

AnyTime == FrameAndBitrate \cup PeakBitrate \cup ForceIdr \cup Polling
BeforeBuffers == ProfileAndLevel \cup RateAndGop \cup SliceAndPreset \cup Features
                 \cup Av1AndBuffering \cup StreamShape \cup QpRange \cup AspectRatio
                 \cup VuiAndAud \cup PocAndInitQp \cup ChromaAndLossless
Controls == AnyTime \cup BeforeBuffers \cup FrameParams \cup Queries \cup FramesToEncode

(* The macros RETURN_ERROR_IF_...  Buffers count as requested when both planes    *)
(* have some, and as not requested when either has none.                           *)
FormatsNotSet == \E p \in Planes : pixfmt[p] = None
BuffersRequested == \A p \in Planes : bufs[p] # 0
BuffersNotRequested == \E p \in Planes : bufs[p] = 0

Refused(c) == \/ FormatsNotSet /\ c \in AnyTime \cup BeforeBuffers \cup FrameParams
              \/ BuffersRequested /\ c \in BeforeBuffers
              \/ BuffersNotRequested /\ c \in FrameParams \cup Queries
              \/ /\ c \in {"setProfile"} \cup AspectRatio
                 /\ pixfmt["capture"] \notin {"H264", "H265"}

-----------------------------------------------------------------------------
FaultyProgram ==                       \* a faulty variant: the preset comes last
           <<"create", "enableProfiling", "setCapturePlaneFormat", "setOutputPlaneFormat",
             "setBitrate", "setProfile", "setLevel", "setRateControlMode",
             "setIFrameInterval", "setFrameRate",
             "setupOutput", "setupCapture", "setHWPresetType", "streamOutput",
             "streamCapture", "startDQThread", "queueCapture">>

(* createVideoEncoder and threadInitialize, call by call.                          *)
Program == <<"create", "enableProfiling", "setCapturePlaneFormat", "setOutputPlaneFormat",
             "setBitrate", "setProfile", "setLevel", "setRateControlMode",
             "setIFrameInterval", "setFrameRate", "setHWPresetType",
             "setupOutput", "setupCapture", "streamOutput", "streamCapture",
             "startDQThread", "queueCapture">>
Skipped(c) == c = "setLevel" /\ codec # "H264"

Init == /\ PlaneInit
        /\ client \in {"consumer", "other"}
        /\ blocking \in IF client = "consumer" THEN {TRUE} ELSE BOOLEAN
        /\ codec \in IF client = "consumer" THEN {"H264", "H265"} ELSE {"VP8"}
        /\ step = 1
        /\ pixfmt = [p \in Planes |-> None] /\ fmt = [p \in Planes |-> None]

Consuming == client = "consumer" /\ step <= Len(Program)
(* A call of the consumer's program, or one that another client makes when it      *)
(* likes.  After an error both delete the element.                                  *)
At(c) == /\ pc["app"] = "ready"
         /\ \/ Consuming /\ Program[step] = c /\ step' = step + 1
            \/ client = "other" /\ UNCHANGED step
         /\ UNCHANGED <<client, codec>>
(* A call between the program's end and the deletion.                              *)
Later == /\ client = "other" \/ step > Len(Program)
         /\ pc["app"] = "ready"
         /\ UNCHANGED encoderVars
Fails == CanFail /\ Moves("app", "error")

(* createVideoEncoder("enc0"), enableProfiling and the controls leave nothing in    *)
(* the element; they matter by their success only.                                 *)
Control == /\ Consuming
           /\ LET c == Program[step]
              IN  /\ c \in Controls \cup {"create", "enableProfiling"}
                  /\ At(c)
                  /\ \/ ~Refused(c) /\ UNCHANGED threadVars
                     \/ Refused(c) /\ ~Skipped(c) /\ Moves("app", "error")
                     \/ c # "enableProfiling" /\ ~Skipped(c) /\ Fails
                     \/ Skipped(c) /\ UNCHANGED threadVars
           /\ UNCHANGED <<bufs, mapped, on, deviceVars, blocking, dqVars, broken, pixfmt, fmt>>

(* setCapturePlaneFormat and setOutputPlaneFormat note the format before S_FMT,      *)
(* which fails while the plane has buffers.                                         *)
SetFormat(p, f) ==
  /\ pixfmt' = [pixfmt EXCEPT ![p] = f]
  /\ \/ /\ bufs[p] = 0
        /\ fmt' = [fmt EXCEPT ![p] = f]
        /\ UNCHANGED threadVars
     \/ /\ bufs[p] # 0 \/ CanFail
        /\ Moves("app", "error")
        /\ UNCHANGED fmt
  /\ UNCHANGED <<bufs, mapped, on, deviceVars, blocking, dqVars, broken>>
SetCaptureFormat == At("setCapturePlaneFormat") /\ SetFormat("capture", codec)
SetOutputFormat == At("setOutputPlaneFormat") /\ SetFormat("output", "YUV420M")

(* A plane's format is to be set before its buffers are requested.                   *)
Setup(p) == fmt[p] # None /\ SetupPlane(p) /\ UNCHANGED <<pixfmt, fmt>>
SetupOutput  == At("setupOutput") /\ Setup("output")
SetupCapture == At("setupCapture") /\ Setup("capture")

TurnOn(p) == /\ StreamOn(p) /\ UNCHANGED threadVars
             /\ UNCHANGED <<pixfmt, fmt>>
CannotTurnOn(p) == /\ ~on[p]
                   /\ bufs[p] = 0 \/ CanFail
                   /\ Moves("app", "error")
                   /\ UNCHANGED <<bufs, mapped, on, deviceVars, blocking, dqVars, broken, pixfmt, fmt>>
StreamOutput  == At("streamOutput") /\ (TurnOn("output") \/ CannotTurnOn("output"))
StreamCapture == At("streamCapture") /\ (TurnOn("capture") \/ CannotTurnOn("capture"))

Start == At("startDQThread") /\ StartDQThread /\ UNCHANGED <<pixfmt, fmt>>

(* The loop over the empty capture buffers, while the DQ thread is at work.          *)
QueueCapture ==
  /\ Consuming /\ Program[step] = "queueCapture" /\ pc["app"] = "ready"
  /\ LET i == item["app"]
     IN  \/ /\ i <= bufs["capture"] /\ Queue("capture", i)
            /\ item' = [item EXCEPT !["app"] = IF i < bufs["capture"] THEN i + 1 ELSE 1]
            /\ step' = IF i < bufs["capture"] THEN step ELSE step + 1
            /\ UNCHANGED <<pc, arg, ret, goal>>
         \/ Fails /\ UNCHANGED <<deviceVars, step>>
  /\ UNCHANGED <<bufs, mapped, on, blocking, dqVars, broken, client, codec, pixfmt, fmt>>

(* Afterwards the consumer queues and dequeues output buffers and waits for the DQ   *)
(* thread; another client also queues capture buffers, turns streams off, aborts     *)
(* and stops the thread.                                                            *)
QueueBuffer == /\ Later
               /\ \E p \in Planes : /\ client = "consumer" => p = "output"
                                    /\ \E i \in 1..bufs[p] : Queue(p, i)
               /\ UNCHANGED <<bufs, mapped, on, blocking, dqVars, threadVars, broken>>
DequeueOutput == /\ Later /\ bufs["output"] > 0
                 /\ Goto("app", "dequeue")
                 /\ arg' = [arg EXCEPT !["app"] = "output"]
                 /\ UNCHANGED <<ret, item, goal, bufs, mapped, on, deviceVars, blocking, dqVars, broken>>
AppDequeue == /\ pc["app"] = "dequeue" /\ DqIoctl("app", "output")
              /\ UNCHANGED encoderVars
Wait == /\ Later
        /\ Goto("app", "waitdq")
        /\ arg' = [arg EXCEPT !["app"] = "capture"] /\ goal' = "call"
        /\ UNCHANGED <<ret, item, bufs, mapped, on, deviceVars, blocking, dqVars, broken>>
OtherCall == /\ Later /\ client = "other"
             /\ \/ StopDQThread
                \/ /\ \/ /\ \E p \in Planes : CallStreamOff("app", p, "ready")
                         /\ UNCHANGED <<item, goal>>
                      \/ Abort("app")
                   /\ UNCHANGED <<bufs, mapped, on, deviceVars, blocking, dqVars, broken>>

(* ~NvV4l2Element: after an error, or when the application is done.                  *)
Delete == /\ pc["app"] = "error" \/ (pc["app"] = "ready" /\ ~Consuming)
          /\ Deinit("output", "delete")
          /\ UNCHANGED <<bufs, mapped, on, deviceVars, blocking, dqVars, broken, encoderVars>>

-----------------------------------------------------------------------------
App == \/ Control \/ SetCaptureFormat \/ SetOutputFormat \/ SetupOutput \/ SetupCapture
       \/ StreamOutput \/ StreamCapture \/ Start \/ QueueCapture \/ QueueBuffer
       \/ DequeueOutput \/ AppDequeue \/ Wait \/ OtherCall \/ Delete
Inner == InCall /\ UNCHANGED encoderVars
Dq == DqThread /\ UNCHANGED encoderVars
Device == Process /\ UNCHANGED encoderVars
Alive == pc["app"] # "undefined"
Next == Alive /\ (App \/ Inner \/ Dq \/ Device)
Spec == Init /\ [][Next]_vars

(* Threads that are not blocked in an ioctl take their next step.                    *)
DqBlocked == /\ pc["dq"] = "dq" /\ blocking /\ on["capture"]
             /\ \A i \in Indices("capture") : where["capture"][i] # "done"
FairSpec == Spec /\ WF_vars(Alive /\ ~DqBlocked /\ Dq) /\ WF_vars(Alive /\ Inner)

-----------------------------------------------------------------------------
AppLabels == {"ready", "error", "setup", "check", "streamoff", "abort2", "dequeue", "dequeued",
              "waitdq", "join", "stopjoin", "release", "closed", "undefined"}
DqLabels  == {"off", "begin", "test", "dq", "dequeued", "callback", "again", "failed",
              "unset", "check", "streamoff", "abort2", "leave", "ending", "ended"}
Places == {"app", "queued", "done"}

(* Types of the variables.                                                          *)
TypeOK ==
  /\ bufs \in [Planes -> Nat] /\ \A p \in Planes : bufs[p] <= Requested[p]
  /\ mapped \subseteq Indices("capture") /\ on \in [Planes -> BOOLEAN]
  /\ \A p \in Planes : where[p] \in [Indices(p) -> Places]
  /\ num \in [Planes -> 0..(Wrap - 1)] /\ straddled \in [Planes -> BOOLEAN]
  /\ blocking \in BOOLEAN /\ running \in BOOLEAN /\ stop \in BOOLEAN /\ handle \in BOOLEAN
  /\ pc["app"] \in AppLabels /\ pc["dq"] \in DqLabels
  /\ arg \in [Threads -> Planes] /\ ret \in [Threads -> AppLabels \cup DqLabels]
  /\ \A t \in Threads : item[t] \in Indices("output") \cup Indices("capture")
  /\ goal \in {"call", "setup", "delete"}
  /\ broken \in BOOLEAN
  /\ client \in {"consumer", "other"} /\ codec \in Codecs /\ step \in 1..(Len(Program) + 1)
  /\ pixfmt \in [Planes -> Codecs \cup {None, "YUV420M"}]
  /\ fmt \in [Planes -> Codecs \cup {None, "YUV420M"}]

(* createVideoEncoder makes its calls in an order that no guard of the element       *)
(* refuses, and goes on only with the formats it asked for in force.                 *)
SetupNotRefused ==
  Consuming /\ pc["app"] = "ready" =>
    LET c == Program[step]
    IN  /\ Skipped(c) \/ ~Refused(c)
        /\ c = "enableProfiling" => \A p \in Planes : pixfmt[p] = None
        /\ c \in Controls => fmt = pixfmt

(* While both planes stream, whatever call order led there, the controls that are    *)
(* to be set before buffers are requested are refused, and those that need buffers    *)
(* have them, although the macros look at buffers and never at the streams.           *)
ControlsSettled ==
  (\A p \in Planes : on[p]) =>
    \A c \in Controls : /\ c \in BeforeBuffers => Refused(c)
                        /\ c \in Queries => ~Refused(c)

(* num_queued_buffers is the number of buffers the device has, counting those whose   *)
(* DQBUF has returned and not been counted yet: unless a STREAMOFF fell between the    *)
(* two, after which it is one less, or wraps around, until the next STREAMOFF.  A      *)
(* deletion may leave it behind, when the buffers were never streamed.                 *)
QueuedCountExact ==
  goal # "delete" =>
    \A p \in Planes :
      ~straddled[p] => num[p] = Cardinality(InDriver(p)) + Cardinality(Dequeuing(p))

(* The DQ thread never touches a buffer that was unmapped or deleted.                 *)
BuffersOutliveThread ==
  pc["dq"] \in {"dequeued", "callback"} =>
    bufs["capture"] >= item["dq"] /\ item["dq"] \in mapped

(* stopDQThread returns and a deletion is completed, whatever the DQ thread was doing,  *)
(* unless a stop was lost, the stream could not be turned off or the thread not made.   *)
ThreadEnds ==
  /\ pc["app"] = "stopjoin" ~> pc["app"] # "stopjoin" \/ broken
  /\ goal = "delete" ~> pc["app"] \in {"closed", "undefined"} \/ broken
=============================================================================
