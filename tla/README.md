# A TLA+ model of Jetson-stream

Jetson-stream captures from a CSI camera on an NVIDIA Jetson and sends the
pictures on. It has two programs and one client:

- `csi_camera_h264_encode` (`src/src/main.cpp`, `src/src/rtsp_server.cpp`, and
  the V4L2 classes in `src/classes`, `src/utils`): camera buffers go through the
  hardware encoder; a callback in the encoder's dequeue thread packs the frames
  into RTP and hands them to a UDP sender and to an RTSP server.
- `enhanced_camera_server_simple` (one file): a capture thread queues frames,
  writer threads put them into named pipes, a network thread serves TCP clients.
- `enhanced_camera_client` (one file): reads the pipes or the network.

This directory holds TLA+ modules of the parts in which threads, clients and
devices interleave, TLC configurations that check small instances, and TLAPS
proofs for every instance. Paths below are relative to the repository, `main.cpp`
is `src/src/main.cpp` and so on. `PROJECT.json` maps every definition to its lines.

## Inventory

Each component with its state, its operations, how it meets the others, what is
hard about it, and what makes it correct.

| Component | State | Operations | Meets |
|---|---|---|---|
| UDP sender, `main.cpp` 170-190, 406-484, 864-893, 1183-1227 | queue, mutex, condition variable, `UDP_THREAD_RUNNING`, `UDP_THREAD_STOP`, socket | `initializeUDP`, `udpSenderThread`, `sendRTPPacketToAllClients`, `cleanupUDP` | called by the DQ thread (producer) and by `execute()` (start, cleanup) |
| RTP packetizer, `main.cpp` 489-1178, 1986-2109 | sequence number, timestamp, refresh counter, maps of SPS and PPS | `sendRTPData` and what it calls | called by the DQ thread; calls the UDP queue and the RTSP server |
| RTSP server, `rtsp_server.cpp` | clients map under `clients_mutex`, each handler's copy of its session, file descriptors, SDP | accept loop, `ClientHandler::run`, `processRequest`, `sendRTPPacket`, `updateSPSPPSData`, `start`, `stop` | clients; the DQ thread calls `sendRTPPacket` |
| Encoding pipeline, `main.cpp` 1240-1977 | consumer's `v4l2_buf`, `m_gotError`, Argus buffers | `execute`, `ConsumerThread::threadInitialize` / `threadExecute` / `abort`, `encoderCapturePlaneDqCallback` | camera, encoder device, DQ thread |
| Thread base class, `utils/Thread.cpp` | `m_threadState`, `m_doShutdown` | `initialize`, `shutdown`, `waitRunning`, `threadFunction` | base of the consumer |
| V4L2 element and planes, `classes/NvV4l2Element*.cpp` | buffers and their mappings, stream status, queued buffer counts, DQ thread and its two flags | `setupPlane`, `qBuffer`, `dqBuffer`, `setStreamStatus`, `startDQThread`, `stopDQThread`, `waitForDQThread`, `deinitPlane`, `abort`, destructor | the driver, the consumer, the callback |
| Encoder configuration, `classes/NvVideoEncoder.cpp` | formats of the planes, controls in the driver | format setters and 49 controls, each legal before or after buffers are requested | `createVideoEncoder`, `threadInitialize` |
| Buffers, `classes/NvBuffer.cpp` | mapping and reference count | `map`, `unmap`, `ref`, `unref` | planes |
| Profilers, `classes/Nv*Profiler.cpp` | unit records, statistics | start, finish, report | planes, application |
| Pipe camera server, `enhanced_camera_server_simple.cpp` | two frame queues, two FIFO descriptors, `g_doExit`, network clients | `captureThread`, `rawFrameWriterThread`, `h264WriterThread`, `networkServerThread`, `networkClientHandler`, `main`, `signalHandler` | FIFOs, TCP clients, signals |
| Pipe and network client, `enhanced_camera_client.cpp` | position in the frame being read | `readRawFrames`, `readH264Frames`, `connectToNetwork` | FIFOs, TCP |
| Logging, EGL set-up, camera listing, options, surface wrappers, vendored headers | none that matters to the above | | |

What is hard, and what each must get right:

- *UDP sender.* Producer, sender and cleanup share a queue under a mutex and two
  flags under nothing. A packet must have one owner, leave in order, not be lost
  by a missed wakeup and not be sent on a closed socket; cleanup must return.
- *RTP packetizer.* Limits (one packet, fragment, aggregate) and the wrap of the
  counter. A receiver must get the units back whole, numbered without gaps, with
  the marker at the end, and with parameter sets when it needs them.
- *RTSP server.* Handlers, accept loop and sender share descriptors as plain
  numbers; clients vanish at any point. A session must end with its handler, the
  sender must see what the handler published, and nobody may close another's socket.
- *Encoding pipeline.* Camera, consumer, encoder and DQ thread pass buffers in a
  circle, and any ioctl may fail. A buffer must have one owner, frames keep their
  order, no party waits for ever, the encoder be drained before it is deleted.
- *V4L2 planes and encoder configuration.* The DQ thread dequeues and tests flags
  without the lock that streams, counts and buffers are changed under; stopping and
  deleting wait for it. It must not touch an unmapped buffer, the count must be
  right, a deletion must end; the guards of the controls must refuse what the
  driver would misunderstand, and nothing that the program needs.
- *Pipe server and client.* Clients leave in the middle of frames and others
  come. A frame must be freed once, a client must find headers where it looks for
  them, and the server must outlive its clients. On the network side handlers share a
  frame queue and one record on the server thread's stack; a frame must be popped once,
  and clients that come one after the other must get their own connection.

## Modules

| Module | Models | Composes with |
|---|---|---|
| `LossyFifo` | abstract: a channel that keeps order, delivers at most once and may lose | refined by `UdpSender` and `PipeServer` |
| `UdpSender` | the UDP sender, with the DQ thread as producer and `execute()` as owner | |
| `RtpPacketizer` | `sendRTPData` on access units of any shape, with the SDP it gives to the RTSP server | |
| `RtspServer` | accept loop, handlers, `sendRTPPacket`, clients, descriptors | |
| `EncoderPipeline` | `execute()`, consumer, planes, device, DQ thread, camera, profiler units; encoding and raw frame mode | |
| `V4l2Plane` | both planes of an element: buffers, streams, counts, DQ thread, blocking or not | used by `VideoEncoder` |
| `VideoEncoder` | the encoder element from creation to deletion, formats and controls, under the program's own call sequence or any other | extends `V4l2Plane` |
| `PipeServer` | capture, raw writer, main of the pipe server; raw reader of the client; the FIFO | |
| `NetServer` | H.264 queue and writer, network server thread, client handlers, main of the pipe server | |
| `UdpSenderProofs`, `RtpPacketizerProofs`, `RtspServerProofs`, `EncoderPipelineProofs`, `VideoEncoderProofs`, `PipeServerProofs`, `NetServerProofs` | theorems | extend their module |
| `QueueLemmas` | lemmas about queues of numbered items and the channel they refine | extended by the proofs about `UdpSender`, `EncoderPipeline`, `PipeServer`, `NetServer` |
| `MC...` | constants for TLC | extend their module |

In every module a thread's position is a program counter, an action is the code
from one point at which another thread can interfere to the next, and the action
has the name of the function or of the step in it. Definitions named `Faulty...`
are plausible mistakes in one action; no specification uses them, they show that
a property would notice.

**UdpSender.** `pc` has one entry each for `execute()` ("main"), the DQ thread
and the sender; `mutex` is the holder of `UDP_QUEUE_MUTEX`, `sleeping` says that
the sender waits on the condition variable (a signal or a spurious wakeup ends
it). Reads of the unprotected flags are steps of their own. Packets are numbers in
the order of their allocation; `wire` and `freed` are histories. The variable
`late` records that cleanup began while the DQ thread was still at work, which
happens when `waitForDQThread(2000)` times out (`main.cpp` 1553 ignores the result).

**RtpPacketizer.** One access unit at a time: `Receive` is the first pass
(extraction of parameter sets, scan for units), `BeforeIdr` and `Refresh` are the
two places that send aggregates, the other actions are the second pass, one
packet each. A unit is its kind, parameter set id, size and the length of its
start code; payload is counted, not spelled out. `MaxRtpPacket` scales the MTU so
that all size classes fall within a few bytes. A second definition of the units
(`WholeUnits`) is what `extractSPSPPS` sees, which scans the same data differently.
`Only` selects units or packets by a field with a fold, since the proof system cannot
expand `SelectSeq`. `udpOut` is what is offered to the UDP queue: whether the queue takes
it (`main.cpp` 877) is part of `UdpSender`.

**RtspServer.** `file` is the process's table of descriptors: `accept` and
`socket` return the lowest free number, `close` frees whatever the number names,
and a handler that kept a number operates on whatever it names now. A handler's
session copy (`sess`) and the map entry (`clients`) are separate, as in the code.
The handlers' critical sections are one step each; the sender's is several, since
it holds the mutex over its sends. Clients may vanish and sends may fail at any
point; the history `abrupt` records that one did while the client was playing, and the
properties about descriptors and media are about behaviours without it. `SkipBinary`
is the branch for interleaved data that a client sends. `budget` bounds the requests of
all clients together.

**EncoderPipeline.** Camera and encoder device are external and do what the code
relies on: they work in order, and a plane that is turned off gives its buffers
back and fails its dequeues. `abort()` and `deinitPlane` turn the two planes off in
two steps. `CanFail` lets every ioctl, acquisition and set-up call fail, and
`waitRunning` time out; a STREAMOFF that fails leaves the stream on, with its dequeues
waiting. `encoder` is the object `threadInitialize` creates, uses while it sets the planes up
(`configure`) and `~ConsumerThread` deletes before `~Thread` joins; what the use of a deleted
one does is undefined (`UseDeleted`). `cleanupUDP` returns, or hangs in its join, which is
`UdpSender`'s part. `gaveUp` records that `waitForDQThread` timed out. `raw` is the
option that replaces the encoder by counting frames, with `threadExecute` called again
for each. `units` is the element profiler's queue of started units, to which `qBuffer`
adds before its ioctl and from which each dequeue of the capture plane takes the oldest.

**V4l2Plane and VideoEncoder.** A section under `plane_lock` is one step; DQBUF and the
DQ thread's tests of `streamon` and `stop_dqthread`, which the code makes without the
lock, are steps of their own. `where` says which buffers the device has; the device
itself is external and moves one frame at a time from an output to a capture buffer.
`VideoEncoder` adds the element: the `consumer` client makes the calls of
`createVideoEncoder` and `threadInitialize` in their order (`Program`), each of which
may fail and ends in the deletion; the `other` client makes any call at any time.
Controls have no state of their own; `Refused` holds when one of the guard macros it
begins with refuses it. Calls on a handle that names no thread (`pthread_join` after
`waitForDQThread` on the output plane, or a second time) are undefined, and the model
lets the process return from them or end there (`undefined`). `broken` records what lets
a wait hang: a stream that could not be turned off, a thread that could not be created,
a stop that was lost. `straddled` records that a STREAMOFF fell between a DQBUF and its
section under the lock.

**PipeServer.** The raw path and one client at a time. The FIFO has the kernel's
rules: open waits for the other end, contents survive as long as one end is open,
a write without a reader gives SIGPIPE or, where the process inherited it
ignored (service managers do that), EPIPE. A frame is a header unit and some data units; the
header enters the pipe with the data behind it because they share a page. `fresh`
records that the writer opened the FIFO for this client and has cut no frame short in it:
a write error other than EPIPE (`RawFails`) gives the frame up and keeps the FIFO open.

**NetServer.** The H.264 queue with its mutex and condition variable, the writer and
the handlers as consumers of it, and the server thread with the one `NetworkClient`
(`slot`) whose address it gives to each handler. Frames are numbers; what `send` does
depends on the descriptor in the slot only, since H.264 frames are empty in this
version. Of the raw path it has what main's join of the raw writer waits for: `rpc` says
whether the writer is still to be ended, at its FIFO (`open` or `write`, either of which may
never return), or asleep on its condition variable (`JoinCapture`, `RawEnds`); the rest is
`PipeServer`. `missed` records that main's `notify_all`, sent without the mutex, fell before a
consumer's wait; `overlapped` that a connection was accepted while a handler was running.

## Runs

`rtsp_server`, `video_encoder`, `pipe_server` and `net_server` take half a minute to two
minutes, the others less. "Pass" means
that TLC explored every state of the instance.

| Run | Checks | Shows |
|---|---|---|
| `udp_sender` | `TypeOK`, `PacketOwnedOnce`, `NoPopFromEmpty`, `SendOnOpenSocket`, `ImplementsChannel`, `QueuedIsRetired` | 5 packets, any interleaving with cleanup. Ownership, order and the refinement of `LossyFifo` hold even when the DQ thread is late; that cleanup frees everything, the socket and liveness hold unless it is. |
| `udp_cleanup_returns` (violation) | `CleanupReturns` | cleanup's signal can fall between the sender's check and its sleep; the join never returns. |
| `rtp_packetizer` | `TypeOK`, `PacketsFitMtu`, `UdpSequenceGapless`, `AUReassembles`, `ParameterSetsInTime`, `RtspMirrorsUdp` | all sequences of 3 out of 9 access units: numbering, reassembly up to the marker, parameter sets before each IDR and at each refresh. What a receiver gets is the access unit with its last unit four bytes short, and RTSP clients get the UDP stream with each aggregate twice; both are findings. |
| `rtsp_server` | `TypeOK`, `NoGhostSessions`, `MapMatchesHandler`, `DescriptorsFaithful`, `MediaOnlyToPlayers` | two clients with 3 requests between them, 3 descriptors, clients that vanish and sends that fail: the map stays consistent with the handlers in every behaviour; descriptors and media are right as long as nobody vanished. |
| `rtsp_framing` (violation) | `InterleavedFraming` | a response falls between the interleaved header and its data. |
| `rtsp_foreign_cleanup` (violation) | `CleansUpOwnClient` | after the sender closed a dead client's descriptor and accept reused it, the old handler removes the new client. |
| `encoder` | `TypeOK`, `BuffersConserved`, `FramesInOrder`, `LatencyOfOwnFrame`, `NoEncodingAfterDelete`, `DqThreadFinished`, `FramesFlow`, `StopCompletes` | 3 buffers, 2 encoder slots, 2 capture slots, 4 frames, both modes, everything may fail, STREAMOFF included. A consumer past its set-up never uses a deleted encoder; stopping ends unless `cleanupUDP` hangs or a STREAMOFF fails. |
| `encoder_use_after_delete` (violation) | `NoUseAfterDelete` | `waitRunning` gives up while `threadInitialize` runs, `execute()` returns, and `threadInitialize` goes on with the encoder `~ConsumerThread` has deleted. |
| `video_encoder` | `TypeOK`, `SetupNotRefused`, `ControlsSettled`, `QueuedCountExact`, `BuffersOutliveThread`, `ThreadEnds` | one output and two capture buffers, both clients, blocking or not, everything may fail: the set-up runs into none of its own guards, guards and streams agree, the count is right but for one race, no use after unmapping, stopping and deleting end. |
| `pipe_server` | `TypeOK`, `FrameOwnedOnce`, `ClientFramed`, `ImplementsChannel`, `QueuedIsRetired` | 3 frames of 3 units, a pipe of 3 units, two client sessions that end anywhere, both dispositions of SIGPIPE, writes that fail, shutdown at any time. That a write error ends a client's framing is a finding. |
| `pipe_survives` (violation) | `ServerSurvivesClient` | a client that leaves in the middle of a frame ends the server. |
| `net_server` | `TypeOK`, `FramesTakenInOrder`, `SequentialClientsServed`, `ShutdownEnds` | two connections, two frames, three consumers on one queue, a signal at any time: frames are popped once, sequential clients served, and a shutdown ends but for a raw writer at its FIFO (the case whenever no raw client is connected), a server thread in accept, and a missed notification. The first two are a finding. |

**Bounds.** `MaxPackets` and `MaxFrames` bound what is produced; 3 to 5 items suffice
for a queue that fills, drains while the producer goes on, and is reordered by a
mistake. In `RtpPacketizer` the counter runs modulo 5 from 3, so that it wraps within
two access units and within a fragmented unit, `RefreshInterval` is 2 so that the
refresh coincides with an IDR picture and does not, and unit sizes lie on, below and
above each limit. In `RtspServer` three descriptors for two clients make `accept` and
`socket` run out and be reused; `MaxRequests` 3 allows SETUP, PLAY, TEARDOWN of one
client, or a request of the other in place of one of them. In
`EncoderPipeline` there is one camera buffer more than encoder slots, so that
one is always under way. In `PipeServer` a frame is as large as the pipe, so that
the writer blocks within it, and a second session meets what the first left behind. In
`VideoEncoder` two capture buffers let one be in the thread's hands while another is with
the device; the count runs modulo 8, so that a decrement below zero shows as a large
number, as the `__u32` does. In `NetServer` two connections are what one slot cannot hold.

**Fairness.** A thread that is not blocked takes its next step eventually, which
the operating system's scheduler gives; a mutex is not starved for ever (its
holders hold it for a few steps only). The encoder device keeps encoding. In
`VideoEncoder` this holds of a thread inside a call, and of the DQ thread unless it is
blocked in DQBUF. Not assumed:
that clients connect, send, read or leave, that a raw client opens the FIFO, that a blocked
write fails, that signals come, that a call fails, that a
spurious wakeup happens, that a timeout expires, that the camera delivers, or that the
capture time ends (`execute()` only leaves its wait loop for an error), so that
`FramesFlow` is not satisfied by the end of the stream.

## Proofs

TLAPS checks these for every value of the constants. Each theorem has the form
`Spec => []Inv`, or `Spec => Channel!Spec` for a refinement. Few properties are inductive
as they stand; each proof module defines the invariant that is, by parts that are named and
explained there, with a lemma for every actor or every part.

| Module | Theorem | Property | Rests on |
|---|---|---|---|
| `UdpSenderProofs` | `TypeCorrect`, `PopsOnlyQueued` | `TypeOK`, `NoPopFromEmpty` | `SafetyInv` |
| | `NoSendAfterClose` | `SendOnOpenSocket` | `SafetyInv`, `JoinInv` |
| | `EveryPacketOwnedOnce` | `PacketOwnedOnce` | `OwnInv` |
| | `SenderImplementsChannel` | `ImplementsChannel` | `OwnInv`, `QueueLemmas` |
| `RtpPacketizerProofs` | `TypeCorrect`, `PacketsWithinMtu` | `TypeOK`, `PacketsFitMtu` | types, sums of sizes |
| | `UdpPacketsNumbered` | `UdpSequenceGapless` | `SequenceInv` |
| | `RtspClientsSeeTheStream` | `RtspMirrorsUdp` | `MirrorInv` |
| | `AccessUnitsReassemble` | `AUReassembles` | `Progress`, `Received`, `LastReceived`, `Marked`, `Found` |
| | `ParameterSetsArrive` | `ParameterSetsInTime` | `Progress`, `IdrServed`, `Refreshed` |
| `RtspServerProofs` | `SessionsEndWithHandlers`, `SenderSeesSession` | `NoGhostSessions`, `MapMatchesHandler` | `MapInv` |
| | `TypeCorrect` | `TypeOK` | `MapInv`, `RestTypes` |
| | `DescriptorsStayFaithful`, `MediaReachesPlayersOnly` | `DescriptorsFaithful`, `MediaOnlyToPlayers` | `ServerInv` |
| `EncoderPipelineProofs` | `TypeCorrect`, `EncoderAliveWhileEncoding` | `TypeOK`, `NoEncodingAfterDelete` | `PipelineInv` |
| | `EveryBufferInOnePlace` | `BuffersConserved` | `PipelineInv`, `BufferInv` |
| | `FramesLeaveInOrder`, `DqThreadFinishedBeforeCleanup` | `FramesInOrder`, `DqThreadFinished` | `EncoderInv` |
| | `LatencyMeasuresOwnFrame` | `LatencyOfOwnFrame` | `PipelineInv`, `UnitInv` |
| `VideoEncoderProofs` | `ControlsStaySettled` | `ControlsSettled` | `StreamInv` |
| | `BuffersOutlive` | `BuffersOutliveThread` | `LifeInv` |
| | `SetupIsAccepted` | `SetupNotRefused` | `LifeInv`, `FormatTypes`, `OnCourse` |
| | `QueuedCountIsExact`, `TypeCorrect` | `QueuedCountExact`, `TypeOK` | `LifeInv`, `Counting` |
| `PipeServerProofs` | `TypeCorrect` | `TypeOK` | `PipeInv` |
| | `EveryFrameOwnedOnce`, `RawPathImplementsChannel` | `FrameOwnedOnce`, `ImplementsChannel` | `OwnInv`, `QueueLemmas` |
| | `ReadsWholeFrames` | `ClientFramed` | `FramedInv` |
| `NetServerProofs` | `NetTypes`, `EachFrameTakenOnce` | `TypeOK`, `FramesTakenInOrder` | `NetInv` |
| | `OneAfterTheOtherServed` | `SequentialClientsServed` | `NetInv`, `ServedInv` |

The arguments:

- *Queues.* Packets of `UdpSender` and frames of `PipeServer` are numbered as they are
  made. `OrderInv` says that the queue is a run of consecutive numbers up to the last one
  pushed (`RunFrom`), that the item in the consumer's hand is older, and that all older
  ones are freed; that each has one owner is then arithmetic. It needs the mutex
  (`MutexInv`) or the place in front of it, since between the test of the queue and the
  pop nobody else may take. The refinements map the channel to the item in hand followed
  by the queue; `QueueLemmas` says what push, pop and the fate of the item in hand do to
  such a concatenation, and each action of the module is a step of the channel or a
  stutter. The UDP drain takes from behind the item in the sender's hand: the channel's
  `Lose` takes any item, and `EveryPacketOwnedOnce` needs `DrainedInv`, that the queue
  stays empty after the drain unless the DQ thread is late.
- *UDP cleanup.* `SendOnOpenSocket` needs the two ways cleanup can take (`CleanupInv`): it
  joined the sender, or it read the running flag as false, and then a sender that starts
  later finds the stop flag set and never sends (`RunningInv`).
- *RTP.* The packets of the current access unit are a fold of a receiver over them.
  `Received` says that the receiver has exactly the units the second pass has sent, and of
  the open fragment the bytes sent; `LastReceived` follows when the access unit ends.
  `Found` ties them to the access unit: `units` is what the first pass finds in it, which by
  `UnitsLoseFour` is the access unit with its last unit four bytes short, or without it.
  `Marked` says that a marker is at the end of the access unit and nowhere else.
  `IdrServed` and `Refreshed` follow an aggregate from the step that sends it to the end
  of its access unit, and bound the counter of refreshes. `MirrorInv`: the packets of RTSP
  are the fold of `Doubled` over those of UDP, which each of the two ways to send extends
  by one packet (`DoubledType`, `Twice`).
  Folds and sums of the community modules are unfolded by lemmas (`FoldExists`,
  `FoldAppend`, `SumsExist`, `SumIs`) that induct over the length of a sequence or the size
  of a set; their induction takes the set of the numbers that are good in place of a
  predicate (`UpTo`, `FiniteUpTo`).
- *RTSP.* `MapInv` holds with failing sends and reused descriptors, because entries are
  filed under the handler's own number, and a number is reused only by the sender's removal
  or the handler's end, both of which erase the entry. `Quiet`, which holds as long as
  nobody vanished from a session that plays, says what every number names: a
  handler's connection and RTP socket are its own, also where the map has them, a handler
  that serves nobody is not in the map as playing, and who plays has asked to. It needs
  `TornDown` and `EntriesNamed` of the order of a handler's steps.
- *Encoding pipeline.* `ControlInv` relates the places of `execute()` and the consumer,
  `StreamInv` the streams and the DQ thread; types need them, because the consumer gives
  real buffers back only if slots, filled in order, are queued once (`SlotsDistinct`,
  `SlotInv`, `HandInv`). `BufferInv` adds that the places of a buffer are apart and that
  none is lost while the output streams. `FlowInv` counts on from what was delivered
  through the encoder to the last frame queued, with EOS at the end only. `UnitInv` is the
  profiler's queue, equal to the frames in the device, and one unit too long behind a
  failed `qBuffer`, where no more frames are measured.
- *Encoder element.* `StreamInv`: a plane that streams has buffers, at which the guards
  look. `LifeInv`: the application unmaps after it has turned the stream off and found
  `dqthread_running` clear (`Gone`); the flag is set as long as the thread is at work
  (`Runs`); a set-up that fails half-way unmaps without having queued anything (`Quiet`);
  and only mapped buffers are with the device (`Lent`, `Mapped`). `OnCourse` says which
  calls of the program's sequence have been made, from the step it is at. `Balanced`: the
  count is the buffers with the device and those between a DQBUF and its section under
  the lock, unless the plane is `straddled` or on its way to deletion.
- *Client framing.* `StreamFrom` describes what the client has in hand and what is still
  in the FIFO as one sequence: frame behind frame with ascending numbers, each from its
  header on, and at the end the writer's position. A write lengthens it, a read
  moves the boundary (`ReadInv`). `FifoInv` gives that a session for which the writer opened
  the FIFO starts with an empty one. Both are about sessions in which no write has failed (`fresh`).
- *Network clients.* `NetInv`: one consumer at a time is inside the mutex (`Exclusive`), one
  about to pop still has the frame it saw (`Found`). `ServedInv`: as long as no connection
  was accepted beside a running handler, at most one connection is open, the newest, and
  it is on its way into the slot or its handler runs (`OneHandler`, `HandedOver`,
  `OnlyNewest`); the writer of the queue never sends or closes.

Assumptions are the named ASSUMEs of the modules and nothing else: bounds and sizes are
naturals, positive where the code has a constant; buffers and parameter set ids are
finitely many; an access unit is a sequence of units; the width of the count of queued
buffers (`Wrap`) exceeds the number of buffers.

Only model-checked, since they are liveness under fairness, which is out of the prover's
reach: `QueuedIsRetired` of `UdpSender` and `PipeServer`, `FramesFlow` and `StopCompletes`,
`ThreadEnds`, `ShutdownEnds`. Every other property of a passing run is a theorem. The runs
that expect a violation state what the code does not keep, so there is nothing to prove.

## What the models show besides the findings

Some consequences of the code are in the models without a run of their own:

- `socket()` that fails in SETUP (`rtsp_server.cpp` 686) leaves -1 in the session, which is
  also the mark of the TCP transport (270): the client is answered with a UDP transport and
  then sent interleaved data on its RTSP connection. `MapMatchesHandler` and
  `DescriptorsFaithful` hold with that -1, since no descriptor is confused.
- TEARDOWN erases the session without closing its RTP socket (`rtsp_server.cpp` 755)
  and a second SETUP overwrites the number: the socket stays open. A long series of them
  runs out of descriptors.
- The UDP queue has no limit (`main.cpp` 880). `findNALStartCode` (489) subtracts 3 from
  an unsigned size; `extractSPSPPS` calls it (521) with what is left after a start code,
  which a unit of one or two bytes makes less than 3.
- When the DQ thread outlasts `waitForDQThread(2000)`, cleanup runs concurrently with
  the callback (`late`, `gaveUp`): packets may be queued behind cleanup and stay there.
- An error in `execute()` between starting the consumer and `repeat()` joins a consumer
  that is blocked in `acquireBuffer()` (`ErrorJoin`).
- The pipe server's main notifies without the mutexes (line 1072): a thread that has tested
  its predicate and not yet gone to sleep misses it, and its `pthread_join` may not return.
- A consumer that fails by `ORIGINATE_ERROR` does not set `m_gotError`: a capture without a
  time limit (`main.cpp` 1939) goes on waiting, unless the DQ thread aborts.
- The guard against late controls (`NvVideoEncoder.cpp` 55) refuses when both planes have
  buffers, where the header (`NvVideoEncoder.h` 153) says any of the planes. Between the
  two `setupPlane` calls controls are still accepted; `ControlsSettled` shows that no
  stream ever sees that.
- `setCapturePlaneFormat` and `setOutputPlaneFormat` note the format before S_FMT, so that
  after a failed call the guards take it for set. `setupPlane`'s exported descriptors are
  not closed by `deinitPlane`.
- The DQ thread's first statement resets `stop_dqthread` (`NvV4l2ElementPlane.cpp` 815), so
  that a stop right after the start is lost; `ret` is used uninitialised when the
  stream is off after EAGAIN (849); `pthread_create`'s result is ignored (875), and
  `dqthread_running` then stays set; every deletion calls `pthread_join` for the output
  plane, which never had a thread (926). The count of queued buffers survives a
  `deinitPlane` of a plane that was never streamed.
- Network handlers read the slot of the newest connection: with two clients at a time
  both send to the second. `isConnected` of the copy in `g_networkClients` (1084) does not
  reach a handler. After the server thread has ended the slot is memory of a dead stack.
- A client that reconnects to a FIFO the writer still has open starts within a frame;
  it reads zeros as headers until it meets a header. `ClientFramed` is therefore about
  clients for whom the writer opened the FIFO.
- Nobody acts on the result of STREAMOFF in `abort()` and in `deinitPlane`: one that fails
  leaves the consumer, or the DQ thread, in a dequeue nobody ends. `StopCompletes` names
  both, and the join in `cleanupUDP`, as its only exceptions.

## Not modelled

- The RTSP server's `stop()` (no caller), a `send` that blocks for ever (`rtsp_server.cpp`
  291: every handler and the DQ thread would wait for it), the text of
  requests and responses; torn reads of `sdp_content` (617).
- An early return of `execute()` that joins a consumer blocked in the camera (`main.cpp`
  1918) is in the model (`ErrorJoin`) without a property: nothing ends it.
- Byte-level scanning (`findNALStartCode`, `extractSPSId`, base64): abstracted to units.
- `waitAllBuffersQueued`, `waitAllBuffersDequeued`, `setEncoderCommand`, totals of frames,
  memory types the program does not use, reference counts: nothing uses them. The
  application profiler, which samples the machine's load. The values of controls.
- The H.264 pipe and the client's H.264 and network readers, which get nothing since this
  server's H.264 frames are empty. In `NetServer`: a failing `pthread_create`, the frames of
  the raw path (that is `PipeServer`), spurious wakeups.
- No queue of the programs has a limit; the bounds of the models are not the code's.
- EGL, camera listing, options, logging, surface wrappers: sequential driver calls and
  formatting before any thread runs. Vendored headers: only what the code calls.

Of about 33,400 lines under `src/`, some 24,600 are vendored headers (Argus, EGLStream,
EGL, V4L2, fonts) without behaviour of this program; the programs' own code is less than
9,000 lines, with option parsing, listings and output among them. The map therefore
covers the parts in which something can go wrong, and only a small share of the whole.

## Plan

In order of importance:

1. Proofs: the invariants the liveness properties rest on (what a blocked thread waits
   for, such as: a sender asleep with a queued packet has a signal under way), and for
   `RtspServer` what remains of `Quiet` when a client does vanish.
2. Pure algorithms: the NAL scan, the Exp-Golomb id, base64, each against a reference
   definition over bounded inputs.
3. `EncoderPipeline`'s view of a plane as an abstraction of `V4l2Plane`.
