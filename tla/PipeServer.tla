----------------------------- MODULE PipeServer -----------------------------
(* The raw frame path of the pipe camera server                               *)
(* (src/enhanced_camera_server_simple.cpp) and the raw reader of the client    *)
(* (src/enhanced_camera_client.cpp): the capture thread queues frames, the     *)
(* writer thread takes them one by one and writes them to a FIFO, which one    *)
(* client at a time opens, reads and leaves; main waits for a signal and joins.*)
(* The H.264 path only passes empty frames and is not modelled here.           *)
EXTENDS Integers, SequencesExt

CONSTANTS MaxFrames,    (* bound on the frames captured                        *)
          DataUnits,    (* units of data in a frame, after its header          *)
          Capacity,     (* units the pipe holds                                *)
          MaxSessions,  (* bound on the times a client connects                *)
          Dispositions  (* of SIGPIPE: the server inherits it                  *)

ASSUME PipeAssumption == /\ MaxFrames \in Nat /\ MaxSessions \in Nat
                         /\ DataUnits \in Nat \ {0} /\ Capacity \in Nat \ {0, 1}
                         /\ Dispositions \subseteq {"default", "ignored"}

VARIABLES mpc,        (* program point of main                                 *)
          doExit,     (* g_doExit of the server                                *)
          sigpipe,    (* what SIGPIPE does                                     *)
          cpc,        (* program point of captureThread                        *)
          made,       (* frames allocated: 1, 2, ...                           *)
          queue,      (* g_rawFrameQueue                                       *)
          rpc,        (* program point of rawFrameWriterThread                 *)
          sleeping,   (* it waits on g_rawQueueCond                            *)
          held,       (* the frame it has popped, 0 for none                   *)
          written,    (* units of it that are written                          *)
          freed,      (* frames given to free                                  *)
          writerOpen, (* g_rawPipeFd >= 0                                      *)
          sent,       (* history: frames written completely                    *)
          pipe,       (* contents of the FIFO                                  *)
          kpc,        (* program point of the client                           *)
          reading,    (* units of the frame the client is reading              *)
          last,       (* last frame it read                                    *)
          fresh,      (* history: the writer opened the FIFO for this client,  *)
                      (* and has cut no frame short since                      *)
          sessions    (* number of times a client connected                    *)

mainVars    == <<mpc, doExit, sigpipe>>
captureVars == <<cpc, made>>
writerVars  == <<rpc, held, written, freed, writerOpen, sent>>
clientVars  == <<kpc, reading, last, fresh, sessions>>
vars == <<mainVars, captureVars, queue, sleeping, writerVars, pipe, clientVars>>

Init == /\ mpc = "run" /\ doExit = FALSE /\ sigpipe \in Dispositions
        /\ cpc = "loop" /\ made = 0 /\ queue = << >>
        /\ rpc = "loop" /\ sleeping = FALSE /\ held = 0 /\ written = 0 /\ freed = {}
        /\ writerOpen = FALSE /\ sent = << >> /\ pipe = << >>
        /\ kpc = "off" /\ reading = << >> /\ last = 0 /\ fresh = FALSE /\ sessions = 0

-----------------------------------------------------------------------------
(* A frame is its header, unit 0, and its data.  The FIFO loses its contents   *)
(* when both ends are closed.                                                  *)
Unit(f, k) == [frame |-> f, part |-> k]
ReaderPresent == kpc \notin {"off", "gone"}
Discarded(writer, reader) == IF writer \/ reader THEN pipe ELSE << >>

(* The writer holds g_rawQueueMutex from its check of the queue to its sleep   *)
(* or its pop; the capture thread's critical section is one step.              *)
Unlocked == rpc \notin {"wait", "test"}

(* The server has not died of SIGPIPE.                                          *)
Alive == rpc # "killed"

GotoMain(l)    == mpc' = l
GotoCapture(l) == cpc' = l
GotoWriter(l)  == rpc' = l
GotoClient(l)  == kpc' = l

(* The frame in hand is freed.                                                 *)
Free == freed' = freed \cup {held} /\ held' = 0 /\ written' = 0

-----------------------------------------------------------------------------
(* Faulty variants of single steps, which the properties below must notice.    *)
(* No specification uses them.                                                  *)
FaultyNotify ==                     \* forgets notify_all
  /\ cpc = "notify"
  /\ GotoCapture("loop")
  /\ UNCHANGED <<mainVars, made, queue, sleeping, writerVars, pipe, clientVars>>

FaultyRawTakeNewest ==              \* pops the newest frame
  /\ rpc = "test" /\ ~doExit
  /\ held' = Last(queue) /\ queue' = Front(queue)
  /\ GotoWriter("open")
  /\ UNCHANGED <<mainVars, captureVars, sleeping, written, freed, writerOpen, sent, pipe,
                 clientVars>>

FaultyRawBrokenLeaks ==             \* forgets to free the frame
  /\ rpc = "write" /\ ~ReaderPresent /\ sigpipe = "ignored"
  /\ writerOpen' = FALSE /\ pipe' = << >>
  /\ held' = 0 /\ written' = 0
  /\ GotoWriter("loop")
  /\ UNCHANGED <<mainVars, captureVars, queue, sleeping, freed, sent, clientVars>>

FaultyRawBrokenResumes ==           \* the next client gets the rest of the frame
  /\ rpc = "write" /\ ~ReaderPresent /\ sigpipe = "ignored"
  /\ writerOpen' = FALSE /\ pipe' = << >>
  /\ GotoWriter("open")
  /\ UNCHANGED <<mainVars, captureVars, queue, sleeping, held, written, freed, sent,
                 clientVars>>

FaultyWriteStep ==                  \* a frame is one unit too long
  IF written = 0 THEN <<Unit(held, 0), Unit(held, 1)>> ELSE <<Unit(held, written + 1)>>

-----------------------------------------------------------------------------
(* main, and the signal that ends it.                                          *)
ExitRequested == /\ Alive /\ ~doExit
                 /\ doExit' = TRUE
                 /\ UNCHANGED <<mpc, sigpipe, captureVars, queue, sleeping, writerVars,
                                pipe, clientVars>>

(* notify_all without the mutex.                                                *)
NotifyExit == /\ Alive /\ mpc = "run" /\ doExit
              /\ sleeping' = FALSE
              /\ GotoMain("join")
              /\ UNCHANGED <<doExit, sigpipe, captureVars, queue, writerVars, pipe,
                             clientVars>>

JoinThreads == /\ mpc = "join" /\ cpc = "off" /\ rpc = "off"
               /\ GotoMain("done")
               /\ UNCHANGED <<doExit, sigpipe, captureVars, queue, sleeping, writerVars,
                              pipe, clientVars>>

-----------------------------------------------------------------------------
(* captureThread: allocate a frame, push it under the mutex, notify.            *)
CaptureLoop == /\ Alive /\ cpc = "loop"
               /\ \/ doExit /\ GotoCapture("off") /\ UNCHANGED made
                  \/ ~doExit /\ made < MaxFrames /\ made' = made + 1 /\ GotoCapture("push")
               /\ UNCHANGED <<mainVars, queue, sleeping, writerVars, pipe, clientVars>>

Push == /\ Alive /\ cpc = "push" /\ Unlocked
        /\ queue' = Append(queue, made)
        /\ GotoCapture("notify")
        /\ UNCHANGED <<mainVars, made, sleeping, writerVars, pipe, clientVars>>

Notify == /\ Alive /\ cpc = "notify"
          /\ sleeping' = FALSE
          /\ GotoCapture("loop")
          /\ UNCHANGED <<mainVars, made, queue, writerVars, pipe, clientVars>>

-----------------------------------------------------------------------------
(* rawFrameWriterThread.                                                        *)
RawLoop == /\ rpc = "loop"
           /\ GotoWriter(IF doExit THEN "close" ELSE "lock")
           /\ UNCHANGED <<mainVars, captureVars, queue, sleeping, held, written, freed,
                          writerOpen, sent, pipe, clientVars>>

RawCheck == /\ rpc = "lock" \/ (rpc = "asleep" /\ ~sleeping)
            /\ GotoWriter(IF queue # << >> \/ doExit THEN "test" ELSE "wait")
            /\ UNCHANGED <<mainVars, captureVars, queue, sleeping, held, written, freed,
                           writerOpen, sent, pipe, clientVars>>

RawSleep == /\ rpc = "wait"
            /\ sleeping' = TRUE
            /\ GotoWriter("asleep")
            /\ UNCHANGED <<mainVars, captureVars, queue, held, written, freed, writerOpen,
                           sent, pipe, clientVars>>

SpuriousWakeup == /\ sleeping
                  /\ sleeping' = FALSE
                  /\ UNCHANGED <<mainVars, captureVars, queue, writerVars, pipe, clientVars>>

RawStop == /\ rpc = "test" /\ doExit
           /\ GotoWriter("close")
           /\ UNCHANGED <<mainVars, captureVars, queue, sleeping, held, written, freed,
                          writerOpen, sent, pipe, clientVars>>

RawTake == /\ rpc = "test" /\ ~doExit
           /\ held' = Head(queue) /\ queue' = Tail(queue)
           /\ GotoWriter("open")
           /\ UNCHANGED <<mainVars, captureVars, sleeping, written, freed, writerOpen, sent,
                          pipe, clientVars>>

(* open blocks until a client opens the other end, and then both go on; when it *)
(* fails the frame is dropped.                                                  *)
RawOpen ==
  /\ rpc = "open"
  /\ \/ /\ writerOpen \/ ReaderPresent
        /\ writerOpen' = TRUE
        /\ kpc' = IF kpc = "opening" THEN "header" ELSE kpc
        /\ GotoWriter("write")
        /\ UNCHANGED <<held, written, freed>>
     \/ /\ ~writerOpen
        /\ Free
        /\ GotoWriter("loop")
        /\ UNCHANGED <<kpc, writerOpen>>
  /\ UNCHANGED <<mainVars, captureVars, queue, sleeping, sent, pipe, reading, last, fresh,
                 sessions>>

(* One step of the loop of write calls.  The header comes into the pipe with    *)
(* the data behind it, in one page.                                             *)
WriteStep == IF written = 0 THEN <<Unit(held, 0), Unit(held, 1)>> ELSE <<Unit(held, written)>>
PipeFull == Len(pipe) + Len(WriteStep) > Capacity
FrameUnits == DataUnits + 1

RawWrite ==
  /\ rpc = "write" /\ ReaderPresent /\ ~PipeFull
  /\ pipe' = pipe \o WriteStep
  /\ IF written + Len(WriteStep) = FrameUnits
     THEN Free /\ sent' = Append(sent, held) /\ GotoWriter("loop")
     ELSE written' = written + Len(WriteStep) /\ UNCHANGED <<rpc, held, freed, sent>>
  /\ UNCHANGED <<mainVars, captureVars, queue, sleeping, writerOpen, clientVars>>

(* write fails with anything but EPIPE: the frame is given up where it is, and   *)
(* the FIFO stays open for the next one.                                        *)
RawFails == /\ rpc = "write" /\ ReaderPresent
            /\ Free
            /\ fresh' = (fresh /\ written = 0)
            /\ GotoWriter("loop")
            /\ UNCHANGED <<mainVars, captureVars, queue, sleeping, writerOpen, sent, pipe, kpc,
                           reading, last, sessions>>

(* write finds no reader: EPIPE, or SIGPIPE's default action.                   *)
RawBroken == /\ rpc = "write" /\ ~ReaderPresent /\ sigpipe = "ignored"
             /\ writerOpen' = FALSE /\ pipe' = << >>
             /\ Free
             /\ GotoWriter("loop")
             /\ UNCHANGED <<mainVars, captureVars, queue, sleeping, sent, clientVars>>

RawKilled == /\ rpc = "write" /\ ~ReaderPresent /\ sigpipe = "default"
             /\ GotoWriter("killed")
             /\ writerOpen' = FALSE /\ pipe' = << >>
             /\ UNCHANGED <<mainVars, captureVars, queue, sleeping, held, written, freed, sent,
                            clientVars>>

RawClose == /\ rpc = "close"
            /\ writerOpen' = FALSE /\ pipe' = Discarded(FALSE, ReaderPresent)
            /\ GotoWriter("off")
            /\ UNCHANGED <<mainVars, captureVars, queue, sleeping, held, written, freed, sent,
                           clientVars>>

-----------------------------------------------------------------------------
(* The client's readRawFrames.  Its open waits for the writer's.                *)
ClientOpens == /\ ~ReaderPresent /\ sessions < MaxSessions
               /\ GotoClient(IF writerOpen THEN "header" ELSE "opening")
               /\ reading' = << >> /\ last' = 0
               /\ fresh' = ~writerOpen
               /\ sessions' = sessions + 1
               /\ UNCHANGED <<mainVars, captureVars, queue, sleeping, writerVars, pipe>>

(* A read takes the oldest unit, and finds the end only when the writer has     *)
(* closed.                                                                      *)
Read == pipe # << >> /\ reading' = Append(reading, Head(pipe)) /\ pipe' = Tail(pipe)
AtEnd == pipe = << >> /\ ~writerOpen

ReadHeader == /\ kpc = "header"
              /\ Read
              /\ GotoClient("select")
              /\ UNCHANGED <<mainVars, captureVars, queue, sleeping, writerVars, last, fresh,
                             sessions>>

ReadEnds == /\ kpc = "header" /\ AtEnd
            /\ GotoClient("gone")
            /\ UNCHANGED <<mainVars, captureVars, queue, sleeping, writerVars, pipe, reading,
                           last, fresh, sessions>>

(* The frame is taken as complete.                                              *)
FrameRead == /\ last' = reading[1].frame
             /\ reading' = << >>
             /\ GotoClient("header")

(* select, for a millisecond.  The data, which is all zeros, taken for a header  *)
(* announces a frame of no data.                                                *)
Select == /\ kpc = "select"
          /\ \/ /\ pipe # << >> \/ AtEnd
                /\ reading[1].part = 0
                /\ GotoClient("data")
                /\ UNCHANGED <<reading, last>>
             \/ /\ (pipe = << >> /\ writerOpen) \/ reading[1].part # 0
                /\ FrameRead
          /\ UNCHANGED <<mainVars, captureVars, queue, sleeping, writerVars, pipe, fresh,
                         sessions>>

ReadData == /\ kpc = "data"
            /\ \/ /\ Len(reading) < FrameUnits
                  /\ Read
                  /\ UNCHANGED <<kpc, last>>
               \/ /\ Len(reading) = FrameUnits \/ AtEnd
                  /\ FrameRead
                  /\ UNCHANGED pipe
            /\ UNCHANGED <<mainVars, captureVars, queue, sleeping, writerVars, fresh, sessions>>

(* The client is stopped, at any point.                                         *)
ClientLeaves == /\ ReaderPresent
                /\ GotoClient("gone")
                /\ pipe' = Discarded(writerOpen, FALSE)
                /\ UNCHANGED <<mainVars, captureVars, queue, sleeping, writerVars, reading, last,
                               fresh, sessions>>

-----------------------------------------------------------------------------
MainStep == NotifyExit \/ JoinThreads
CaptureStep == CaptureLoop \/ Push \/ Notify
RawStep == \/ RawLoop \/ RawCheck \/ RawSleep \/ RawStop \/ RawTake \/ RawOpen
           \/ RawWrite \/ RawFails \/ RawBroken \/ RawKilled \/ RawClose
ClientStep == ReadHeader \/ ReadEnds \/ Select \/ ReadData

Next == \/ MainStep \/ CaptureStep \/ RawStep \/ ClientStep
        \/ ExitRequested \/ SpuriousWakeup \/ ClientOpens \/ ClientLeaves

Spec == Init /\ [][Next]_vars

(* Threads that can go on do, also the client while it is there; a blocked open  *)
(* or write need not fail.  Nobody has to connect, to leave or to send a signal.  *)
OpenBlocked == rpc = "open" /\ ~writerOpen /\ ~ReaderPresent
WriteBlocked == rpc = "write" /\ ReaderPresent /\ PipeFull
Fairness == /\ WF_vars(MainStep) /\ WF_vars(CaptureStep)
            /\ WF_vars(~OpenBlocked /\ ~WriteBlocked /\ RawStep) /\ WF_vars(ClientStep)
FairSpec == Spec /\ Fairness

-----------------------------------------------------------------------------
UnitType == [frame : 1..MaxFrames, part : 0..DataUnits]

(* Types of the variables.                                                      *)
TypeOK == /\ mpc \in {"run", "join", "done"} /\ doExit \in BOOLEAN
          /\ sigpipe \in Dispositions
          /\ cpc \in {"loop", "push", "notify", "off"} /\ made \in 0..MaxFrames
          /\ queue \in Seq(1..MaxFrames)
          /\ rpc \in {"loop", "lock", "wait", "asleep", "test", "open", "write", "close", "off",
                     "killed"}
          /\ sleeping \in BOOLEAN /\ held \in 0..MaxFrames /\ written \in 0..DataUnits
          /\ freed \subseteq 1..MaxFrames /\ writerOpen \in BOOLEAN
          /\ sent \in Seq(1..MaxFrames) /\ pipe \in Seq(UnitType)
          /\ kpc \in {"off", "opening", "header", "select", "data", "gone"}
          /\ reading \in Seq(UnitType) /\ last \in 0..MaxFrames /\ fresh \in BOOLEAN
          /\ sessions \in 0..MaxSessions

Elements(s) == {s[i] : i \in 1..Len(s)}
CaptureOwns == IF cpc = "push" THEN {made} ELSE {}
WriterOwns == {held} \ {0}

(* Every frame has one owner: the capture thread, the queue, the writer, or      *)
(* nobody because it was freed, on every way out of the writer's loop.           *)
FrameOwnedOnce ==
  /\ CaptureOwns \cup Elements(queue) \cup WriterOwns \cup freed = 1..made
  /\ \A i, j \in 1..Len(queue) : queue[i] = queue[j] => i = j
  /\ CaptureOwns \cap (Elements(queue) \cup WriterOwns \cup freed) = {}
  /\ Elements(queue) \cap (WriterOwns \cup freed) = {}
  /\ WriterOwns \cap freed = {}

(* A client for whom the writer opened the FIFO reads headers as headers and     *)
(* behind each the data of that frame, and frame numbers ascend, although        *)
(* earlier clients left in the middle of frames.  It never finds the end of the   *)
(* stream within a frame: shutdown lets the writer finish the one it has begun.    *)
(* Only a write error other than EPIPE ends that: the writer gives the frame up    *)
(* and keeps the FIFO open, so that the next header comes within its data.          *)
ClientFramed ==
  fresh /\ reading # << >> =>
    /\ ~(kpc = "data" /\ Len(reading) < FrameUnits /\ AtEnd)
    /\ \A i \in 1..Len(reading) : reading[i] = Unit(reading[1].frame, i - 1)
    /\ last < reading[1].frame

(* Capture, queue and writer together are a channel that keeps frames in order,  *)
(* delivers each at most once and may lose some.                                 *)
InHand == IF held = 0 THEN << >> ELSE <<held>>
Channel == INSTANCE LossyFifo WITH accepted <- IF cpc = "push" THEN made - 1 ELSE made,
                                   chan <- InHand \o queue,
                                   delivered <- sent
ImplementsChannel == Channel!Spec

(* As long as server and client are there, no queued frame waits for ever: the   *)
(* writer's wakeup is not lost and pipe, writer and client never all wait.       *)
QueuedIsRetired ==
  \A f \in 1..MaxFrames : f \in Elements(queue) ~> f \in freed \/ doExit \/ ~ReaderPresent \/ ~Alive

(* The server survives a client that disconnects.                                *)
ServerSurvivesClient == Alive
=============================================================================
