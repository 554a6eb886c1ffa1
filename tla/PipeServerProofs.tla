-------------------------- MODULE PipeServerProofs --------------------------
(* Proofs about PipeServer, for any number of frames, units, sessions, any      *)
(* capacity of the FIFO and either disposition of SIGPIPE.                      *)
EXTENDS PipeServer, QueueLemmas

WriterLabels == {"loop", "lock", "wait", "asleep", "test", "open", "write", "close", "off",
                 "killed"}
ClientLabels == {"off", "opening", "header", "select", "data", "gone"}

-----------------------------------------------------------------------------
(* The writer has a frame from its pop to its free.  It never stops between the  *)
(* header and the first unit of data, it pops only when it has found a frame or   *)
(* the request to exit, and what it writes goes to an open FIFO.                  *)
WriterInv == /\ held # 0 <=> rpc \in {"open", "write", "killed"}
             /\ written # 0 => rpc \in {"write", "killed"}
             /\ written # 1
             /\ cpc = "push" => made # 0
             /\ rpc = "test" /\ ~doExit => queue # << >>
             /\ rpc = "write" => writerOpen
             /\ rpc \in {"killed", "off"} => ~writerOpen

(* The client selects with the header in hand and reads data behind it.           *)
ClientInv == /\ kpc \in {"opening", "header"} => reading = << >>
             /\ kpc = "select" => Len(reading) = 1
             /\ kpc = "data" => reading # << >>

(* TypeOK in two parts: the flags, and everything else.                           *)
FlagTypes == /\ doExit \in BOOLEAN /\ sleeping \in BOOLEAN /\ writerOpen \in BOOLEAN
             /\ fresh \in BOOLEAN

DataTypes == /\ mpc \in {"run", "join", "done"} /\ sigpipe \in Dispositions
             /\ cpc \in {"loop", "push", "notify", "off"} /\ made \in 0..MaxFrames
             /\ queue \in Seq(1..MaxFrames)
             /\ rpc \in WriterLabels /\ kpc \in ClientLabels
             /\ held \in 0..MaxFrames /\ written \in 0..DataUnits
             /\ freed \subseteq 1..MaxFrames
             /\ sent \in Seq(1..MaxFrames) /\ pipe \in Seq(UnitType)
             /\ reading \in Seq(UnitType) /\ last \in 0..MaxFrames
             /\ sessions \in 0..MaxSessions

PipeRest == DataTypes /\ WriterInv /\ ClientInv

PipeInv == FlagTypes /\ PipeRest

-----------------------------------------------------------------------------
LEMMA UnitTyped ==
  ASSUME NEW f \in 1..MaxFrames, NEW k \in 0..DataUnits
  PROVE  /\ Unit(f, k) \in UnitType
         /\ Unit(f, k).frame = f /\ Unit(f, k).part = k
BY DEF Unit, UnitType

(* What one write call adds: the next unit, or the header with the first one.     *)
LEMMA WriteStepProperties ==
  ASSUME PipeInv, rpc = "write"
  PROVE  /\ written = 0 => WriteStep = <<Unit(held, 0), Unit(held, 1)>> /\ Len(WriteStep) = 2
         /\ written # 0 => WriteStep = <<Unit(held, written)>> /\ Len(WriteStep) = 1
         /\ WriteStep \in Seq(UnitType) /\ held \in 1..MaxFrames
         /\ written + Len(WriteStep) # FrameUnits => written + Len(WriteStep) \in 2..DataUnits
<1>1. held \in 1..MaxFrames /\ written \in 0..DataUnits /\ DataUnits \in Nat \ {0}
  BY PipeAssumption DEF PipeInv, PipeRest, DataTypes, WriterInv
<1>2. /\ Unit(held, 0) \in UnitType /\ Unit(held, 1) \in UnitType
      /\ Unit(held, written) \in UnitType
  BY <1>1, UnitTyped
<1>3. CASE written = 0
  BY <1>1, <1>2, <1>3 DEF WriteStep, FrameUnits
<1>4. CASE written # 0
  BY <1>1, <1>2, <1>4 DEF WriteStep, FrameUnits
<1> QED
  BY <1>3, <1>4

LEMMA InitPipe == Init => PipeInv
<1> SUFFICES ASSUME Init PROVE PipeInv
  OBVIOUS
<1>1. FlagTypes
  BY Zenon DEF Init, FlagTypes
<1>2. DataTypes
  BY EmptySeq, PipeAssumption DEF Init, DataTypes, WriterLabels, ClientLabels
<1> QED
  BY <1>1, <1>2 DEF Init, PipeInv, PipeRest, WriterInv, ClientInv

LEMMA FlagStep == FlagTypes /\ [Next]_vars => FlagTypes'
<1> SUFFICES ASSUME FlagTypes, [Next]_vars PROVE FlagTypes'
  OBVIOUS
<1> USE DEF FlagTypes, mainVars, captureVars, writerVars, clientVars
<1>1. CASE MainStep \/ ExitRequested \/ SpuriousWakeup
  BY <1>1, Zenon DEF MainStep, NotifyExit, JoinThreads, ExitRequested, SpuriousWakeup
<1>2. CASE CaptureStep
  BY <1>2, Zenon DEF CaptureStep, CaptureLoop, Push, Notify
<1>3. CASE RawStep
  BY <1>3, Zenon DEF RawStep, RawLoop, RawCheck, RawSleep, RawStop, RawTake, RawOpen,
     RawWrite, RawFails, RawBroken, RawKilled, RawClose
<1>4. CASE ClientStep \/ ClientOpens \/ ClientLeaves
  BY <1>4, Zenon DEF ClientStep, ReadHeader, ReadEnds, Select, ReadData, ClientOpens,
     ClientLeaves
<1>5. CASE UNCHANGED vars
  BY <1>5, Zenon DEF vars
<1> QED
  BY <1>1, <1>2, <1>3, <1>4, <1>5, Zenon DEF Next

LEMMA MainPipe == PipeInv /\ (MainStep \/ ExitRequested \/ SpuriousWakeup) => PipeRest'
<1> USE PipeAssumption DEF PipeInv, PipeRest, DataTypes, WriterLabels, ClientLabels, WriterInv,
        ClientInv, captureVars, writerVars,
        clientVars, GotoMain
<1>1. ASSUME PipeInv, ExitRequested PROVE PipeRest'
  BY <1>1 DEF ExitRequested
<1>2. ASSUME PipeInv, NotifyExit PROVE PipeRest'
  BY <1>2 DEF NotifyExit
<1>3. ASSUME PipeInv, JoinThreads PROVE PipeRest'
  BY <1>3 DEF JoinThreads
<1>4. ASSUME PipeInv, SpuriousWakeup PROVE PipeRest'
  BY <1>4 DEF SpuriousWakeup, mainVars
<1> QED
  BY <1>1, <1>2, <1>3, <1>4 DEF MainStep

LEMMA CapturePipe == PipeInv /\ CaptureStep => PipeRest'
<1> USE PipeAssumption DEF PipeInv, PipeRest, DataTypes, WriterLabels, ClientLabels, WriterInv,
        ClientInv, mainVars, captureVars,
        writerVars, clientVars, GotoCapture
<1>1. ASSUME PipeInv, CaptureLoop PROVE PipeRest'
  BY <1>1 DEF CaptureLoop
<1>2. ASSUME PipeInv, Push PROVE PipeRest'
  BY <1>2 DEF Push, Unlocked
<1>3. ASSUME PipeInv, Notify PROVE PipeRest'
  BY <1>3 DEF Notify
<1> QED
  BY <1>1, <1>2, <1>3 DEF CaptureStep

LEMMA WriterPipe == PipeInv /\ RawStep => PipeRest'
<1> SUFFICES ASSUME PipeInv, RawStep PROVE PipeRest'
  OBVIOUS
<1> USE PipeAssumption DEF PipeInv, PipeRest, DataTypes, WriterLabels, ClientLabels, WriterInv,
        ClientInv, mainVars, captureVars,
        clientVars, GotoWriter
<1>1. CASE RawLoop
  BY <1>1 DEF RawLoop
<1>2. CASE RawCheck
  BY <1>2 DEF RawCheck
<1>3. CASE RawSleep
  BY <1>3 DEF RawSleep
<1>4. CASE RawStop
  BY <1>4 DEF RawStop
<1>5. CASE RawTake
  <2>1. Head(queue) \in 1..MaxFrames /\ Tail(queue) \in Seq(1..MaxFrames)
    BY <1>5, HeadTailProperties DEF RawTake
  <2> QED
    BY <1>5, <2>1 DEF RawTake
<1>6. CASE RawOpen
  <2>1. CASE rpc' = "write"
    BY <1>6, <2>1 DEF RawOpen
  <2>2. CASE rpc' = "loop"
    <3>1. /\ freed' = freed \cup {held} /\ held' = 0 /\ written' = 0 /\ held \in 1..MaxFrames
          /\ UNCHANGED <<kpc, writerOpen, mpc, sigpipe, doExit, cpc, made, queue, sent, pipe,
                         reading, last, sessions>>
      BY <1>6, <2>2 DEF RawOpen, Free
    <3>2. freed' \subseteq 1..MaxFrames
      BY <3>1
    <3> QED
      BY <2>2, <3>1, <3>2
  <2> QED
    BY <1>6, <2>1, <2>2 DEF RawOpen
<1>7. CASE RawWrite
  <2>1. /\ WriteStep \in Seq(UnitType) /\ held \in 1..MaxFrames
        /\ written + Len(WriteStep) # FrameUnits => written + Len(WriteStep) \in 2..DataUnits
    BY <1>7, WriteStepProperties DEF RawWrite
  <2>2. pipe' \in Seq(UnitType)
    BY <1>7, <2>1, ConcatProperties DEF RawWrite
  <2>3. Append(sent, held) \in Seq(1..MaxFrames)
    BY <2>1, AppendProperties
  <2>4. CASE written + Len(WriteStep) = FrameUnits
    <3>1. /\ freed' = freed \cup {held} /\ held' = 0 /\ written' = 0 /\ rpc' = "loop"
          /\ sent' = Append(sent, held)
          /\ UNCHANGED <<kpc, writerOpen, mpc, sigpipe, doExit, cpc, made, queue, reading,
                         last, sessions>>
      BY <1>7, <2>4 DEF RawWrite, Free
    <3>2. freed' \subseteq 1..MaxFrames
      BY <2>1, <3>1
    <3> QED
      BY <2>1, <2>2, <2>3, <3>1, <3>2
  <2>5. CASE written + Len(WriteStep) # FrameUnits
    <3>1. /\ written' \in 2..DataUnits /\ written' \in 0..DataUnits
          /\ UNCHANGED <<rpc, held, freed, sent>>
      BY <1>7, <2>1, <2>5 DEF RawWrite
    <3> QED
      BY <1>7, <2>2, <3>1 DEF RawWrite
  <2> QED
    BY <2>4, <2>5
<1>8. CASE RawBroken
  BY <1>8 DEF RawBroken, Free
<1>9. CASE RawKilled
  BY <1>9 DEF RawKilled
<1>10. CASE RawClose
  BY <1>10 DEF RawClose, Discarded
<1>11. CASE RawFails
  BY <1>11 DEF RawFails, Free
<1> QED
  BY <1>1, <1>2, <1>3, <1>4, <1>5, <1>6, <1>7, <1>8, <1>9, <1>10, <1>11 DEF RawStep

LEMMA ReadTyped ==
  ASSUME PipeInv, Read
  PROVE  /\ pipe' \in Seq(UnitType) /\ reading' \in Seq(UnitType)
         /\ Len(reading') = Len(reading) + 1 /\ reading' # << >>
<1>1. pipe \in Seq(UnitType) /\ pipe # << >> /\ reading \in Seq(UnitType)
  BY DEF Read, PipeInv, PipeRest, DataTypes
<1>2. Head(pipe) \in UnitType /\ Tail(pipe) \in Seq(UnitType)
  BY <1>1, HeadTailProperties
<1>3. /\ Append(reading, Head(pipe)) \in Seq(UnitType)
      /\ Len(Append(reading, Head(pipe))) = Len(reading) + 1
      /\ Append(reading, Head(pipe)) # << >>
  BY <1>1, <1>2, AppendProperties
<1> QED
  BY <1>2, <1>3 DEF Read

LEMMA ReadShortens == PipeInv /\ Read => pipe' # pipe
<1> SUFFICES ASSUME PipeInv, Read PROVE pipe' # pipe
  OBVIOUS
<1>1. pipe \in Seq(UnitType) /\ pipe # << >> /\ pipe' = Tail(pipe)
  BY DEF Read, PipeInv, PipeRest, DataTypes
<1>2. Len(pipe') = Len(pipe) - 1 /\ Len(pipe) \in Nat
  BY <1>1, HeadTailProperties, EmptyLen
<1> QED
  BY <1>2

LEMMA FirstRead ==
  ASSUME PipeInv, kpc \in {"select", "data"}
  PROVE  /\ reading \in Seq(UnitType) /\ reading # << >> /\ Len(reading) \in Nat \ {0}
         /\ reading[1] \in UnitType /\ reading[1].frame \in 1..MaxFrames
<1>1. reading \in Seq(UnitType) /\ reading # << >>
  <2>1. reading \in Seq(UnitType) /\ (Len(reading) = 1 \/ reading # << >>)
    BY DEF PipeInv, PipeRest, DataTypes, ClientInv
  <2> QED
    BY <2>1, EmptyLen
<1>2. Len(reading) \in Nat \ {0} /\ reading[1] \in UnitType
  BY <1>1, EmptySeq, ElementOfSeq
<1> QED
  BY <1>1, <1>2 DEF UnitType

LEMMA ClientPipe == PipeInv /\ (ClientStep \/ ClientOpens \/ ClientLeaves) => PipeRest'
<1> SUFFICES ASSUME PipeInv, ClientStep \/ ClientOpens \/ ClientLeaves PROVE PipeRest'
  OBVIOUS
<1> USE PipeAssumption DEF PipeInv, PipeRest, DataTypes, WriterLabels, ClientLabels, WriterInv,
        ClientInv, mainVars, captureVars,
        writerVars, GotoClient
<1>1. CASE ReadHeader
  BY <1>1, ReadTyped DEF ReadHeader
<1>2. CASE ReadEnds
  BY <1>2 DEF ReadEnds
<1>3. CASE Select
  <2>1. reading[1].frame \in 1..MaxFrames
    BY <1>3, FirstRead DEF Select
  <2>2. << >> \in Seq(UnitType)
    BY EmptySeq
  <2>3. CASE kpc' = "data"
    <3>1. /\ Len(reading) = 1
          /\ UNCHANGED <<reading, last, mpc, sigpipe, doExit, cpc, made, queue, writerVars, pipe,
                         sessions>>
      BY <1>3, <2>3 DEF Select, FrameRead
    <3>2. reading # << >>
      BY <1>3, FirstRead DEF Select
    <3> QED
      BY <2>3, <3>1, <3>2
  <2>4. CASE kpc' = "header"
    BY <1>3, <2>1, <2>2, <2>4 DEF Select, FrameRead
  <2> QED
    BY <1>3, <2>3, <2>4 DEF Select, FrameRead
<1>4. CASE ReadData
  <2>1. reading[1].frame \in 1..MaxFrames
    BY <1>4, FirstRead DEF ReadData
  <2>2. << >> \in Seq(UnitType)
    BY EmptySeq
  <2>3. CASE Read /\ UNCHANGED <<kpc, last>>
    BY <1>4, <2>3, ReadTyped DEF ReadData
  <2>4. CASE FrameRead /\ UNCHANGED pipe
    BY <1>4, <2>1, <2>2, <2>4 DEF ReadData, FrameRead
  <2> QED
    BY <1>4, <2>3, <2>4 DEF ReadData
<1>5. CASE ClientOpens
  BY <1>5 DEF ClientOpens
<1>6. CASE ClientLeaves
  BY <1>6 DEF ClientLeaves, Discarded
<1> QED
  BY <1>1, <1>2, <1>3, <1>4, <1>5, <1>6 DEF ClientStep

LEMMA StepPipe == PipeInv /\ [Next]_vars => PipeInv'
<1> SUFFICES ASSUME PipeInv, [Next]_vars PROVE PipeInv'
  OBVIOUS
<1>1. FlagTypes'
  BY FlagStep DEF PipeInv
<1>2. CASE Next
  BY <1>1, <1>2, MainPipe, CapturePipe, WriterPipe, ClientPipe DEF Next, PipeInv
<1>3. CASE UNCHANGED vars
  <2>1. PipeRest'
    BY <1>3 DEF vars, mainVars, captureVars, writerVars, clientVars, PipeInv, PipeRest,
       DataTypes, WriterInv, ClientInv
  <2> QED
    BY <1>1, <2>1 DEF PipeInv
<1> QED
  BY <1>2, <1>3

(* The variables keep their types: what the writer writes and frees is always a     *)
(* frame that was captured, and what the client takes for a header always a unit     *)
(* that was written.                                                                *)
THEOREM TypeCorrect == Spec => []TypeOK
<1>1. Init => PipeInv
  BY InitPipe
<1>2. PipeInv /\ [Next]_vars => PipeInv'
  BY StepPipe
<1>3. PipeInv => TypeOK
  BY Zenon DEF PipeInv, PipeRest, FlagTypes, DataTypes, WriterLabels, ClientLabels, TypeOK
<1> QED
  BY <1>1, <1>2, <1>3, PTL DEF Spec

-----------------------------------------------------------------------------
(* Frames are numbered as they are captured, so the queue is a run of consecutive    *)
(* numbers up to the last one pushed, the writer's frame is the one before them, and  *)
(* all older ones are freed.                                                         *)
Pushed == IF cpc = "push" THEN made - 1 ELSE made
Gone == Pushed - Len(queue)

OrderInv == /\ Gone \in Nat
            /\ RunFrom(queue, Gone)
            /\ held # 0 => held = Gone
            /\ freed = (1..Gone) \ {held}

OwnInv == PipeInv /\ OrderInv

LEMMA OrderFrame ==
  ASSUME OrderInv, UNCHANGED <<queue, held, freed, Pushed>>
  PROVE  OrderInv'
BY DEF OrderInv, Gone, RunFrom

LEMMA OrderFacts ==
  ASSUME OwnInv
  PROVE  /\ queue \in Seq(1..MaxFrames) /\ Len(queue) \in Nat
         /\ held \in Nat /\ made \in Nat /\ Pushed \in Int
         /\ Gone \in Nat /\ Gone + Len(queue) = Pushed /\ RunFrom(queue, Gone)
         /\ held # 0 => held = Gone
         /\ freed = (1..Gone) \ {held}
<1>1. /\ queue \in Seq(1..MaxFrames) /\ Len(queue) \in Nat
      /\ held \in Nat /\ made \in Nat /\ Pushed \in Int
  BY PipeAssumption, LenProperties DEF OwnInv, PipeInv, PipeRest, DataTypes, Pushed
<1> QED
  BY <1>1 DEF OwnInv, OrderInv, Gone

(* A free of the frame in hand.                                                      *)
LEMMA OrderFree ==
  ASSUME OwnInv, held # 0, Free, UNCHANGED <<queue, Pushed>>
  PROVE  OrderInv'
<1>1. Gone' = Gone /\ queue' = queue /\ held' = 0 /\ freed' = freed \cup {held}
  BY DEF Gone, Free
<1>2. freed' = (1..Gone') \ {held'}
  BY <1>1, OrderFacts
<1> QED
  BY <1>1, <1>2, OrderFacts DEF OrderInv, RunFrom

LEMMA CaptureOrder == OwnInv /\ CaptureStep => OrderInv'
<1> SUFFICES ASSUME OwnInv, CaptureStep PROVE OrderInv'
  OBVIOUS
<1>1. CASE Push
  <2>1. /\ queue' = Append(queue, made) /\ UNCHANGED <<held, freed>>
        /\ Pushed = made - 1 /\ Pushed' = made
    BY <1>1 DEF Push, GotoCapture, Pushed, writerVars
  <2>2. made \in 1..MaxFrames
    BY <1>1, PipeAssumption DEF Push, OwnInv, PipeInv, PipeRest, DataTypes, WriterInv
  <2>3. made = Gone + Len(queue) + 1
    BY <2>1, <2>2, OrderFacts
  <2>4. Len(queue') = Len(queue) + 1 /\ RunFrom(queue', Gone)
    <3>1. queue \in Seq(1..MaxFrames) /\ Gone \in Nat /\ RunFrom(queue, Gone)
      BY OrderFacts
    <3> QED
      BY <2>1, <2>2, <2>3, <3>1, RunPush
  <2>5. Gone' = Gone
    BY <2>1, <2>3, <2>4, OrderFacts DEF Gone
  <2> QED
    BY <2>1, <2>4, <2>5, OrderFacts DEF OrderInv, RunFrom
<1>2. CASE CaptureLoop \/ Notify
  <2>1. UNCHANGED <<queue, held, freed, Pushed>>
    BY <1>2, OrderFacts DEF CaptureLoop, Notify, GotoCapture, Pushed, writerVars
  <2> QED
    BY <2>1, OrderFrame DEF OwnInv
<1> QED
  BY <1>1, <1>2 DEF CaptureStep

LEMMA WriterOrder == OwnInv /\ RawStep => OrderInv'
<1> SUFFICES ASSUME OwnInv, RawStep PROVE OrderInv'
  OBVIOUS
<1>1. Pushed' = Pushed
  BY DEF RawStep, RawLoop, RawCheck, RawSleep, RawStop, RawTake, RawOpen, RawWrite, RawFails,
     RawBroken, RawKilled, RawClose, captureVars, Pushed
<1>2. CASE RawTake
  <2>1. /\ queue # << >> /\ queue' = Tail(queue) /\ held' = Head(queue)
        /\ freed' = freed /\ held = 0
    BY <1>2 DEF RawTake, OwnInv, PipeInv, PipeRest, WriterInv
  <2>2. /\ Head(queue) = Gone + 1 /\ Len(queue') = Len(queue) - 1
        /\ RunFrom(queue', Gone + 1)
    BY <2>1, RunPop, OrderFacts
  <2>3. Gone' = Gone + 1
    BY <1>1, <2>1, <2>2, OrderFacts DEF Gone
  <2>4. freed' = (1..Gone') \ {held'}
    BY <2>1, <2>2, <2>3, OrderFacts
  <2> QED
    BY <2>1, <2>2, <2>3, <2>4, OrderFacts DEF OrderInv, RunFrom
<1>3. CASE RawOpen \/ RawWrite \/ RawFails \/ RawBroken
  <2>1. held # 0 /\ queue' = queue
    BY <1>3 DEF RawOpen, RawWrite, RawFails, RawBroken, OwnInv, PipeInv, PipeRest,
       WriterInv
  <2>2. Free \/ UNCHANGED <<held, freed>>
    BY <1>3 DEF RawOpen, RawWrite, RawFails, RawBroken
  <2> QED
    BY <1>1, <2>1, <2>2, OrderFree, OrderFrame DEF OwnInv
<1>4. CASE RawLoop \/ RawCheck \/ RawSleep \/ RawStop \/ RawKilled \/ RawClose
  <2>1. UNCHANGED <<queue, held, freed>>
    BY <1>4 DEF RawLoop, RawCheck, RawSleep, RawStop, RawKilled, RawClose
  <2> QED
    BY <1>1, <2>1, OrderFrame DEF OwnInv
<1> QED
  BY <1>2, <1>3, <1>4 DEF RawStep

(* main and the client do not touch the frames.                                      *)
LEMMA OthersKeepFrames ==
  ASSUME \/ MainStep \/ ClientStep \/ ExitRequested \/ SpuriousWakeup \/ ClientOpens
         \/ ClientLeaves \/ UNCHANGED vars
  PROVE  UNCHANGED <<queue, held, freed, sent, cpc, made, Pushed>>
BY DEF MainStep, NotifyExit, JoinThreads, ClientStep, ReadHeader, ReadEnds, Select, ReadData,
   ExitRequested, SpuriousWakeup, ClientOpens, ClientLeaves, vars, captureVars, writerVars,
   Pushed

LEMMA StepOrder == OwnInv /\ [Next]_vars => OrderInv'
BY CaptureOrder, WriterOrder, OthersKeepFrames, OrderFrame DEF Next, OwnInv

LEMMA OwnInit == Init => OwnInv
<1> SUFFICES ASSUME Init PROVE OrderInv
  BY InitPipe DEF OwnInv
<1>1. Pushed = 0 /\ queue = << >> /\ held = 0 /\ freed = {}
  BY DEF Init, Pushed
<1>2. Len(queue) = 0 /\ RunFrom(queue, 0)
  BY <1>1, EmptyRun
<1>3. Pushed = 0 /\ Len(queue) = 0
  BY <1>1, <1>2
<1>4. Gone = 0
  BY <1>3 DEF Gone
<1> QED
  BY <1>1, <1>2, <1>4 DEF OrderInv

THEOREM OwnInvariant == Spec => []OwnInv
<1>1. Init => OwnInv
  BY OwnInit
<1>2. OwnInv /\ [Next]_vars => OwnInv'
  BY StepPipe, StepOrder DEF OwnInv
<1> QED
  BY <1>1, <1>2, PTL DEF Spec

(* Every captured frame has one owner: none is leaked on a failed open or write, a    *)
(* broken pipe or a complete write, and none is freed while it is queued or written.         *)
THEOREM EveryFrameOwnedOnce == Spec => []FrameOwnedOnce
<1>1. ASSUME OwnInv PROVE FrameOwnedOnce
  <2>1. /\ Elements(queue) = (Gone + 1)..Pushed
        /\ \A i, j \in 1..Len(queue) : queue[i] = queue[j] => i = j
    BY <1>1, OrderFacts, RunElements DEF Elements
  <2>2. \/ CaptureOwns = {made} /\ Pushed = made - 1
        \/ CaptureOwns = {} /\ Pushed = made
    BY DEF CaptureOwns, Pushed
  <2>3. \/ held = 0 /\ WriterOwns = {} /\ freed = 1..Gone
        \/ held = Gone /\ held # 0 /\ WriterOwns = {held} /\ freed = 1..(Gone - 1)
    <3>1. /\ Gone \in Nat /\ freed = (1..Gone) \ {held} /\ (held # 0 => held = Gone)
          /\ WriterOwns = {held} \ {0}
      BY <1>1, OrderFacts DEF WriterOwns
    <3>2. CASE held = 0
      BY <3>1, <3>2
    <3>3. CASE held # 0
      <4>1. held = Gone /\ WriterOwns = {held}
        BY <3>1, <3>3
      <4>2. freed = 1..(Gone - 1)
        BY <3>1, <4>1
      <4> QED
        BY <3>3, <4>1, <4>2
    <3> QED
      BY <3>2, <3>3
  <2>4. CaptureOwns \cup Elements(queue) \cup WriterOwns \cup freed = 1..made
    BY <1>1, <2>1, <2>2, <2>3, OrderFacts
  <2>5. /\ CaptureOwns \cap (Elements(queue) \cup WriterOwns \cup freed) = {}
        /\ Elements(queue) \cap (WriterOwns \cup freed) = {}
        /\ WriterOwns \cap freed = {}
    BY <1>1, <2>1, <2>2, <2>3, OrderFacts
  <2> QED
    BY <2>1, <2>4, <2>5 DEF FrameOwnedOnce
<1> QED
  BY <1>1, OwnInvariant, PTL

-----------------------------------------------------------------------------
(* The refinement of LossyFifo.  The channel has accepted the frames pushed so far   *)
(* and holds the writer's frame, until it is freed, before the queue.                *)
LEMMA StutterStep ==
  ASSUME UNCHANGED <<queue, sent, held, Pushed>>
  PROVE  UNCHANGED Channel!chanVars
<1>1. (IF cpc' = "push" THEN made' - 1 ELSE made') = (IF cpc = "push" THEN made - 1 ELSE made)
  BY DEF Pushed
<1>2. UNCHANGED <<queue, sent, InHand>>
  BY DEF InHand
<1> QED
  BY <1>1, <1>2, Zenon DEF Channel!chanVars

LEMMA PushPuts == OwnInv /\ Push => Channel!Put
<1> SUFFICES ASSUME OwnInv, Push PROVE Channel!Put
  OBVIOUS
<1>1. /\ queue' = Append(queue, made) /\ sent' = sent /\ InHand' = InHand
      /\ cpc = "push" /\ cpc' = "notify" /\ made' = made
  BY DEF Push, GotoCapture, InHand, writerVars
<1>2. queue \in Seq(Nat) /\ InHand \in Seq(Nat) /\ made \in Nat /\ (made - 1) + 1 = made
  <2>1. queue \in Seq(1..MaxFrames) /\ held \in Nat /\ made \in Nat
    BY OrderFacts
  <2>2. InHand \in Seq(Nat)
    BY <2>1 DEF InHand
  <2> QED
    BY <2>1, <2>2, SeqMonotonic, PipeAssumption
<1>3. InHand' \o queue' = Append(InHand \o queue, made)
  BY <1>1, <1>2, AppendRight
<1>4. /\ (IF cpc = "push" THEN made - 1 ELSE made) = made - 1
      /\ (IF cpc' = "push" THEN made' - 1 ELSE made') = made
  BY <1>1
<1> QED
  BY <1>1, <1>2, <1>3, <1>4, Zenon DEF Channel!Put

LEMMA TakeStutters == OwnInv /\ RawTake => UNCHANGED Channel!chanVars
<1> SUFFICES ASSUME OwnInv, RawTake PROVE UNCHANGED Channel!chanVars
  OBVIOUS
<1>1. /\ queue # << >> /\ queue' = Tail(queue) /\ sent' = sent
      /\ held = 0 /\ held' = Head(queue) /\ UNCHANGED <<cpc, made>>
  BY DEF RawTake, captureVars, OwnInv, PipeInv, PipeRest, WriterInv
<1>2. queue \in Seq(1..MaxFrames)
  BY OrderFacts
<1>3. InHand = << >> /\ InHand' = <<Head(queue)>>
  <2>1. Head(queue) \in 1..MaxFrames
    BY <1>1, <1>2, HeadTailProperties
  <2> QED
    BY <1>1, <2>1 DEF InHand
<1>4. InHand' \o queue' = queue /\ InHand \o queue = queue
  BY <1>1, <1>2, <1>3, TakeInHand, ConcatEmptySeq
<1> QED
  BY <1>1, <1>4, Zenon DEF Channel!chanVars

(* A free ends the writer's part in the frame: it delivered it or it lost it.        *)
LEMMA FreeEnds ==
  ASSUME OwnInv, held # 0, Free, UNCHANGED <<queue, cpc, made>>,
         sent' = sent \/ sent' = Append(sent, held)
  PROVE  Channel!Deliver \/ Channel!Lose
<1>1. queue \in Seq(1..MaxFrames) /\ held \in 1..MaxFrames
  BY PipeAssumption DEF OwnInv, PipeInv, PipeRest, DataTypes
<1>2. InHand = <<held>> /\ InHand' = << >> /\ queue' = queue
  BY DEF Free, InHand
<1>3. PICK c : c = InHand \o queue
  OBVIOUS
<1>4. /\ c \in Seq(1..MaxFrames) /\ c # << >> /\ Head(c) = held /\ Tail(c) = queue
  BY <1>1, <1>2, <1>3, HandIsFront, ZenonT(40)
<1>5. InHand' \o queue' = Tail(c)
  BY <1>1, <1>2, <1>4, ConcatEmptySeq
<1>6. CASE sent' = Append(sent, held)
  BY <1>3, <1>4, <1>5, <1>6, Zenon DEF Channel!Deliver
<1>7. CASE sent' = sent
  <2>1. /\ 1 \in 1..Len(c)
        /\ SubSeq(c, 1, 1 - 1) \o SubSeq(c, 1 + 1, Len(c)) = Tail(c)
    BY <1>4, DropFront
  <2>2. \E i \in 1..Len(c) : InHand' \o queue' = SubSeq(c, 1, i - 1) \o SubSeq(c, i + 1, Len(c))
    BY <1>5, <2>1, Zenon
  <2> QED
    BY <1>3, <1>7, <2>2, Zenon DEF Channel!Lose
<1> QED
  BY <1>6, <1>7

LEMMA ChannelStep == OwnInv /\ [Next]_vars => [Channel!Next]_(Channel!chanVars)
<1> SUFFICES ASSUME OwnInv, [Next]_vars PROVE [Channel!Next]_(Channel!chanVars)
  OBVIOUS
<1>1. CASE Push \/ RawTake
  BY <1>1, PushPuts, TakeStutters DEF Channel!Next
<1>2. CASE RawOpen \/ RawWrite \/ RawFails \/ RawBroken
  <2>1. held # 0 /\ UNCHANGED <<queue, cpc, made>>
    BY <1>2 DEF RawOpen, RawWrite, RawFails, RawBroken, captureVars, OwnInv, PipeInv,
       PipeRest, WriterInv
  <2>2. \/ Free /\ (sent' = sent \/ sent' = Append(sent, held))
        \/ UNCHANGED <<sent, held>>
    BY <1>2 DEF RawOpen, RawWrite, RawFails, RawBroken
  <2>3. Pushed' = Pushed
    BY <2>1 DEF Pushed
  <2> QED
    BY <2>1, <2>2, <2>3, FreeEnds, StutterStep DEF Channel!Next
<1>3. CASE \/ CaptureLoop \/ Notify \/ RawLoop \/ RawCheck \/ RawSleep \/ RawStop \/ RawKilled
           \/ RawClose
  <2>1. UNCHANGED <<queue, sent, held>>
    BY <1>3 DEF CaptureLoop, Notify, RawLoop, RawCheck, RawSleep, RawStop, RawKilled, RawClose,
       writerVars
  <2>2. Pushed' = Pushed
    <3>1. made \in Nat
      BY OrderFacts
    <3>2. CASE CaptureLoop
      <4>1. \/ cpc' = "off" /\ made' = made /\ cpc = "loop"
            \/ cpc' = "push" /\ made' = made + 1 /\ cpc = "loop"
        BY <3>2 DEF CaptureLoop, GotoCapture
      <4> QED
        BY <3>1, <4>1 DEF Pushed
    <3>3. CASE ~CaptureLoop
      BY <1>3, <3>3 DEF Notify, RawLoop, RawCheck, RawSleep, RawStop, RawKilled, RawClose,
         captureVars, GotoCapture, Pushed
    <3> QED
      BY <3>2, <3>3
  <2> QED
    BY <2>1, <2>2, StutterStep
<1> QED
  BY <1>1, <1>2, <1>3, OthersKeepFrames, StutterStep DEF Next, CaptureStep, RawStep

(* The raw path is a lossy FIFO: whatever clients come and go and whichever opens and  *)
(* writes fail, complete frames reach the pipe in the order they were captured and at  *)
(* most once.                                                                          *)
THEOREM RawPathImplementsChannel == Spec => ImplementsChannel
<1>1. Init => Channel!Init
  <2> SUFFICES ASSUME Init PROVE Channel!Init
    OBVIOUS
  <2>1. made = 0 /\ cpc # "push" /\ InHand = << >> /\ queue = << >> /\ sent = << >>
    BY DEF Init, InHand
  <2>2. << >> \o << >> = << >>
    BY ConcatEmptySeq, EmptySeq
  <2> QED
    BY <2>1, <2>2, Zenon DEF Channel!Init
<1>2. OwnInv /\ [Next]_vars => [Channel!Next]_(Channel!chanVars)
  BY ChannelStep
<1> QED
  BY <1>1, <1>2, OwnInvariant, PTL DEF Spec, ImplementsChannel, Channel!Spec

-----------------------------------------------------------------------------
(* What a client finds in the FIFO.  The FIFO is empty when nobody has it open, and   *)
(* while the client waits in open; and the writer closes it under a client only when   *)
(* it ends.                                                                           *)
Reads == kpc \in {"header", "select", "data"}

FifoInv == /\ ~writerOpen /\ ~ReaderPresent => pipe = << >>
           /\ kpc = "opening" => ~writerOpen /\ pipe = << >> /\ last = 0
           /\ Reads /\ ~writerOpen => rpc = "off"

(* The units a client for whom the writer opened the FIFO has in hand or still before  *)
(* it: frame behind frame, ascending, each with its header first, and at the end the   *)
(* writer's position.                                                                  *)
Stream == reading \o pipe

Follows(u, v) == \/ u.part < DataUnits /\ v = Unit(u.frame, u.part + 1)
                 \/ u.part = DataUnits /\ v.part = 0 /\ u.frame < v.frame

Ordered(s) == \A i \in 1..Len(s) : i # 1 => Follows(s[i - 1], s[i])

(* The frames before this one the writer has done with.                               *)
Finished == IF held = 0 THEN Gone ELSE Gone - 1

StreamFrom(s, l) ==
  /\ Ordered(s)
  /\ s # << >> => s[1].part = 0 /\ l < s[1].frame
  /\ s # << >> /\ written = 0 => s[Len(s)].part = DataUnits /\ s[Len(s)].frame <= Finished
  /\ s # << >> /\ written # 0 => s[Len(s)] = Unit(held, written - 1)
  /\ s = << >> => written = 0 /\ l <= Finished

StreamInv == fresh /\ Reads => StreamFrom(Stream, last)

(* What it has in hand is the beginning of one frame.                                  *)
ReadInv == fresh => /\ \A i \in 1..Len(reading) : reading[i] = Unit(reading[1].frame, i - 1)
                    /\ reading # << >> => last < reading[1].frame
                    /\ Len(reading) <= FrameUnits

FramedInv == OwnInv /\ FifoInv /\ StreamInv /\ ReadInv

-----------------------------------------------------------------------------
LEMMA FifoStep == FramedInv /\ [Next]_vars => FifoInv'
<1> SUFFICES ASSUME FramedInv, [Next]_vars PROVE FifoInv'
  OBVIOUS
<1> USE DEF FramedInv, OwnInv, PipeInv, PipeRest, WriterInv, FifoInv, Reads, ReaderPresent,
        Discarded
<1>1. CASE \/ MainStep \/ ExitRequested \/ SpuriousWakeup \/ CaptureStep \/ UNCHANGED vars
           \/ RawLoop \/ RawCheck \/ RawSleep \/ RawStop \/ RawTake
  <2>1. UNCHANGED <<writerOpen, kpc, pipe, last, fresh, reading>> /\ (rpc' = "off" <=> rpc = "off")
    BY <1>1 DEF MainStep, NotifyExit, JoinThreads, ExitRequested, SpuriousWakeup, CaptureStep,
       CaptureLoop, Push, Notify, vars, writerVars, clientVars, RawLoop, RawCheck, RawSleep,
       RawStop, RawTake, GotoWriter
  <2> QED
    BY <2>1
<1>2. CASE RawOpen
  BY <1>2 DEF RawOpen
<1>3. CASE RawWrite
  BY <1>3 DEF RawWrite, clientVars
<1>4. CASE RawFails \/ RawBroken \/ RawKilled
  BY <1>4 DEF RawFails, RawBroken, RawKilled, GotoWriter, clientVars
<1>5. CASE RawClose
  BY <1>5 DEF RawClose, GotoWriter, clientVars
<1>6. CASE ReadHeader \/ ReadEnds \/ Select \/ ReadData
  BY <1>6 DEF ReadHeader, ReadEnds, Select, ReadData, FrameRead, GotoClient, writerVars, AtEnd
<1>7. CASE ClientOpens
  BY <1>7 DEF ClientOpens, GotoClient, writerVars
<1>8. CASE ClientLeaves
  BY <1>8 DEF ClientLeaves, GotoClient, writerVars
<1> QED
  BY <1>1, <1>2, <1>3, <1>4, <1>5, <1>6, <1>7, <1>8 DEF Next, RawStep, ClientStep

-----------------------------------------------------------------------------
(* A unit that follows the last one lengthens an ordered stream.                       *)
LEMMA OrderedAppend ==
  ASSUME NEW s \in Seq(UnitType), NEW u \in UnitType, Ordered(s),
         s # << >> => Follows(s[Len(s)], u)
  PROVE  /\ Append(s, u) \in Seq(UnitType) /\ Append(s, u) # << >>
         /\ Ordered(Append(s, u))
         /\ Append(s, u)[Len(Append(s, u))] = u
         /\ Append(s, u)[1] = IF s = << >> THEN u ELSE s[1]
<1> DEFINE t == Append(s, u)
<1>1. /\ t \in Seq(UnitType) /\ t # << >> /\ Len(t) = Len(s) + 1 /\ Len(s) \in Nat
      /\ \A i \in 1..Len(s) : t[i] = s[i]
      /\ t[Len(s) + 1] = u
      /\ s = << >> <=> Len(s) = 0
  BY AppendProperties, EmptyLen
<1> HIDE DEF t
<1>2. ASSUME NEW i \in 1..Len(t), i # 1 PROVE Follows(t[i - 1], t[i])
  <2>1. CASE i = Len(s) + 1
    <3>1. t[i - 1] = s[Len(s)] /\ t[i] = u /\ s # << >>
      BY <1>1, <1>2, <2>1
    <3> QED
      BY <3>1
  <2>2. CASE i # Len(s) + 1
    <3>1. t[i - 1] = s[i - 1] /\ t[i] = s[i] /\ i \in 1..Len(s)
      BY <1>1, <1>2, <2>2
    <3> QED
      BY <1>2, <3>1 DEF Ordered
  <2> QED
    BY <2>1, <2>2
<1>3. t[1] = IF s = << >> THEN u ELSE s[1]
  BY <1>1
<1>4. Ordered(t)
  BY <1>2 DEF Ordered
<1>5. t[Len(t)] = u
  BY <1>1
<1> QED
  BY <1>1, <1>3, <1>4, <1>5 DEF t

(* What remains of an ordered stream when its first part a is taken away.              *)
LEMMA OrderedRest ==
  ASSUME NEW a \in Seq(UnitType), NEW b \in Seq(UnitType), a # << >>, Ordered(a \o b)
  PROVE  /\ a \o b \in Seq(UnitType) /\ a \o b # << >> /\ (a \o b)[1] = a[1]
         /\ Ordered(b)
         /\ b # << >> => /\ Follows(a[Len(a)], b[1])
                         /\ (a \o b)[Len(a \o b)] = b[Len(b)]
         /\ b = << >> => (a \o b)[Len(a \o b)] = a[Len(a)]
<1>1. PICK s : s = a \o b
  OBVIOUS
<1>2. PICK n : n = Len(a)
  OBVIOUS
<1>3. PICK m : m = Len(b)
  OBVIOUS
<1>4. /\ n \in Nat \ {0} /\ m \in Nat /\ s \in Seq(UnitType) /\ Len(s) = n + m
      /\ (b = << >> <=> m = 0) /\ s # << >>
  <2>1. n \in Nat \ {0} /\ m \in Nat /\ (b = << >> <=> m = 0)
    BY <1>2, <1>3, EmptyLen
  <2>2. s \in Seq(UnitType) /\ Len(s) = n + m
    BY <1>1, <1>2, <1>3, ConcatProperties
  <2>3. s # << >>
    BY <2>1, <2>2, EmptyLen
  <2> QED
    BY <2>1, <2>2, <2>3
<1>5. /\ \A i \in 1..n : s[i] = a[i]
      /\ \A i \in 1..m : s[n + i] = b[i]
  <2>1. \A i \in 1..(n + m) : s[i] = IF i <= n THEN a[i] ELSE b[i - n]
    BY <1>1, <1>2, <1>3, ConcatProperties
  <2>2. ASSUME NEW i \in 1..m PROVE s[n + i] = b[i]
    <3>1. n + i \in 1..(n + m) /\ ~(n + i <= n) /\ (n + i) - n = i
      BY <1>4
    <3> QED
      BY <2>1, <3>1
  <2>3. ASSUME NEW i \in 1..n PROVE s[i] = a[i]
    <3>1. i \in 1..(n + m) /\ i <= n
      BY <1>4
    <3> QED
      BY <2>1, <3>1
  <2> QED
    BY <2>2, <2>3
<1>6. \A i \in 1..(n + m) : i # 1 => Follows(s[i - 1], s[i])
  BY <1>1, <1>4 DEF Ordered
<1>7. ASSUME NEW i \in 1..m, i # 1 PROVE Follows(b[i - 1], b[i])
  <2>1. /\ n + i \in 1..(n + m) /\ n + i # 1 /\ (n + i) - 1 = n + (i - 1) /\ i - 1 \in 1..m
    BY <1>4, <1>7
  <2>2. s[(n + i) - 1] = b[i - 1] /\ s[n + i] = b[i]
    BY <1>5, <2>1
  <2> QED
    BY <1>6, <2>1, <2>2
<1>8. ASSUME m # 0 PROVE Follows(a[n], b[1]) /\ s[n + m] = b[m]
  <2>1. /\ n + 1 \in 1..(n + m) /\ n + 1 # 1 /\ (n + 1) - 1 = n /\ 1 \in 1..m /\ m \in 1..m
        /\ n \in 1..n
    BY <1>4, <1>8
  <2>2. s[n] = a[n] /\ s[n + 1] = b[1] /\ s[n + m] = b[m]
    BY <1>5, <2>1
  <2> QED
    BY <1>6, <2>1, <2>2
<1>9. ASSUME m = 0 PROVE s[n + m] = a[n]
  BY <1>4, <1>5, <1>9
<1>10. s[1] = a[1]
  BY <1>4, <1>5
<1>11. Ordered(b)
  BY <1>3, <1>7 DEF Ordered
<1> QED
  BY <1>1, <1>2, <1>3, <1>4, <1>8, <1>9, <1>10, <1>11, Zenon

-----------------------------------------------------------------------------
LEMMA FinishedFacts == OwnInv => Finished \in Nat /\ freed = 1..Finished
<1> SUFFICES ASSUME OwnInv PROVE Finished \in Nat /\ freed = 1..Finished
  OBVIOUS
<1>1. Gone \in Nat /\ freed = (1..Gone) \ {held} /\ (held # 0 => held = Gone)
  BY OrderFacts
<1>2. CASE held = 0
  BY <1>1, <1>2 DEF Finished
<1>3. CASE held # 0
  <2>1. Finished = Gone - 1 /\ Gone # 0 /\ freed = (1..Gone) \ {Gone}
    BY <1>1, <1>3 DEF Finished
  <2> QED
    BY <1>1, <2>1
<1> QED
  BY <1>2, <1>3

LEMMA FinishedGrows == OwnInv /\ [Next]_vars => Finished' \in Nat /\ Finished <= Finished'
<1> SUFFICES ASSUME OwnInv, [Next]_vars PROVE Finished' \in Nat /\ Finished <= Finished'
  OBVIOUS
<1>1. OwnInv'
  BY StepPipe, StepOrder DEF OwnInv
<1>2. Finished' \in Nat /\ freed' = 1..Finished'
  <2>1. OwnInv' => (Finished \in Nat /\ freed = 1..Finished)'
    BY FinishedFacts, PTL
  <2> QED
    BY <1>1, <2>1
<1>3. Finished \in Nat /\ freed = 1..Finished
  BY FinishedFacts
<1>4. freed \subseteq freed'
  <2>1. CASE RawStep
    BY <2>1 DEF RawStep, RawLoop, RawCheck, RawSleep, RawStop, RawTake, RawOpen, RawWrite,
       RawFails, RawBroken, RawKilled, RawClose, Free
  <2>2. CASE CaptureStep
    BY <2>2 DEF CaptureStep, CaptureLoop, Push, Notify, writerVars
  <2> QED
    BY <2>1, <2>2, OthersKeepFrames DEF Next
<1>5. CASE Finished = 0
  BY <1>2, <1>5
<1>6. CASE Finished # 0
  BY <1>2, <1>3, <1>4, <1>6
<1> QED
  BY <1>5, <1>6

LEMMA FramedFacts ==
  ASSUME FramedInv
  PROVE  /\ reading \in Seq(UnitType) /\ pipe \in Seq(UnitType) /\ Stream \in Seq(UnitType)
         /\ Finished \in Nat /\ written \in 0..DataUnits /\ written # 1
         /\ FrameUnits = DataUnits + 1 /\ DataUnits \in Nat \ {0}
         /\ held \in 0..MaxFrames /\ MaxFrames \in Nat
<1>1. /\ reading \in Seq(UnitType) /\ pipe \in Seq(UnitType)
      /\ written \in 0..DataUnits /\ written # 1 /\ held \in 0..MaxFrames
  BY DEF FramedInv, OwnInv, PipeInv, PipeRest, DataTypes, WriterInv
<1>2. Finished \in Nat
  BY FinishedFacts DEF FramedInv
<1> QED
  BY <1>1, <1>2, ConcatProperties, PipeAssumption DEF Stream, FrameUnits

LEMMA UnitEqual ==
  ASSUME NEW u \in UnitType
  PROVE  /\ u = Unit(u.frame, u.part) /\ u.frame \in 1..MaxFrames /\ u.part \in 0..DataUnits
BY DEF UnitType, Unit

(* A step that leaves the stream and the writer's position in it alone.                *)
LEMMA StreamKept ==
  ASSUME FramedInv, Stream' = Stream, last' = last, written' = written,
         written # 0 => held' = held, fresh' => fresh, Reads' => Reads,
         Finished' \in Nat, Finished <= Finished'
  PROVE  StreamInv'
<1> SUFFICES ASSUME fresh, Reads PROVE StreamFrom(Stream, last)'
  BY DEF StreamInv
<1>1. StreamFrom(Stream, last)
  BY DEF FramedInv, StreamInv
<1>2. last \in Nat /\ (Stream # << >> => Stream[Len(Stream)].frame \in Nat)
  <2>1. last \in Nat
    BY PipeAssumption DEF FramedInv, OwnInv, PipeInv, PipeRest, DataTypes
  <2>2. ASSUME Stream # << >> PROVE Stream[Len(Stream)].frame \in Nat
    <3>1. Stream \in Seq(UnitType) /\ Len(Stream) \in 1..Len(Stream)
      BY <2>2, FramedFacts, EmptyLen
    <3>2. Stream[Len(Stream)] \in UnitType
      BY <3>1, ElementOfSeq
    <3> QED
      BY <3>2, UnitEqual
  <2> QED
    BY <2>1, <2>2
<1>3. Finished \in Nat
  BY FramedFacts
<1>4. Ordered(Stream)'
  BY <1>1 DEF StreamFrom, Ordered, Follows, Unit
<1> QED
  BY <1>1, <1>2, <1>3, <1>4 DEF StreamFrom, Unit

(* Reading moves a unit from the FIFO into the client's hand.                          *)
LEMMA ReadKeepsStream == FramedInv /\ Read => Stream' = Stream
<1> SUFFICES ASSUME FramedInv, Read PROVE Stream' = Stream
  OBVIOUS
<1>1. /\ reading \in Seq(UnitType) /\ pipe \in Seq(UnitType) /\ pipe # << >>
      /\ reading' = Append(reading, Head(pipe)) /\ pipe' = Tail(pipe)
  BY FramedFacts DEF Read
<1> QED
  BY <1>1, MoveHead DEF Stream

(* The last unit in hand, when the client has read all the FIFO holds.                 *)
LEMMA LastInHand ==
  ASSUME FramedInv, fresh, Reads, reading # << >>
  PROVE  LET n == Len(reading)
         IN  /\ n \in 1..FrameUnits /\ reading[n] = Unit(reading[1].frame, n - 1)
             /\ reading[1].frame \in Nat
             /\ reading[n].part = n - 1 /\ reading[n].frame = reading[1].frame
             /\ Ordered(pipe)
             /\ pipe # << >> => /\ Follows(reading[n], pipe[1])
                                /\ Stream[Len(Stream)] = pipe[Len(pipe)]
             /\ pipe = << >> => Stream[Len(Stream)] = reading[n]
             /\ Stream # << >> /\ StreamFrom(Stream, last)
<1>1. StreamFrom(Stream, last) /\ Ordered(reading \o pipe)
  BY DEF FramedInv, StreamInv, StreamFrom, Stream
<1>2. PICK n : n = Len(reading)
  OBVIOUS
<1>3. reading \in Seq(UnitType) /\ pipe \in Seq(UnitType) /\ n \in Nat \ {0}
  BY <1>2, FramedFacts, EmptyLen
<1>4. /\ n \in 1..FrameUnits /\ reading[n] = Unit(reading[1].frame, n - 1)
      /\ reading[1] \in UnitType
  <2>1. \A i \in 1..n : reading[i] = Unit(reading[1].frame, i - 1)
    BY <1>2 DEF FramedInv, ReadInv
  <2>2. n <= FrameUnits
    BY <1>2 DEF FramedInv, ReadInv
  <2>3. FrameUnits \in Nat
    BY FramedFacts
  <2> QED
    BY <1>2, <1>3, <2>1, <2>2, <2>3, ElementOfSeq
<1>5. reading[n].part = n - 1 /\ reading[n].frame = reading[1].frame
  BY <1>4 DEF Unit
<1>6. reading[1].frame \in Nat
  BY <1>4, UnitEqual
<1> QED
  BY <1>1, <1>2, <1>3, <1>4, <1>5, <1>6, OrderedRest, Zenon DEF Stream

(* The client takes a frame for complete only when it has all of it; that it has read  *)
(* everything the writer has written so far does not mislead it.                       *)
LEMMA FrameReadComplete ==
  ASSUME FramedInv, fresh, Reads, FrameRead, pipe' = pipe,
         \/ kpc = "select" /\ ((pipe = << >> /\ writerOpen) \/ reading[1].part # 0)
         \/ kpc = "data" /\ (Len(reading) = FrameUnits \/ AtEnd)
  PROVE  Len(reading) = FrameUnits /\ reading # << >>
<1>1. reading # << >>
  BY FirstRead DEF FramedInv, OwnInv
<1>2. PICK n : n = Len(reading)
  OBVIOUS
<1>3. /\ n \in 1..FrameUnits /\ reading[n] = Unit(reading[1].frame, n - 1)
      /\ reading[n].part = n - 1
      /\ pipe = << >> => Stream[Len(Stream)] = reading[n]
      /\ Stream # << >> /\ StreamFrom(Stream, last)
  BY <1>1, <1>2, LastInHand
<1>4. ASSUME pipe = << >> PROVE n = written \/ (n = FrameUnits /\ written = 0)
  <2>1. CASE written = 0
    <3>1. reading[n].part = DataUnits
      BY <1>3, <1>4, <2>1 DEF StreamFrom
    <3> QED
      BY <1>3, <2>1, <3>1, FramedFacts
  <2>2. CASE written # 0
    <3>1. reading[n] = Unit(held, written - 1)
      BY <1>3, <1>4, <2>2 DEF StreamFrom
    <3>2. n - 1 = written - 1
      BY <1>3, <3>1 DEF Unit
    <3>3. n \in Int /\ written \in Int
      BY <1>3, FramedFacts
    <3> QED
      BY <3>2, <3>3
  <2> QED
    BY <2>1, <2>2
<1>5. CASE kpc = "select"
  <2>1. n = 1 /\ reading[1].part = 0
    BY <1>2, <1>3, <1>5 DEF FramedInv, OwnInv, PipeInv, PipeRest, ClientInv
  <2>2. pipe = << >>
    BY <1>5, <2>1
  <2> QED
    BY <1>1, <1>2, <1>4, <2>1, <2>2, FramedFacts
<1>6. CASE kpc = "data"
  <2>1. CASE AtEnd
    <3>1. pipe = << >> /\ rpc = "off" /\ written = 0
      BY <2>1 DEF AtEnd, FramedInv, FifoInv, OwnInv, PipeInv, PipeRest, WriterInv
    <3> QED
      BY <1>1, <1>2, <1>3, <1>4, <3>1
  <2> QED
    BY <1>1, <1>6, <2>1
<1> QED
  BY <1>5, <1>6

LEMMA FrameReadStream ==
  ASSUME FramedInv, fresh, Reads, FrameRead,
         UNCHANGED <<pipe, written, held, freed, queue, cpc, made>>,
         Len(reading) = FrameUnits, reading # << >>
  PROVE  StreamInv'
<1>1. PICK f : f = reading[1].frame
  OBVIOUS
<1>2. PICK n : n = Len(reading)
  OBVIOUS
<1>3. /\ n = FrameUnits /\ f \in Nat
      /\ reading[n].part = DataUnits /\ reading[n].frame = f
      /\ Ordered(pipe)
      /\ pipe # << >> => /\ Follows(reading[n], pipe[1])
                         /\ Stream[Len(Stream)] = pipe[Len(pipe)]
      /\ pipe = << >> => Stream[Len(Stream)] = reading[n]
      /\ Stream # << >> /\ StreamFrom(Stream, last)
  <2>1. FrameUnits - 1 = DataUnits
    BY FramedFacts
  <2>2. /\ f \in Nat
        /\ reading[n].part = n - 1 /\ reading[n].frame = f
        /\ Ordered(pipe)
        /\ pipe # << >> => /\ Follows(reading[n], pipe[1])
                           /\ Stream[Len(Stream)] = pipe[Len(pipe)]
        /\ pipe = << >> => Stream[Len(Stream)] = reading[n]
        /\ Stream # << >> /\ StreamFrom(Stream, last)
    BY <1>1, <1>2, LastInHand, Zenon
  <2> QED
    BY <1>2, <2>1, <2>2, Zenon
<1>4. last' = f /\ Stream' = pipe /\ UNCHANGED <<pipe, written, held, Finished>>
  <2>1. << >> \o pipe = pipe
    BY FramedFacts, ConcatEmptySeq
  <2>2. Finished' = Finished
    BY DEF Finished, Gone, Pushed
  <2> QED
    BY <1>1, <2>1, <2>2 DEF FrameRead, Stream
<1>5. CASE pipe = << >>
  <2>1. written = 0
    <3>1. ASSUME written # 0 PROVE FALSE
      <4>1. reading[n] = Unit(held, written - 1)
        BY <1>3, <1>5, <3>1 DEF StreamFrom
      <4>2. written - 1 = DataUnits
        BY <1>3, <4>1 DEF Unit
      <4> QED
        BY <4>2, FramedFacts
    <3> QED
      BY <3>1
  <2>2. f <= Finished
    BY <1>3, <1>5, <2>1 DEF StreamFrom
  <2>3. Stream' = << >> /\ written' = 0 /\ last' <= Finished'
    BY <1>4, <1>5, <2>1, <2>2
  <2>4. Ordered(<< >>)
    BY EmptyRun DEF Ordered
  <2> QED
    BY <2>3, <2>4 DEF StreamInv, StreamFrom, Ordered
<1>6. CASE pipe # << >>
  <2>1. pipe[1].part = 0 /\ f < pipe[1].frame
    <3>1. ~(reading[n].part < DataUnits)
      BY <1>3, FramedFacts
    <3> QED
      BY <1>3, <1>6, <3>1 DEF Follows
  <2>2. /\ written = 0 => pipe[Len(pipe)].part = DataUnits /\ pipe[Len(pipe)].frame <= Finished
        /\ written # 0 => pipe[Len(pipe)] = Unit(held, written - 1)
    BY <1>3, <1>6 DEF StreamFrom
  <2>3. StreamFrom(pipe, f)
    BY <1>3, <1>6, <2>1, <2>2 DEF StreamFrom
  <2> QED
    BY <1>4, <2>3 DEF StreamInv, StreamFrom, Ordered, Follows, Unit
<1> QED
  BY <1>5, <1>6

(* Writing lengthens the stream by the units of one write call, which follow the last   *)
(* ones written.                                                                        *)
LEMMA WriteLengthens ==
  ASSUME FramedInv, RawWrite, fresh, Reads
  PROVE  /\ Stream' \in Seq(UnitType) /\ Stream' # << >>
         /\ Ordered(Stream')
         /\ Stream'[1].part = 0 /\ last < Stream'[1].frame
         /\ Stream'[Len(Stream')] = Unit(held, written + Len(WriteStep) - 1)
<1>1. /\ pipe' = pipe \o WriteStep /\ reading' = reading /\ rpc = "write"
  BY DEF RawWrite, clientVars
<1>2. /\ written = 0 => WriteStep = <<Unit(held, 0), Unit(held, 1)>> /\ Len(WriteStep) = 2
      /\ written # 0 => WriteStep = <<Unit(held, written)>> /\ Len(WriteStep) = 1
      /\ held \in 1..MaxFrames
  BY <1>1, WriteStepProperties DEF FramedInv, OwnInv
<1>3. /\ reading \in Seq(UnitType) /\ pipe \in Seq(UnitType) /\ Stream \in Seq(UnitType)
      /\ Finished \in Nat /\ written \in 0..DataUnits /\ DataUnits \in Nat \ {0}
  BY FramedFacts
<1>4. Finished = held - 1
  BY <1>2, OrderFacts DEF FramedInv, OwnInv, Finished
<1>5. StreamFrom(Stream, last)
  BY DEF FramedInv, StreamInv
<1>6. Stream' = reading \o (pipe \o WriteStep)
  BY <1>1 DEF Stream
<1>7. /\ last \in Nat
      /\ Stream # << >> => Stream[Len(Stream)] \in UnitType
  <2>1. last \in Nat
    BY PipeAssumption DEF FramedInv, OwnInv, PipeInv, PipeRest, DataTypes
  <2>2. ASSUME Stream # << >> PROVE Stream[Len(Stream)] \in UnitType
    <3>1. Len(Stream) \in 1..Len(Stream)
      BY <1>3, <2>2, EmptyLen
    <3> QED
      BY <1>3, <3>1, ElementOfSeq
  <2> QED
    BY <2>1, <2>2
<1>8. CASE written = 0
  <2>1. PICK u : u = Unit(held, 0)
    OBVIOUS
  <2>2. PICK v : v = Unit(held, 1)
    OBVIOUS
  <2>3. /\ u \in UnitType /\ u.frame = held /\ u.part = 0
        /\ v \in UnitType /\ Follows(u, v)
    BY <1>2, <1>3, <2>1, <2>2, UnitTyped DEF Follows, Unit
  <2>4. Stream' = Append(Append(Stream, u), v)
    <3>1. pipe \o <<u, v>> = Append(Append(pipe, u), v) /\ Append(pipe, u) \in Seq(UnitType)
      BY <1>3, <2>3, AppendTwo, AppendProperties
    <3>2. reading \o Append(Append(pipe, u), v) = Append(reading \o Append(pipe, u), v)
      BY <1>3, <2>3, <3>1, AppendRight, SMTT(40)
    <3>3. reading \o Append(pipe, u) = Append(reading \o pipe, u)
      BY <1>3, <2>3, AppendRight
    <3> QED
      BY <1>2, <1>6, <1>8, <2>1, <2>2, <3>1, <3>2, <3>3, Zenon DEF Stream
  <2>5. Stream # << >> => Follows(Stream[Len(Stream)], u)
    <3>1. ASSUME Stream # << >> PROVE Follows(Stream[Len(Stream)], u)
      <4>1. /\ Stream[Len(Stream)].part = DataUnits /\ Stream[Len(Stream)].frame <= Finished
            /\ Stream[Len(Stream)].frame \in Nat
        BY <1>5, <1>7, <1>8, <3>1, UnitEqual DEF StreamFrom
      <4>2. Stream[Len(Stream)].frame < held
        BY <1>2, <1>4, <4>1
      <4> QED
        BY <2>3, <4>1, <4>2 DEF Follows
    <3> QED
      BY <3>1
  <2>6. PICK t : t = Append(Stream, u)
    OBVIOUS
  <2>7. /\ t \in Seq(UnitType) /\ t # << >> /\ Ordered(t) /\ t[Len(t)] = u
        /\ t[1] = IF Stream = << >> THEN u ELSE Stream[1]
    BY <1>3, <1>5, <2>3, <2>5, <2>6, OrderedAppend DEF StreamFrom
  <2>8. /\ Append(t, v) \in Seq(UnitType) /\ Append(t, v) # << >> /\ Ordered(Append(t, v))
        /\ Append(t, v)[Len(Append(t, v))] = v /\ Append(t, v)[1] = t[1]
    BY <2>3, <2>7, OrderedAppend
  <2>9. t[1].part = 0 /\ last < t[1].frame
    <3>1. CASE Stream = << >>
      BY <1>2, <1>4, <1>5, <1>7, <2>3, <2>7, <3>1 DEF StreamFrom
    <3>2. CASE Stream # << >>
      BY <1>5, <2>7, <3>2 DEF StreamFrom
    <3> QED
      BY <3>1, <3>2
  <2>10. written + Len(WriteStep) - 1 = 1
    BY <1>2, <1>8
  <2> QED
    BY <2>2, <2>4, <2>6, <2>8, <2>9, <2>10, Zenon
<1>9. CASE written # 0
  <2>1. PICK u : u = Unit(held, written)
    OBVIOUS
  <2>2. u \in UnitType
    BY <1>2, <1>3, <2>1, UnitTyped
  <2>3. Stream' = Append(Stream, u)
    <3>1. pipe \o <<u>> = Append(pipe, u)
      BY <1>3, <2>2, AppendIsConcat
    <3>2. reading \o Append(pipe, u) = Append(reading \o pipe, u)
      BY <1>3, <2>2, AppendRight
    <3> QED
      BY <1>2, <1>6, <1>9, <2>1, <3>1, <3>2, Zenon DEF Stream
  <2>4. Stream # << >> /\ Stream[Len(Stream)] = Unit(held, written - 1)
    BY <1>5, <1>9 DEF StreamFrom
  <2>5. Follows(Stream[Len(Stream)], u)
    <3>1. /\ Unit(held, written - 1).frame = held
          /\ Unit(held, written - 1).part = written - 1
          /\ (written - 1) + 1 = written /\ written - 1 < DataUnits
      BY <1>3, <1>9 DEF Unit
    <3> QED
      BY <2>1, <2>4, <3>1 DEF Follows
  <2>6. /\ Append(Stream, u) \in Seq(UnitType) /\ Append(Stream, u) # << >>
        /\ Ordered(Append(Stream, u))
        /\ Append(Stream, u)[Len(Append(Stream, u))] = u
        /\ Append(Stream, u)[1] = Stream[1]
    BY <1>3, <1>5, <2>2, <2>4, <2>5, OrderedAppend DEF StreamFrom
  <2>7. Stream[1].part = 0 /\ last < Stream[1].frame
    BY <1>5, <2>4 DEF StreamFrom
  <2>8. written + Len(WriteStep) - 1 = written
    <3>1. Len(WriteStep) = 1 /\ written \in Nat
      BY <1>2, <1>3, <1>9
    <3> QED
      BY <3>1
  <2> QED
    BY <2>1, <2>3, <2>6, <2>7, <2>8, Zenon
<1> QED
  BY <1>8, <1>9

LEMMA WriteStream == FramedInv /\ RawWrite => StreamInv'
<1> SUFFICES ASSUME FramedInv, RawWrite, fresh, Reads PROVE StreamFrom(Stream, last)'
  BY DEF RawWrite, clientVars, StreamInv, Reads
<1>1. /\ Stream' # << >> /\ Ordered(Stream')
      /\ Stream'[1].part = 0 /\ last < Stream'[1].frame
      /\ Stream'[Len(Stream')] = Unit(held, written + Len(WriteStep) - 1)
  BY WriteLengthens
<1>2. last' = last /\ rpc = "write" /\ queue' = queue /\ cpc' = cpc /\ made' = made
  BY DEF RawWrite, clientVars, captureVars
<1>3. /\ held \in 1..MaxFrames /\ held = Gone /\ Gone \in Nat
      /\ Len(WriteStep) \in {1, 2} /\ written \in Nat /\ FrameUnits = DataUnits + 1
      /\ DataUnits \in Nat
  <2>1. /\ held \in 1..MaxFrames /\ Len(WriteStep) \in {1, 2}
    BY <1>2, WriteStepProperties DEF FramedInv, OwnInv
  <2>2. written \in Nat /\ FrameUnits = DataUnits + 1 /\ DataUnits \in Nat
    BY FramedFacts
  <2> QED
    BY <2>1, <2>2, OrderFacts DEF FramedInv
<1>4. Ordered(Stream)'
  BY <1>1 DEF Ordered, Follows, Unit
<1>5. CASE written + Len(WriteStep) = FrameUnits
  <2>1. written' = 0 /\ held' = 0
    BY <1>5 DEF RawWrite, Free
  <2>2. Finished' = held
    BY <1>2, <1>3, <2>1 DEF Finished, Gone, Pushed
  <2>3. /\ Stream'[Len(Stream')].part = DataUnits
        /\ Stream'[Len(Stream')].frame = held
    <3>1. written + Len(WriteStep) - 1 = DataUnits
      BY <1>3, <1>5
    <3> QED
      BY <1>1, <3>1 DEF Unit
  <2> QED
    BY <1>1, <1>2, <1>3, <1>4, <2>1, <2>2, <2>3 DEF StreamFrom
<1>6. CASE written + Len(WriteStep) # FrameUnits
  <2>1. written' = written + Len(WriteStep) /\ held' = held
    BY <1>6 DEF RawWrite
  <2>2. written' # 0
    BY <1>3, <2>1
  <2>3. Stream'[Len(Stream')] = Unit(held', written' - 1)
    <3>1. written + Len(WriteStep) - 1 = written' - 1
      BY <1>3, <2>1
    <3> QED
      BY <1>1, <2>1, <3>1, Zenon
  <2> QED
    BY <1>1, <1>2, <1>4, <2>2, <2>3 DEF StreamFrom, Unit
<1> QED
  BY <1>5, <1>6

-----------------------------------------------------------------------------
LEMMA StreamStep == FramedInv /\ [Next]_vars => StreamInv'
<1> SUFFICES ASSUME FramedInv, [Next]_vars PROVE StreamInv'
  OBVIOUS
<1>0. Finished' \in Nat /\ Finished <= Finished'
  BY FinishedGrows DEF FramedInv
<1>1. CASE \/ MainStep \/ ExitRequested \/ SpuriousWakeup \/ CaptureStep \/ UNCHANGED vars
           \/ RawLoop \/ RawCheck \/ RawSleep \/ RawStop
  <2>1. UNCHANGED <<kpc, pipe, last, fresh, reading, written, held>>
    BY <1>1 DEF MainStep, NotifyExit, JoinThreads, ExitRequested, SpuriousWakeup, CaptureStep,
       CaptureLoop, Push, Notify, vars, writerVars, clientVars, RawLoop, RawCheck, RawSleep,
       RawStop
  <2> QED
    BY <1>0, <2>1, StreamKept DEF Stream, Reads
<1>2. CASE RawTake
  <2>1. /\ UNCHANGED <<kpc, pipe, last, fresh, reading, written>> /\ written = 0
    BY <1>2 DEF RawTake, clientVars, FramedInv, OwnInv, PipeInv, PipeRest, WriterInv
  <2> QED
    BY <1>0, <2>1, StreamKept DEF Stream, Reads
<1>3. CASE RawOpen
  <2>1. /\ UNCHANGED <<pipe, last, fresh, reading>> /\ written = 0 /\ written' = 0
        /\ kpc' = kpc \/ (kpc = "opening" /\ rpc' = "write")
    <3>1. written = 0
      BY <1>3 DEF RawOpen, FramedInv, OwnInv, PipeInv, PipeRest, WriterInv
    <3>2. \/ /\ kpc' = IF kpc = "opening" THEN "header" ELSE kpc
             /\ rpc' = "write" /\ written' = written
          \/ written' = 0 /\ kpc' = kpc
      BY <1>3 DEF RawOpen, Free, GotoWriter
    <3>3. UNCHANGED <<pipe, last, fresh, reading>>
      BY <1>3 DEF RawOpen
    <3> QED
      BY <3>1, <3>2, <3>3
  <2>2. CASE kpc' = kpc
    BY <1>0, <2>1, <2>2, StreamKept DEF Stream, Reads
  <2>3. CASE kpc = "opening"
    <3>1. reading = << >> /\ pipe = << >> /\ last = 0
      BY <2>3 DEF FramedInv, FifoInv, OwnInv, PipeInv, PipeRest, ClientInv
    <3>2. Stream' = << >> /\ last' = 0
      BY <2>1, <3>1, EmptySeq, ConcatEmptySeq DEF Stream
    <3> QED
      BY <1>0, <2>1, <3>2, EmptyRun DEF StreamInv, StreamFrom, Ordered
  <2> QED
    BY <2>1, <2>2, <2>3
<1>4. CASE RawWrite
  BY <1>4, WriteStream
<1>5. CASE RawBroken \/ RawKilled
  BY <1>5 DEF RawBroken, RawKilled, clientVars, StreamInv, Reads, ReaderPresent
<1>11. CASE RawFails
  <2>1. /\ UNCHANGED <<kpc, pipe, last, reading>> /\ written' = 0
        /\ fresh' = (fresh /\ written = 0)
    BY <1>11 DEF RawFails, Free
  <2>2. CASE written = 0
    BY <1>0, <2>1, <2>2, StreamKept DEF Stream, Reads
  <2>3. CASE written # 0
    BY <2>1, <2>3 DEF StreamInv
  <2> QED
    BY <2>2, <2>3
<1>6. CASE RawClose
  <2>1. UNCHANGED <<kpc, last, fresh, reading, written, held>> /\ (Reads => pipe' = pipe)
    BY <1>6 DEF RawClose, clientVars, Discarded, ReaderPresent, Reads
  <2>2. CASE Reads
    BY <1>0, <2>1, <2>2, StreamKept DEF Stream, Reads
  <2>3. CASE ~Reads
    BY <2>1, <2>3 DEF StreamInv, Reads
  <2> QED
    BY <2>2, <2>3
<1>7. CASE ReadHeader \/ (ReadData /\ Read)
  <2>1. Read /\ Reads /\ UNCHANGED <<last, fresh, written, held>>
    BY <1>7, ReadShortens DEF ReadHeader, ReadData, Reads, FrameRead, writerVars, FramedInv,
       OwnInv
  <2> QED
    BY <1>0, <2>1, ReadKeepsStream, StreamKept
<1>8. CASE Select \/ (ReadData /\ ~Read)
  <2>1. /\ Reads /\ UNCHANGED <<pipe, fresh, written, held, freed, queue, cpc, made>>
        /\ \/ UNCHANGED <<reading, last>>
           \/ /\ FrameRead
              /\ \/ kpc = "select" /\ ((pipe = << >> /\ writerOpen) \/ reading[1].part # 0)
                 \/ kpc = "data" /\ (Len(reading) = FrameUnits \/ AtEnd)
    BY <1>8 DEF Select, ReadData, Reads, captureVars, writerVars
  <2>2. CASE UNCHANGED <<reading, last>>
    BY <1>0, <2>1, <2>2, StreamKept DEF Stream
  <2>3. CASE FrameRead /\ fresh /\ ~UNCHANGED <<reading, last>>
    BY <2>1, <2>3, FrameReadComplete, FrameReadStream
  <2>4. CASE ~fresh
    BY <2>1, <2>4 DEF StreamInv
  <2> QED
    BY <2>1, <2>2, <2>3, <2>4
<1>9. CASE ReadEnds \/ ClientLeaves
  BY <1>9 DEF ReadEnds, ClientLeaves, GotoClient, StreamInv, Reads
<1>10. CASE ClientOpens
  <2>1. fresh' = ~writerOpen /\ (kpc' = "header" => writerOpen) /\ kpc' \in {"header", "opening"}
    BY <1>10 DEF ClientOpens, GotoClient
  <2> QED
    BY <2>1 DEF StreamInv, Reads
<1> QED
  BY <1>1, <1>2, <1>3, <1>4, <1>5, <1>6, <1>7, <1>8, <1>9, <1>10, <1>11
     DEF Next, RawStep, ClientStep

(* The unit read next continues the frame in hand.                                      *)
LEMMA ReadContinues ==
  ASSUME FramedInv, fresh, Reads, Read,
         kpc = "header" \/ (kpc = "data" /\ Len(reading) < FrameUnits), last' = last, fresh' = fresh
  PROVE  ReadInv'
<1>1. PICK u : u = Head(pipe)
  OBVIOUS
<1>2. PICK n : n = Len(reading)
  OBVIOUS
<1>3. /\ pipe # << >> /\ u \in UnitType /\ u = pipe[1] /\ reading' = Append(reading, u)
      /\ reading \in Seq(UnitType) /\ n \in Nat /\ (reading = << >> <=> n = 0)
  <2>1. reading \in Seq(UnitType) /\ pipe \in Seq(UnitType) /\ pipe # << >>
    BY FramedFacts DEF Read
  <2>2. Head(pipe) \in UnitType /\ Head(pipe) = pipe[1]
    BY <2>1, HeadTailProperties
  <2>3. n \in Nat /\ (reading = << >> <=> n = 0)
    BY <1>2, <2>1, EmptyLen
  <2> QED
    BY <1>1, <2>1, <2>2, <2>3 DEF Read
<1>4. /\ Len(reading') = n + 1
      /\ \A i \in 1..n : reading'[i] = reading[i]
      /\ reading'[n + 1] = u
  BY <1>2, <1>3, AppendProperties
<1>5. CASE kpc = "header"
  <2>1. n = 0
    BY <1>3, <1>5 DEF FramedInv, OwnInv, PipeInv, PipeRest, ClientInv
  <2>2. Stream = pipe
    <3>1. reading = << >> /\ << >> \o pipe = pipe
      BY <1>3, <2>1, FramedFacts, ConcatEmptySeq
    <3> QED
      BY <3>1 DEF Stream
  <2>3. u.part = 0 /\ last < u.frame
    BY <1>3, <2>2 DEF FramedInv, StreamInv, StreamFrom
  <2>4. u = Unit(u.frame, 0)
    BY <1>3, <2>3, UnitEqual
  <2>5. /\ Len(reading') = 1 /\ reading'[1] = u
        /\ \A i \in 1..1 : reading'[i] = Unit(reading'[1].frame, i - 1)
    BY <1>4, <2>1, <2>4
  <2>6. 1 <= FrameUnits
    BY FramedFacts
  <2> QED
    BY <2>3, <2>5, <2>6 DEF ReadInv, FrameUnits
<1>6. CASE kpc = "data"
  <2>1. reading # << >>
    BY <1>6 DEF FramedInv, OwnInv, PipeInv, PipeRest, ClientInv
  <2>2. PICK f : f = reading[1].frame
    OBVIOUS
  <2>3. /\ reading[n].part = n - 1 /\ reading[n].frame = f /\ Follows(reading[n], u)
    BY <1>2, <1>3, <2>1, <2>2, LastInHand
  <2>4. n < FrameUnits /\ FrameUnits = DataUnits + 1 /\ DataUnits \in Nat
    BY <1>2, <1>6, FramedFacts
  <2>5. u = Unit(f, n)
    <3>1. reading[n].part # DataUnits /\ (n - 1) + 1 = n
      BY <1>3, <2>3, <2>4
    <3> QED
      BY <2>3, <3>1 DEF Follows
  <2>6. n # 0 /\ reading'[1] = reading[1]
    BY <1>3, <1>4, <2>1
  <2>7. \A i \in 1..n : reading[i] = Unit(f, i - 1)
    BY <1>2, <2>2 DEF FramedInv, ReadInv
  <2>8. ASSUME NEW i \in 1..(n + 1) PROVE reading'[i] = Unit(f, i - 1)
    <3>1. CASE i = n + 1
      <4>1. i - 1 = n
        BY <1>3, <3>1
      <4> QED
        BY <1>4, <2>5, <3>1, <4>1, Zenon
    <3>2. CASE i # n + 1
      <4>1. i \in 1..n
        BY <1>3, <3>2
      <4> QED
        BY <1>4, <2>7, <4>1
    <3> QED
      BY <3>1, <3>2
  <2>9. last < f
    BY <2>1, <2>2 DEF FramedInv, ReadInv
  <2>10. n + 1 <= FrameUnits
    BY <1>3, <2>4
  <2> QED
    BY <1>4, <2>2, <2>6, <2>8, <2>9, <2>10 DEF ReadInv, Unit, FrameUnits
<1> QED
  BY <1>5, <1>6

LEMMA ReadStep == FramedInv /\ [Next]_vars => ReadInv'
<1> SUFFICES ASSUME FramedInv, [Next]_vars PROVE ReadInv'
  OBVIOUS
<1>1. CASE ReadHeader \/ (ReadData /\ Read)
  <2>1. /\ Reads /\ Read /\ last' = last /\ fresh' = fresh
        /\ kpc = "header" \/ (kpc = "data" /\ Len(reading) < FrameUnits)
        \/ (kpc = "data" /\ FrameRead /\ fresh' = fresh)
    BY <1>1 DEF ReadHeader, ReadData, Reads
  <2>2. CASE FrameRead
    BY <2>2, FramedFacts, EmptyRun DEF FrameRead, ReadInv, FrameUnits
  <2>3. CASE ~fresh'
    BY <2>3 DEF ReadInv
  <2> QED
    BY <2>1, <2>2, <2>3, ReadContinues
<1>2. CASE ClientOpens
  <2>1. reading' = << >>
    BY <1>2 DEF ClientOpens
  <2> QED
    BY <2>1, FramedFacts, EmptyRun DEF ReadInv, FrameUnits
<1>3. CASE ~ReadHeader /\ ~(ReadData /\ Read) /\ ~ClientOpens
  <2>1. ((fresh' => fresh) /\ UNCHANGED <<reading, last>>) \/ reading' = << >>
    BY <1>3 DEF Next, MainStep, NotifyExit, JoinThreads, ExitRequested, SpuriousWakeup,
       CaptureStep, CaptureLoop, Push, Notify, vars, clientVars, RawStep, RawLoop, RawCheck,
       RawSleep, RawStop, RawTake, RawOpen, RawWrite, RawFails, RawBroken, RawKilled,
       RawClose, ClientStep, ReadEnds, Select, ReadData, FrameRead, ClientLeaves
  <2>2. CASE reading' = << >>
    BY <2>2, FramedFacts, EmptyRun DEF ReadInv, FrameUnits
  <2>3. CASE (fresh' => fresh) /\ UNCHANGED <<reading, last>>
    BY <2>3 DEF FramedInv, ReadInv, Unit, FrameUnits
  <2> QED
    BY <2>1, <2>2, <2>3
<1> QED
  BY <1>1, <1>2, <1>3

(* A client for whom the writer opened the FIFO finds the frames it reads complete, in   *)
(* order and with their own data, although earlier clients left in the middle of theirs; *)
(* and shutdown does not cut one off.  That holds until a write error other than EPIPE,   *)
(* after which the writer goes on behind the part of the frame it has written.            *)
THEOREM ReadsWholeFrames == Spec => []ClientFramed
<1>1. Init => FramedInv
  <2> SUFFICES ASSUME Init PROVE FifoInv /\ StreamInv /\ ReadInv
    BY OwnInit DEF FramedInv
  <2> QED
    BY DEF Init, FifoInv, StreamInv, ReadInv, Reads
<1>2. FramedInv /\ [Next]_vars => FramedInv'
  BY StepPipe, StepOrder, FifoStep, StreamStep, ReadStep DEF FramedInv, OwnInv
<1>3. ASSUME FramedInv PROVE ClientFramed
  <2>1. ASSUME fresh, reading # << >>, kpc = "data", Len(reading) < FrameUnits, AtEnd
        PROVE  FALSE
    <3>1. pipe = << >> /\ written = 0 /\ Reads
      BY <1>3, <2>1 DEF AtEnd, Reads, FramedInv, FifoInv, OwnInv, PipeInv, PipeRest, WriterInv
    <3>2. PICK n : n = Len(reading)
      OBVIOUS
    <3>3. n \in 1..FrameUnits /\ reading[n].part = n - 1 /\ reading[n].part = DataUnits
      <4>1. /\ n \in 1..FrameUnits /\ reading[n].part = n - 1
            /\ Stream[Len(Stream)] = reading[n] /\ Stream # << >> /\ StreamFrom(Stream, last)
        BY <1>3, <2>1, <3>1, <3>2, LastInHand
      <4> QED
        BY <3>1, <4>1 DEF StreamFrom
    <3> QED
      BY <1>3, <2>1, <3>2, <3>3, FramedFacts
  <2> QED
    BY <1>3, <2>1 DEF ClientFramed, FramedInv, ReadInv
<1> QED
  BY <1>1, <1>2, <1>3, PTL DEF Spec
=============================================================================
