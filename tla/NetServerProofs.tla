-------------------------- MODULE NetServerProofs --------------------------
(* Proofs about NetServer, for any number of connections, frames and            *)
(* descriptors.                                                                 *)
EXTENDS NetServer, QueueLemmas

ConsumerLabels == {"none", "loop", "lock", "wait", "asleep", "test", "send", "close", "off"}

(* No two consumers are between their test of the predicate and the end of the   *)
(* section it opens: g_h264QueueMutex excludes them.                             *)
Exclusive == \A k, l \in Consumers : pc[k] \in {"wait", "test"} /\ pc[l] \in {"wait", "test"}
                                     => k = l

(* A consumer that may pop holds the mutex since it found the predicate true, so  *)
(* that nobody has taken the frame it saw.                                        *)
Found == \A k \in Consumers : pc[k] = "test" => Predicate

(* The capture thread is within its bound when it pushes, and the server thread    *)
(* has accepted a connection when it fills the slot.                               *)
Bounds == /\ cpc = "push" => made < MaxFrames
          /\ npc \in {"fill", "start", "register"} => accepts # 0

NetInv == TypeOK /\ Exclusive /\ Found /\ Bounds /\ FramesTakenInOrder

-----------------------------------------------------------------------------
(* The frames captured, in order, are a sequence; one more frame lengthens it.     *)
LEMMA Captured ==
  ASSUME NEW n \in Nat
  PROVE  /\ [i \in 1..n |-> i] \in Seq(Nat) /\ Len([i \in 1..n |-> i]) = n
         /\ Append([i \in 1..n |-> i], n + 1) = [i \in 1..(n + 1) |-> i]
<1> DEFINE s == [i \in 1..n |-> i]
           t == [i \in 1..(n + 1) |-> i]
<1>1. s \in Seq(Nat) /\ Len(s) = n /\ t \in Seq(Nat) /\ Len(t) = n + 1
  OBVIOUS
<1>2. Append(s, n + 1) \in Seq(Nat) /\ Len(Append(s, n + 1)) = n + 1
  BY <1>1, AppendProperties
<1>3. ASSUME NEW i \in 1..(n + 1) PROVE Append(s, n + 1)[i] = t[i]
  BY <1>1, AppendProperties
<1>4. Append(s, n + 1) = t
  BY <1>1, <1>2, <1>3, SeqEqual
<1> QED
  BY <1>1, <1>4

(* So a pop leaves the frames taken and queued, together, as they were.             *)
LEMMA PopMoves ==
  ASSUME TypeOK, queue # << >>
  PROVE  Append(taken, Head(queue)) \o Tail(queue) = taken \o queue
<1> HIDE DEF TypeOK
<1>1. taken \in Seq(0..MaxFrames) /\ queue \in Seq(1..MaxFrames)
  BY DEF TypeOK
<1>2. (1..MaxFrames) \subseteq 0..MaxFrames
  OBVIOUS
<1>3. queue \in Seq(0..MaxFrames)
  BY <1>1, <1>2, SeqMonotonic
<1> QED
  BY <1>1, <1>3, MoveHead, Zenon

-----------------------------------------------------------------------------
LEMMA InitNet == Init => NetInv
<1> SUFFICES ASSUME Init PROVE NetInv
  OBVIOUS
<1>1. << >> \in Seq(1..MaxFrames) /\ << >> \in Seq(0..MaxFrames)
  BY EmptySeq
<1>2. TypeOK
  BY <1>1, NetAssumption DEF Init, TypeOK, Consumers, Writer, NoSocket, NoConn
<1>3. Exclusive /\ Found /\ Bounds
  BY DEF Init, Exclusive, Found, Bounds, Consumers, Writer
<1>4. << >> \o << >> = [i \in 1..0 |-> i]
  <2>1. << >> \in Seq(Nat) /\ << >> \o << >> = << >>
    BY EmptySeq, ConcatEmptySeq
  <2> QED
    BY <2>1, Captured, EmptySeq
<1> QED
  BY <1>2, <1>3, <1>4 DEF Init, NetInv, FramesTakenInOrder

(* Main, the signal and the raw writer change no queue and no consumer's program     *)
(* point.                                                                           *)
LEMMA MainNet == ASSUME NetInv, Signal \/ Main \/ RawEnds PROVE NetInv'
<1> USE NetAssumption DEF NetInv, TypeOK, Exclusive, Found, Predicate, Bounds,
        FramesTakenInOrder, captureVars, queueVars, waitVars, serverVars
<1>1. CASE Signal
  BY <1>1 DEF Signal
<1>2. CASE NotifyExit
  <2>1. missed' \in BOOLEAN
    BY <1>2, Zenon DEF NotifyExit
  <2>2. /\ sleeping' = {} /\ mpc' = "capture"
        /\ UNCHANGED <<doExit, rpc, pc, captureVars, queueVars, serverVars>>
    BY <1>2 DEF NotifyExit
  <2> QED
    BY <2>1, <2>2
<1>3. CASE Join
  BY <1>3 DEF Join, Joins
<1>4. CASE JoinCapture
  BY <1>4 DEF JoinCapture, Joins
<1>5. CASE RawEnds
  BY <1>5 DEF RawEnds
<1> QED
  BY <1>1, <1>2, <1>3, <1>4, <1>5 DEF Main

LEMMA CaptureNet == ASSUME NetInv, Capture PROVE NetInv'
<1> USE NetAssumption DEF NetInv, TypeOK, Exclusive, Found, Predicate, Bounds,
        mainVars, queueVars, waitVars, serverVars
<1>1. CASE CaptureLoop
  BY <1>1 DEF CaptureLoop, FramesTakenInOrder
<1>2. CASE Push
  <2>1. /\ made' = made + 1 /\ made \in Nat /\ made + 1 \in 1..MaxFrames
        /\ queue' = Append(queue, made + 1) /\ cpc' = "notify"
        /\ UNCHANGED <<taken, mainVars, waitVars, missed, serverVars>>
    BY <1>2 DEF Push
  <2>2. queue' \in Seq(1..MaxFrames) /\ queue' # << >>
    BY <2>1, AppendProperties, SMTT(40)
  <2>3. taken \in Seq(Nat) /\ queue \in Seq(Nat)
    BY SeqMonotonic
  <2>4. taken \o Append(queue, made + 1) = Append(taken \o queue, made + 1)
    BY <2>1, <2>3, AppendRight, SMTT(40)
  <2>5. FramesTakenInOrder'
    <3>1. taken' \o queue' = Append([i \in 1..made |-> i], made + 1)
      BY <2>1, <2>4, Zenon DEF FramesTakenInOrder
    <3>2. Append([i \in 1..made |-> i], made + 1) = [i \in 1..(made + 1) |-> i]
      BY <2>1, Captured, Zenon
    <3> QED
      BY <2>1, <3>1, <3>2, Zenon DEF FramesTakenInOrder
  <2>6. TypeOK'
    BY <2>1, <2>2, SMTT(40)
  <2>7. Exclusive' /\ Found' /\ Bounds'
    BY <2>1, <2>2
  <2> HIDE DEF TypeOK, Exclusive, Found, Bounds
  <2> QED
    BY <2>5, <2>6, <2>7
<1>3. CASE Notify
  BY <1>3 DEF Notify, FramesTakenInOrder
<1> QED
  BY <1>1, <1>2, <1>3 DEF Capture

(* The steps of a consumer: only Check enters the section, and only Take pops.        *)
LEMMA ConsumerNet == ASSUME NetInv, NEW k \in Consumers, Consumer(k) PROVE NetInv'
<1> USE NetAssumption DEF NetInv, TypeOK, Exclusive, Found, Predicate, Bounds, Goto,
        mainVars, captureVars, queueVars, serverVars
<1>1. CASE Loop(k)
  BY <1>1 DEF Loop, Stopped, FramesTakenInOrder
<1>2. CASE Check(k)
  BY <1>2 DEF Check, Unlocked, FramesTakenInOrder
<1>3. CASE Sleep(k)
  BY <1>3 DEF Sleep, FramesTakenInOrder
<1>4. CASE Stop(k)
  BY <1>4 DEF Stop, Stopped, FramesTakenInOrder
<1>5. CASE Take(k)
  <2>1. pc[k] = "test" /\ ~doExit /\ queue # << >>
    BY <1>5 DEF Take
  <2>2. /\ taken' = Append(taken, Head(queue)) /\ queue' = Tail(queue)
        /\ pc' = [pc EXCEPT ![k] = IF k = Writer THEN "loop" ELSE "send"]
        /\ UNCHANGED <<sleeping, mainVars, captureVars, missed, serverVars>>
    BY <1>5, <2>1 DEF Take
  <2>3. /\ Head(queue) \in 1..MaxFrames /\ Head(queue) \in 0..MaxFrames
        /\ queue' \in Seq(1..MaxFrames)
    BY <2>1, <2>2, HeadTailProperties
  <2>4. taken' \in Seq(0..MaxFrames)
    BY <2>2, <2>3, AppendProperties
  <2>6. taken' \o queue' = taken \o queue
    BY <2>1, <2>2, PopMoves
  <2>7. \A l \in Consumers : pc'[l] \in {"wait", "test"} => pc[l] \in {"wait", "test"} /\ l # k
    BY <2>2
  <2>8. Exclusive' /\ Found'
    BY <2>1, <2>7
  <2>9. FramesTakenInOrder'
    BY <2>2, <2>6 DEF FramesTakenInOrder
  <2>10. pc' \in [Consumers -> ConsumerLabels]
    BY <2>2 DEF ConsumerLabels
  <2>11. TypeOK'
    BY <2>2, <2>3, <2>4, <2>10, SMTT(40) DEF ConsumerLabels
  <2>12. Bounds'
    BY <2>2
  <2> HIDE DEF TypeOK, Exclusive, Found, Bounds
  <2> QED
    BY <2>8, <2>9, <2>11, <2>12
<1>6. CASE Send(k)
  <2>1. slot' \in [socketFd : Fds \cup {NoSocket}, isConnected : BOOLEAN]
    <3>1. /\ \/ slot' = slot
             \/ slot' = [slot EXCEPT !.isConnected = FALSE]
          /\ slot \in [socketFd : Fds \cup {NoSocket}, isConnected : BOOLEAN]
      BY <1>6 DEF Send
    <3> QED
      BY ONLY <3>1, Zenon
  <2>2. pc' = [pc EXCEPT ![k] = "loop"] \/ pc' = [pc EXCEPT ![k] = "close"]
    BY <1>6 DEF Send
  <2>3. UNCHANGED <<sleeping, mainVars, captureVars, queueVars, missed, npc, fd, accepts,
                    file, registered, overlapped>>
    BY <1>6 DEF Send
  <2>4. /\ \A l \in Consumers : pc'[l] \in {"wait", "test"} => pc[l] = pc'[l]
        /\ pc' \in [Consumers -> ConsumerLabels]
    BY <2>2 DEF ConsumerLabels
  <2>5. TypeOK'
    BY <2>1, <2>3, <2>4 DEF ConsumerLabels
  <2> QED
    BY <2>3, <2>4, <2>5 DEF FramesTakenInOrder
<1>7. CASE Close(k)
  <2>1. file' \in [Fds -> 0..MaxConns]
    BY <1>7 DEF Close, NoConn
  <2> QED
    BY <1>7, <2>1 DEF Close, FramesTakenInOrder
<1> QED
  BY <1>1, <1>2, <1>3, <1>4, <1>5, <1>6, <1>7 DEF Consumer

LEMMA ServerNet == ASSUME NetInv, Server \/ Accept \/ AcceptFails PROVE NetInv'
<1> USE NetAssumption DEF NetInv, TypeOK, Exclusive, Found, Predicate, Bounds, Goto,
        FramesTakenInOrder, mainVars, captureVars, queueVars, waitVars, NoSocket
<1>1. CASE ServerLoop
  BY <1>1 DEF ServerLoop
<1>2. CASE Accept
  <2>1. overlapped' \in BOOLEAN
    BY <1>2, Zenon DEF Accept
  <2>2. PICK f \in Fds : fd' = f /\ file' = [file EXCEPT ![f] = accepts + 1]
    BY <1>2 DEF Accept
  <2>3. /\ accepts' = accepts + 1 /\ accepts + 1 \in 0..MaxConns /\ npc' = "fill"
        /\ UNCHANGED <<mainVars, captureVars, queueVars, waitVars, missed, slot, registered>>
    BY <1>2 DEF Accept
  <2> QED
    BY <2>1, <2>2, <2>3
<1>3. CASE AcceptFails
  BY <1>3 DEF AcceptFails
<1>4. CASE FillSocket
  <2>1. slot' \in [socketFd : Fds \cup {NoSocket}, isConnected : BOOLEAN]
    <3>1. /\ slot' = [slot EXCEPT !.socketFd = fd]
          /\ slot \in [socketFd : Fds \cup {NoSocket}, isConnected : BOOLEAN]
          /\ fd \in Fds \cup {NoSocket}
      BY <1>4 DEF FillSocket
    <3> QED
      BY ONLY <3>1, Zenon
  <2>2. /\ npc = "fill" /\ npc' = "start" /\ fd' = NoSocket
        /\ UNCHANGED <<mainVars, captureVars, queueVars, waitVars, missed, accepts,
                       file, registered, overlapped>>
    BY <1>4 DEF FillSocket
  <2> QED
    BY <2>1, <2>2
<1>5. CASE StartHandler
  <2>1. slot' \in [socketFd : Fds \cup {NoSocket}, isConnected : BOOLEAN]
    <3>1. /\ slot' = [slot EXCEPT !.isConnected = TRUE]
          /\ slot \in [socketFd : Fds \cup {NoSocket}, isConnected : BOOLEAN]
      BY <1>5 DEF StartHandler
    <3> QED
      BY ONLY <3>1, Zenon
  <2>2. /\ npc = "start" /\ npc' = "register" /\ pc' = [pc EXCEPT ![accepts] = "loop"]
        /\ UNCHANGED <<sleeping, mainVars, captureVars, queueVars, missed, fd, accepts,
                       file, registered, overlapped>>
    BY <1>5 DEF StartHandler
  <2>3. /\ pc' \in [Consumers -> ConsumerLabels]
        /\ \A l \in Consumers : pc'[l] \in {"wait", "test"} => pc'[l] = pc[l]
    BY <2>2 DEF ConsumerLabels
  <2>4. TypeOK'
    BY <2>1, <2>2, <2>3 DEF ConsumerLabels
  <2>5. Exclusive' /\ Found' /\ Bounds'
    BY <2>2, <2>3
  <2> QED
    BY <2>2, <2>4, <2>5
<1>6. CASE Register
  BY <1>6 DEF Register, Handlers
<1>7. CASE ServerEnds
  BY <1>7 DEF ServerEnds
<1> QED
  BY <1>1, <1>2, <1>3, <1>4, <1>5, <1>6, <1>7 DEF Server

LEMMA StepNet == NetInv /\ [Next]_vars => NetInv'
<1> SUFFICES ASSUME NetInv, [Next]_vars PROVE NetInv'
  OBVIOUS
<1>1. CASE Next
  BY <1>1, MainNet, CaptureNet, ConsumerNet, ServerNet DEF Next
<1>2. CASE UNCHANGED vars
  BY <1>2 DEF vars, mainVars, captureVars, queueVars, waitVars, serverVars, NetInv, TypeOK,
     Exclusive, Found, Predicate, Bounds, FramesTakenInOrder
<1> QED
  BY <1>1, <1>2

(* Types, the mutual exclusion of the consumers, and what a consumer that may pop     *)
(* still knows, hold together with the order of the frames.                            *)
THEOREM NetInvariant == Spec => []NetInv
<1>1. Init => NetInv
  BY InitNet
<1>2. NetInv /\ [Next]_vars => NetInv'
  BY StepNet
<1> QED
  BY <1>1, <1>2, PTL DEF Spec

(* Every reachable state of the network server is well typed.                          *)
THEOREM NetTypes == Spec => []TypeOK
<1>1. NetInv => TypeOK
  BY DEF NetInv
<1> QED
  BY <1>1, NetInvariant, PTL

(* However many consumers share the queue and wake together, each frame is popped by    *)
(* one of them, in the order of capture, and none is popped from an empty queue.        *)
THEOREM EachFrameTakenOnce == Spec => []FramesTakenInOrder
<1>1. NetInv => FramesTakenInOrder
  BY DEF NetInv
<1> QED
  BY <1>1, NetInvariant, PTL
-----------------------------------------------------------------------------
(* Clients one after the other: as long as no connection has been accepted while a     *)
(* handler ran, and the server thread has not ended, at most one connection is there,   *)
(* the newest.  The server thread is about to hand it to its handler, or the handler    *)
(* runs and reads its socket from the slot.                                             *)
InHand == npc \in {"fill", "start"}
Newest == IF npc = "fill" THEN fd ELSE slot.socketFd
NewestOpen == Newest \in Fds /\ file[Newest] = accepts

OneHandler == \A k \in Handlers : Running(k) => k = accepts /\ ~InHand
HandedOver == InHand \/ (\E k \in Handlers : Running(k)) => NewestOpen
OnlyNewest == \A f \in Fds : file[f] # NoConn =>
                f = Newest /\ (InHand \/ \E k \in Handlers : Running(k))
Served == ~overlapped /\ npc # "off" => OneHandler /\ HandedOver /\ OnlyNewest

(* The H.264 writer has no socket to send on or to close.                               *)
WriterOnQueue == pc[Writer] \notin {"send", "close"}

ServedInv == Served /\ WriterOnQueue

LEMMA InitServed == Init => ServedInv
<1> SUFFICES ASSUME Init PROVE ServedInv
  OBVIOUS
<1>1. pc[Writer] = "loop" /\ \A k \in Handlers : pc[k] = "none"
  BY DEF Init, Handlers, Consumers, Writer
<1>2. npc = "loop" /\ \A f \in Fds : file[f] = NoConn
  BY DEF Init
<1>3. ~InHand /\ \A k \in Handlers : ~Running(k)
  BY <1>1, <1>2 DEF InHand, Running
<1>4. OneHandler /\ HandedOver /\ OnlyNewest
  BY <1>2, <1>3, Zenon DEF OneHandler, HandedOver, OnlyNewest
<1> QED
  BY <1>1, <1>4 DEF ServedInv, Served, WriterOnQueue

(* Whoever neither starts nor ends a handler, and leaves the sockets where they are,    *)
(* leaves the clients as they are served.                                               *)
LEMMA ServedStays ==
  ASSUME ServedInv, UNCHANGED <<npc, fd, accepts, file, overlapped>>,
         slot'.socketFd = slot.socketFd, WriterOnQueue',
         \A k \in Handlers : Running(k)' <=> Running(k)
  PROVE  ServedInv'
<1>1. InHand' <=> InHand
  BY DEF InHand
<1>2. Newest' = Newest
  BY DEF Newest
<1>3. CASE overlapped \/ npc = "off"
  BY <1>3 DEF ServedInv, Served
<1>4. CASE ~overlapped /\ npc # "off"
  <2>1. OneHandler /\ HandedOver /\ OnlyNewest
    BY <1>4 DEF ServedInv, Served
  <2>2. OneHandler'
    BY <2>1, <1>1, Zenon DEF OneHandler
  <2>3. HandedOver'
    BY <2>1, <1>1, <1>2, Zenon DEF HandedOver, NewestOpen
  <2>4. OnlyNewest'
    BY <2>1, <1>1, <1>2, Zenon DEF OnlyNewest
  <2> QED
    BY <2>2, <2>3, <2>4 DEF ServedInv, Served
<1> QED
  BY <1>3, <1>4

(* Only Close ends a handler: it closes the only connection there is.                    *)
LEMMA ConsumerServed ==
  ASSUME NetInv, ServedInv, NEW k \in Consumers, Consumer(k)
  PROVE  ServedInv'
<1> USE DEF Goto
<1>1. pc \in [Consumers -> ConsumerLabels] /\ Writer \in Consumers /\ Handlers \subseteq Consumers
      /\ Writer \notin Handlers
  BY DEF NetInv, TypeOK, ConsumerLabels, Consumers, Handlers, Writer
<1>2. pc[Writer] \notin {"send", "close"}
  BY DEF ServedInv, WriterOnQueue
<1>3. CASE Close(k)
  <2>1. /\ k \in Handlers /\ pc[k] = "close" /\ pc' = [pc EXCEPT ![k] = "off"]
        /\ file' = [f \in Fds |-> IF f = slot.socketFd THEN NoConn ELSE file[f]]
        /\ UNCHANGED <<npc, fd, accepts, slot, overlapped>>
    BY <1>1, <1>2, <1>3 DEF Close, Consumers
  <2>2. WriterOnQueue'
    BY <2>1, <1>1, <1>2 DEF WriterOnQueue
  <2>3. ASSUME ~overlapped, npc # "off"
        PROVE  (OneHandler /\ HandedOver /\ OnlyNewest)'
    <3>1. OneHandler /\ HandedOver /\ OnlyNewest
      BY <2>3 DEF ServedInv, Served
    <3>2. Running(k) /\ k = accepts /\ ~InHand
      BY <2>1, <3>1 DEF OneHandler, Running
    <3>3. \A l \in Handlers : ~Running(l)'
      BY <2>1, <1>1, <3>1, <3>2 DEF OneHandler, Running
    <3>4. ~InHand' /\ Newest = slot.socketFd
      BY <2>1, <3>2 DEF InHand, Newest
    <3>5. \A f \in Fds : file'[f] = NoConn
      BY <2>1, <3>1, <3>4 DEF OnlyNewest
    <3> QED
      BY <3>3, <3>4, <3>5, Zenon DEF OneHandler, HandedOver, OnlyNewest
  <2> QED
    BY <2>1, <2>2, <2>3 DEF ServedInv, Served
<1>4. CASE Loop(k) \/ Check(k) \/ Sleep(k) \/ Stop(k) \/ Take(k) \/ Send(k)
  <2>1. PICK to \in ConsumerLabels : pc' = [pc EXCEPT ![k] = to] /\ pc[k] \notin {"none", "off"}
                                     /\ (k # Writer => to \notin {"none", "off"})
                                     /\ (k = Writer => to \notin {"send", "close"})
    <3>1. CASE Loop(k)
      BY <3>1 DEF Loop, Stopped, ConsumerLabels
    <3>2. CASE Check(k)
      BY <3>2 DEF Check, ConsumerLabels
    <3>3. CASE Sleep(k)
      BY <3>3 DEF Sleep, ConsumerLabels
    <3>4. CASE Stop(k)
      BY <3>4 DEF Stop, Stopped, ConsumerLabels
    <3>5. CASE Take(k)
      BY <3>5 DEF Take, ConsumerLabels
    <3>6. CASE Send(k)
      BY <3>6, <1>2 DEF Send, ConsumerLabels
    <3> QED
      BY <1>4, <3>1, <3>2, <3>3, <3>4, <3>5, <3>6
  <2>2. \A l \in Handlers : Running(l)' <=> Running(l)
    BY <2>1, <1>1 DEF Running
  <2>3. WriterOnQueue'
    BY <2>1, <1>1, <1>2 DEF WriterOnQueue
  <2>4. UNCHANGED <<npc, fd, accepts, file, overlapped>>
    BY <1>4 DEF Loop, Check, Sleep, Stop, Take, Send, serverVars
  <2>5. slot' = slot \/ slot' = [slot EXCEPT !.isConnected = FALSE]
    BY <1>4, ZenonT(60) DEF Loop, Check, Sleep, Stop, Take, Send, serverVars
  <2>6. slot'.socketFd = slot.socketFd
    BY <2>5 DEF NetInv, TypeOK
  <2> QED
    BY <2>2, <2>3, <2>4, <2>6, ServedStays
<1> QED
  BY <1>3, <1>4 DEF Consumer

(* A connection accepted after the handler before has closed its own is alone.           *)
LEMMA AcceptServed == ASSUME NetInv, ServedInv, Accept PROVE ServedInv'
<1>1. PICK f \in Fds : fd' = f /\ file' = [file EXCEPT ![f] = accepts + 1]
  BY DEF Accept
<1>2. /\ npc = "accept" /\ npc' = "fill" /\ accepts' = accepts + 1
      /\ UNCHANGED <<pc, sleeping, slot>>
  BY DEF Accept, waitVars
<1>3. file \in [Fds -> 0..MaxConns]
  BY DEF NetInv, TypeOK
<1>4. ASSUME ~overlapped' PROVE (OneHandler /\ HandedOver /\ OnlyNewest)'
  <2>1. ~overlapped /\ \A k \in Handlers : ~Running(k)
    BY <1>4, Zenon DEF Accept
  <2>2. OneHandler /\ HandedOver /\ OnlyNewest /\ ~InHand
    BY <1>2, <2>1 DEF ServedInv, Served, InHand
  <2>3. \A g \in Fds : file[g] = NoConn
    BY <2>1, <2>2, Zenon DEF OnlyNewest
  <2>4. InHand' /\ Newest' = f
    BY <1>1, <1>2 DEF InHand, Newest
  <2>5. \A k \in Handlers : ~Running(k)'
    BY <1>2, <2>1 DEF Running
  <2>6. file'[f] = accepts' /\ \A g \in Fds \ {f} : file'[g] = NoConn
    BY <1>1, <1>2, <1>3, <2>3
  <2>7. OneHandler'
    BY <2>5, Zenon DEF OneHandler
  <2>8. HandedOver'
    BY <2>4, <2>6 DEF HandedOver, NewestOpen
  <2>9. OnlyNewest'
    BY <2>4, <2>6, Zenon DEF OnlyNewest
  <2> QED
    BY <2>7, <2>8, <2>9
<1> QED
  BY <1>2, <1>4 DEF ServedInv, Served, WriterOnQueue

LEMMA ServerServed == ASSUME NetInv, ServedInv, Server \/ AcceptFails PROVE ServedInv'
<1> USE DEF Goto, waitVars
<1>1. CASE ServerEnds
  BY <1>1 DEF ServerEnds, ServedInv, Served, WriterOnQueue
<1>2. CASE ServerLoop \/ AcceptFails \/ Register
  <2>1. UNCHANGED <<pc, fd, accepts, slot, file, overlapped>> /\ npc # "off"
    BY <1>2 DEF ServerLoop, AcceptFails, Register
  <2>2. ~InHand /\ ~InHand'
    BY <1>2 DEF ServerLoop, AcceptFails, Register, InHand
  <2>3. Newest' = Newest /\ \A k \in Handlers : Running(k)' <=> Running(k)
    BY <2>1, <2>2 DEF Newest, InHand, Running
  <2>4. WriterOnQueue'
    BY <2>1 DEF ServedInv, WriterOnQueue
  <2>5. ASSUME ~overlapped PROVE (OneHandler /\ HandedOver /\ OnlyNewest)'
    <3>1. OneHandler /\ HandedOver /\ OnlyNewest
      BY <2>1, <2>5 DEF ServedInv, Served
    <3> QED
      BY <3>1, <2>1, <2>2, <2>3, Zenon DEF OneHandler, HandedOver, NewestOpen, OnlyNewest
  <2> QED
    BY <2>1, <2>4, <2>5 DEF ServedInv, Served
<1>3. CASE FillSocket
  <2>1. /\ npc = "fill" /\ npc' = "start" /\ slot' = [slot EXCEPT !.socketFd = fd]
        /\ UNCHANGED <<pc, accepts, file, overlapped>>
    BY <1>3 DEF FillSocket
  <2>2. InHand /\ InHand' /\ Newest' = Newest
    BY <2>1 DEF InHand, Newest, NetInv, TypeOK
  <2>3. \A k \in Handlers : Running(k)' <=> Running(k)
    BY <2>1 DEF Running
  <2>4. ASSUME ~overlapped PROVE (OneHandler /\ HandedOver /\ OnlyNewest)'
    <3>1. OneHandler /\ HandedOver /\ OnlyNewest
      BY <2>1, <2>4 DEF ServedInv, Served
    <3> QED
      BY <3>1, <2>1, <2>2, <2>3, Zenon DEF OneHandler, HandedOver, NewestOpen, OnlyNewest
  <2> QED
    BY <2>1, <2>4 DEF ServedInv, Served, WriterOnQueue
<1>4. CASE StartHandler
  <2>1. /\ npc = "start" /\ npc' = "register" /\ slot' = [slot EXCEPT !.isConnected = TRUE]
        /\ pc' = [pc EXCEPT ![accepts] = "loop"]
        /\ UNCHANGED <<fd, accepts, file, overlapped>>
    BY <1>4 DEF StartHandler
  <2>2. accepts \in Handlers /\ pc \in [Consumers -> ConsumerLabels] /\ accepts # Writer
        /\ Handlers \subseteq Consumers
    BY <2>1, NetAssumption
       DEF NetInv, TypeOK, Bounds, Handlers, Consumers, ConsumerLabels, Writer
  <2>3. InHand /\ ~InHand' /\ Newest' = Newest
    BY <2>1 DEF InHand, Newest, NetInv, TypeOK
  <2>4. WriterOnQueue'
    BY <2>1, <2>2 DEF ServedInv, WriterOnQueue
  <2>5. ASSUME ~overlapped PROVE (OneHandler /\ HandedOver /\ OnlyNewest)'
    <3>1. OneHandler /\ HandedOver /\ OnlyNewest
      BY <2>1, <2>5 DEF ServedInv, Served
    <3>2. \A k \in Handlers : Running(k)' <=> k = accepts
      BY <2>1, <2>2, <2>3, <3>1 DEF OneHandler, Running
    <3> QED
      BY <3>1, <3>2, <2>1, <2>2, <2>3, ZenonT(60) DEF OneHandler, HandedOver, NewestOpen, OnlyNewest
  <2> QED
    BY <2>1, <2>4, <2>5 DEF ServedInv, Served
<1> QED
  BY <1>1, <1>2, <1>3, <1>4 DEF Server

LEMMA StepServed == NetInv /\ ServedInv /\ [Next]_vars => ServedInv'
<1> SUFFICES ASSUME NetInv, ServedInv, [Next]_vars PROVE ServedInv'
  OBVIOUS
<1>1. ASSUME Signal \/ Main \/ RawEnds \/ Capture \/ UNCHANGED vars PROVE ServedInv'
  <2>1. UNCHANGED <<pc, npc, fd, accepts, slot, file, overlapped>>
    BY <1>1, ZenonT(60) DEF Signal, Main, NotifyExit, Join, JoinCapture, RawEnds, Capture,
       CaptureLoop, Push, Notify, vars, mainVars, captureVars, queueVars, waitVars, serverVars
  <2>2. WriterOnQueue' /\ \A k \in Handlers : Running(k)' <=> Running(k)
    BY <2>1 DEF ServedInv, WriterOnQueue, Running
  <2> QED
    BY <2>1, <2>2, ServedStays
<1> QED
  BY <1>1, ConsumerServed, AcceptServed, ServerServed DEF Next

(* Clients that come one after the other are served as one expects: the shared          *)
(* NetworkClient then never takes a socket from its handler, and no connection stays     *)
(* open that nobody serves.                                                              *)
THEOREM OneAfterTheOtherServed == Spec => []SequentialClientsServed
<1>1. Init => ServedInv
  BY InitServed
<1>2. NetInv /\ ServedInv /\ [Next]_vars => ServedInv'
  BY StepServed
<1>3. NetInv /\ ServedInv => SequentialClientsServed
  <2> SUFFICES ASSUME NetInv, ServedInv, ~overlapped, npc # "off"
               PROVE  /\ \A k \in Handlers : Running(k) =>
                            Open(slot.socketFd) /\ file[slot.socketFd] = k
                      /\ \A f \in Fds : file[f] # NoConn =>
                            Running(file[f]) \/ (file[f] = accepts /\ npc \in {"fill", "start"})
    BY DEF SequentialClientsServed
  <2>1. OneHandler /\ HandedOver /\ OnlyNewest
    BY DEF ServedInv, Served
  <2>2. ASSUME NEW k \in Handlers, Running(k)
        PROVE  Open(slot.socketFd) /\ file[slot.socketFd] = k
    <3>1. k = accepts /\ Newest = slot.socketFd /\ NewestOpen
      BY <2>1, <2>2 DEF OneHandler, HandedOver, InHand, Newest
    <3> QED
      BY <3>1 DEF NewestOpen, Open, Handlers, NoConn
  <2>3. ASSUME NEW f \in Fds, file[f] # NoConn
        PROVE  Running(file[f]) \/ (file[f] = accepts /\ npc \in {"fill", "start"})
    <3>1. f = Newest /\ file[f] = accepts
      BY <2>1, <2>3, Zenon DEF OnlyNewest, HandedOver, NewestOpen
    <3> QED
      BY <2>1, <2>3, <3>1, Zenon DEF OnlyNewest, OneHandler, InHand
  <2> QED
    BY <2>2, <2>3
<1> QED
  BY <1>1, <1>2, <1>3, NetInvariant, PTL DEF Spec
=============================================================================
