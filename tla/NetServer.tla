------------------------------ MODULE NetServer ------------------------------
(* The H.264 path of the camera server (src/enhanced_camera_server_simple.cpp): *)
(* the capture thread queues a frame, and the H.264 writer and every network    *)
(* client's handler take frames from that one queue.  The server thread fills   *)
(* one NetworkClient on its stack for each connection and hands its address to   *)
(* the handler, so that all handlers read the newest connection's.  Frames of    *)
(* this version are empty: the writer skips them, and a handler's send of no     *)
(* bytes finds only whether there is a connection.  Of the raw writer, which is  *)
(* the part of module PipeServer, there is here what main's join of it waits for. *)
EXTENDS Integers, Sequences, FiniteSets

CONSTANTS MaxConns,     (* bound on the connections accepted                   *)
          MaxFrames,    (* bound on the frames captured                        *)
          Fds           (* descriptor numbers for connections                  *)

ASSUME NetAssumption == /\ MaxConns \in Nat /\ MaxFrames \in Nat
                        /\ Fds \subseteq Nat \ {0}

VARIABLES doExit,       (* g_doExit                                            *)
          mpc,          (* program point of main: run, or what it joins next    *)
          rpc,          (* what main's join finds rawFrameWriterThread doing     *)
          cpc,          (* program point of captureThread                       *)
          made,         (* frames queued: 1, 2, ...                             *)
          queue,        (* g_h264FrameQueue                                     *)
          taken,        (* history: frames popped, in order                     *)
          pc,           (* program point of each consumer of the queue          *)
          sleeping,     (* consumers that wait on g_h264QueueCond               *)
          missed,       (* history: main's notify fell before a consumer's wait *)
          npc,          (* program point of networkServerThread                 *)
          fd,           (* its clientSocket, until it is in the slot             *)
          accepts,      (* connections accepted: 1, 2, ...                      *)
          slot,         (* its local NetworkClient                              *)
          file,         (* the connection each descriptor names, 0 for none     *)
          registered,   (* g_networkClients                                     *)
          overlapped    (* history: accepted while another handler was running  *)

mainVars    == <<doExit, mpc, rpc>>
captureVars == <<cpc, made>>
queueVars   == <<queue, taken>>
waitVars    == <<pc, sleeping>>
serverVars  == <<npc, fd, accepts, slot, file, registered, overlapped>>
vars == <<mainVars, captureVars, queueVars, waitVars, missed, serverVars>>

Handlers == 1..MaxConns
Writer == 0
Consumers == Handlers \cup {Writer}
NoSocket == 0
NoConn == 0

Init == /\ doExit = FALSE /\ mpc = "run" /\ rpc = "run" /\ cpc = "loop" /\ made = 0
        /\ queue = << >> /\ taken = << >>
        /\ pc = [k \in Consumers |-> IF k = Writer THEN "loop" ELSE "none"]
        /\ sleeping = {} /\ missed = FALSE
        /\ npc = "loop" /\ fd = NoSocket /\ accepts = 0
        /\ slot = [socketFd |-> NoSocket, isConnected |-> FALSE]
        /\ file = [f \in Fds |-> NoConn] /\ registered = {} /\ overlapped = FALSE

Goto(k, l) == pc' = [pc EXCEPT ![k] = l]

(* A consumer holds g_h264QueueMutex from its test of the predicate to its sleep *)
(* or its pop; the capture thread's section is one step.                         *)
Unlocked == \A k \in Consumers : pc[k] \notin {"wait", "test"}
Predicate == queue # << >> \/ doExit

(* Where a consumer goes that stops.                                             *)
Stopped(k) == IF k = Writer THEN "off" ELSE "close"
Running(k) == pc[k] \notin {"none", "off"}

-----------------------------------------------------------------------------
(* Faulty variants of single steps, which the properties below must notice.     *)
FaultyAccept ==                       \* starts a handler for a failed accept
  /\ npc = "accept" /\ accepts < MaxConns
  /\ fd' = -1
  /\ accepts' = accepts + 1 /\ npc' = "fill" /\ overlapped' = TRUE
  /\ UNCHANGED <<file, mainVars, captureVars, queueVars, waitVars, missed, slot, registered>>

FaultyCheck(k) ==                     \* if instead of while: no test after a wakeup
  /\ Unlocked
  /\ \/ pc[k] = "lock" /\ Goto(k, IF Predicate THEN "test" ELSE "wait")
     \/ pc[k] = "asleep" /\ k \notin sleeping /\ Goto(k, "test")
  /\ UNCHANGED <<sleeping, mainVars, captureVars, queueVars, missed, serverVars>>

FaultyClose(k) ==                     \* forgets to close the socket
  /\ k # Writer /\ pc[k] = "close"
  /\ Goto(k, "off")
  /\ UNCHANGED <<file, sleeping, mainVars, captureVars, queueVars, missed, npc, fd, accepts,
                 slot, registered, overlapped>>

FaultyNotifyExit ==                   \* notify_one
  /\ mpc = "run" /\ doExit
  /\ \/ sleeping = {} /\ UNCHANGED sleeping
     \/ \E k \in sleeping : sleeping' = sleeping \ {k}
  /\ missed' = \E k \in Consumers : pc[k] = "wait"
  /\ mpc' = "capture"
  /\ UNCHANGED <<doExit, rpc, pc, captureVars, queueVars, serverVars>>

-----------------------------------------------------------------------------
(* The signal handler, and main: it notifies without the mutexes, then joins one  *)
(* thread after the other.                                                       *)
Signal == /\ ~doExit
          /\ doExit' = TRUE
          /\ UNCHANGED <<mpc, rpc, captureVars, queueVars, waitVars, missed, serverVars>>

NotifyExit == /\ mpc = "run" /\ doExit
              /\ sleeping' = {}
              /\ missed' = \E k \in Consumers : pc[k] = "wait"
              /\ mpc' = "capture"
              /\ UNCHANGED <<doExit, rpc, pc, captureVars, queueVars, serverVars>>

Joins(from, ended, to) == mpc = from /\ ended /\ mpc' = to
Join == /\ \/ Joins("raw", rpc = "off", "writer")
           \/ Joins("writer", pc[Writer] = "off", "server")
           \/ Joins("server", npc = "off", "clients")
           \/ Joins("clients", \A k \in registered : pc[k] = "off", "done")
        /\ UNCHANGED <<doExit, rpc, captureVars, queueVars, waitVars, missed, serverVars>>

(* Behind the capture thread main joins the raw writer.  That has ended or is about to, *)
(* or it waits at its FIFO, in open for a client to come or in write for one to read, or *)
(* it missed the notification and sleeps.                                               *)
JoinCapture == /\ Joins("capture", cpc = "off", "raw")
               /\ rpc' \in {"off", "fifo", "asleep"}
               /\ UNCHANGED <<doExit, captureVars, queueVars, waitVars, missed, serverVars>>

(* A client opens, reads or closes the FIFO, the call fails, or a spurious wakeup comes: *)
(* then the raw writer ends, sooner or later.                                           *)
RawEnds == /\ rpc \in {"fifo", "asleep"}
           /\ rpc' = "off"
           /\ UNCHANGED <<doExit, mpc, captureVars, queueVars, waitVars, missed, serverVars>>

-----------------------------------------------------------------------------
(* captureThread: push a frame under the mutex, notify.                          *)
CaptureLoop == /\ cpc = "loop"
               /\ \/ doExit /\ cpc' = "off"
                  \/ ~doExit /\ made < MaxFrames /\ cpc' = "push"
               /\ UNCHANGED <<made, mainVars, queueVars, waitVars, missed, serverVars>>

Push == /\ cpc = "push" /\ Unlocked
        /\ made' = made + 1
        /\ queue' = Append(queue, made + 1)
        /\ cpc' = "notify"
        /\ UNCHANGED <<taken, mainVars, waitVars, missed, serverVars>>

Notify == /\ cpc = "notify"
          /\ sleeping' = {}
          /\ cpc' = "loop"
          /\ UNCHANGED <<made, pc, mainVars, queueVars, missed, serverVars>>

-----------------------------------------------------------------------------
(* The loop of h264WriterThread and of networkClientHandler, which also looks at  *)
(* isConnected of the slot.                                                      *)
Loop(k) == /\ pc[k] = "loop"
           /\ Goto(k, IF doExit \/ (k # Writer /\ ~slot.isConnected)
                      THEN Stopped(k) ELSE "lock")
           /\ UNCHANGED <<sleeping, mainVars, captureVars, queueVars, missed, serverVars>>

Check(k) == /\ pc[k] = "lock" \/ (pc[k] = "asleep" /\ k \notin sleeping)
            /\ Unlocked
            /\ Goto(k, IF Predicate THEN "test" ELSE "wait")
            /\ UNCHANGED <<sleeping, mainVars, captureVars, queueVars, missed, serverVars>>

Sleep(k) == /\ pc[k] = "wait"
            /\ sleeping' = sleeping \cup {k}
            /\ Goto(k, "asleep")
            /\ UNCHANGED <<mainVars, captureVars, queueVars, missed, serverVars>>

Stop(k) == /\ pc[k] = "test" /\ doExit
           /\ Goto(k, Stopped(k))
           /\ UNCHANGED <<sleeping, mainVars, captureVars, queueVars, missed, serverVars>>

(* front and pop; of an empty queue front would return whatever there is, 0 here. *)
(* The writer skips the frame, a handler sends it.                                *)
Take(k) == /\ pc[k] = "test" /\ ~doExit
           /\ taken' = Append(taken, IF queue = << >> THEN 0 ELSE Head(queue))
           /\ queue' = IF queue = << >> THEN queue ELSE Tail(queue)
           /\ Goto(k, IF k = Writer THEN "loop" ELSE "send")
           /\ UNCHANGED <<sleeping, mainVars, captureVars, missed, serverVars>>

(* send fails on a closed descriptor, or after the client reset the connection.   *)
Open(f) == f \in Fds /\ file[f] # NoConn
Send(k) == /\ pc[k] = "send"
           /\ \/ Open(slot.socketFd) /\ Goto(k, "loop") /\ UNCHANGED slot
              \/ Goto(k, "close") /\ slot' = [slot EXCEPT !.isConnected = FALSE]
           /\ UNCHANGED <<sleeping, mainVars, captureVars, queueVars, missed, npc, fd, accepts,
                          file, registered, overlapped>>

Close(k) == /\ pc[k] = "close"
            /\ file' = [f \in Fds |-> IF f = slot.socketFd THEN NoConn ELSE file[f]]
            /\ Goto(k, "off")
            /\ UNCHANGED <<sleeping, mainVars, captureVars, queueVars, missed, npc, fd, accepts,
                           slot, registered, overlapped>>

-----------------------------------------------------------------------------
(* networkServerThread.  accept returns the lowest free descriptor.               *)
ServerLoop == /\ npc = "loop"
              /\ npc' = IF doExit THEN "stop" ELSE "accept"
              /\ UNCHANGED <<mainVars, captureVars, queueVars, waitVars, missed, fd, accepts,
                             slot, file, registered, overlapped>>

Lowest(f) == file[f] = NoConn /\ \A g \in Fds : file[g] = NoConn => f <= g
Accept == /\ npc = "accept" /\ accepts < MaxConns
          /\ \E f \in Fds : /\ Lowest(f)
                            /\ fd' = f /\ file' = [file EXCEPT ![f] = accepts + 1]
          /\ accepts' = accepts + 1
          /\ overlapped' = (overlapped \/ \E k \in Handlers : Running(k))
          /\ npc' = "fill"
          /\ UNCHANGED <<mainVars, captureVars, queueVars, waitVars, missed, slot, registered>>

(* Any error but EINTR ends the thread.                                          *)
AcceptFails == /\ npc = "accept"
               /\ npc' = "stop"
               /\ UNCHANGED <<mainVars, captureVars, queueVars, waitVars, missed, fd, accepts,
                              slot, file, registered, overlapped>>

(* The slot is filled field by field, while earlier handlers read it.             *)
FillSocket == /\ npc = "fill"
              /\ slot' = [slot EXCEPT !.socketFd = fd] /\ fd' = NoSocket
              /\ npc' = "start"
              /\ UNCHANGED <<mainVars, captureVars, queueVars, waitVars, missed, accepts,
                             file, registered, overlapped>>

StartHandler == /\ npc = "start"
                /\ slot' = [slot EXCEPT !.isConnected = TRUE]
                /\ Goto(accepts, "loop")
                /\ npc' = "register"
                /\ UNCHANGED <<sleeping, mainVars, captureVars, queueVars, missed, fd, accepts,
                               file, registered, overlapped>>

Register == /\ npc = "register"
            /\ registered' = registered \cup {accepts}
            /\ npc' = "loop"
            /\ UNCHANGED <<mainVars, captureVars, queueVars, waitVars, missed, fd, accepts,
                           slot, file, overlapped>>

(* The handlers' NetworkClient ends with the thread: its memory keeps its contents *)
(* or gets others, which name none of the sockets.                                 *)
ServerEnds == /\ npc = "stop"
              /\ \/ UNCHANGED slot
                 \/ \E b \in BOOLEAN : slot' = [socketFd |-> NoSocket, isConnected |-> b]
              /\ npc' = "off"
              /\ UNCHANGED <<mainVars, captureVars, queueVars, waitVars, missed, fd, accepts,
                             file, registered, overlapped>>

-----------------------------------------------------------------------------
Main == NotifyExit \/ JoinCapture \/ Join
Capture == CaptureLoop \/ Push \/ Notify
Consumer(k) == Loop(k) \/ Check(k) \/ Sleep(k) \/ Stop(k) \/ Take(k) \/ Send(k) \/ Close(k)
Server == ServerLoop \/ FillSocket \/ StartHandler \/ Register \/ ServerEnds

(* The process ends with main.                                                    *)
Alive == mpc # "done"
Next == Alive /\ \/ Signal \/ Main \/ RawEnds
                 \/ Capture \/ Server \/ Accept \/ AcceptFails
                 \/ \E k \in Consumers : Consumer(k)

Spec == Init /\ [][Next]_vars

(* Threads that can go on do.  Nobody has to connect, to open or read the raw FIFO or  *)
(* to send a signal, and a blocked call need not fail.                               *)
Fairness == /\ WF_vars(Alive /\ Main) /\ WF_vars(Alive /\ Capture) /\ WF_vars(Alive /\ Server)
            /\ \A k \in Consumers : WF_vars(Alive /\ Consumer(k))
FairSpec == Spec /\ Fairness

-----------------------------------------------------------------------------
(* Types of the variables.                                                         *)
TypeOK == /\ doExit \in BOOLEAN
          /\ mpc \in {"run", "capture", "raw", "writer", "server", "clients", "done"}
          /\ rpc \in {"run", "fifo", "asleep", "off"}
          /\ cpc \in {"loop", "push", "notify", "off"} /\ made \in 0..MaxFrames
          /\ queue \in Seq(1..MaxFrames) /\ taken \in Seq(0..MaxFrames)
          /\ pc \in [Consumers -> {"none", "loop", "lock", "wait", "asleep", "test", "send",
                                   "close", "off"}]
          /\ sleeping \subseteq Consumers /\ missed \in BOOLEAN
          /\ npc \in {"loop", "accept", "fill", "start", "register", "stop", "off"}
          /\ fd \in Fds \cup {NoSocket} /\ accepts \in 0..MaxConns
          /\ slot \in [socketFd : Fds \cup {NoSocket}, isConnected : BOOLEAN]
          /\ file \in [Fds -> 0..MaxConns] /\ registered \subseteq Handlers
          /\ overlapped \in BOOLEAN

(* However many consumers one notify_all wakes, each frame is popped by one of them, *)
(* in the order of capture, and none is popped from an empty queue.                   *)
FramesTakenInOrder == taken \o queue = [i \in 1..made |-> i]

(* Clients that come one after the other, each when the handler before has ended,     *)
(* are served as one expects, until the server thread ends: a handler's socket is its *)
(* own connection, and a connection is closed when its handler has ended.              *)
SequentialClientsServed ==
  ~overlapped /\ npc # "off" =>
    /\ \A k \in Handlers : Running(k) => Open(slot.socketFd) /\ file[slot.socketFd] = k
    /\ \A f \in Fds : file[f] # NoConn =>
         Running(file[f]) \/ (file[f] = accepts /\ npc \in {"fill", "start"})

(* A shutdown ends every thread, except that main waits for ever in its join of the     *)
(* raw writer when no client opens or reads the raw FIFO, in that of the server thread   *)
(* when no connection ends its accept, and in that of a thread that missed the            *)
(* notification main sends without the mutexes.                                           *)
ShutdownEnds ==
  doExit ~> \/ mpc = "done" \/ missed
            \/ [](mpc = "raw" /\ rpc \in {"fifo", "asleep"})
            \/ [](mpc = "server" /\ npc = "accept")
=============================================================================
