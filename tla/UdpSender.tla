----------------------------- MODULE UdpSender -----------------------------
(* The UDP output of the encoder (src/main.cpp): the encoder's DQ thread    *)
(* queues RTP packets, udpSenderThread sends them, execute() starts the     *)
(* sender with initializeUDP and ends it with cleanupUDP.  The two flags    *)
(* are plain bools read and written without the mutex; every read is        *)
(* preceded by a library call, so each one sees the current value.          *)
EXTENDS Naturals, Sequences

CONSTANT MaxPackets     (* bound on the packets the encoder produces         *)

ASSUME UdpAssumption == MaxPackets \in Nat

VARIABLES pc,        (* program point of each thread                         *)
          mutex,     (* holder of UDP_QUEUE_MUTEX                            *)
          sleeping,  (* the sender is in UDP_QUEUE_COND's wait set           *)
          running,   (* UDP_THREAD_RUNNING                                   *)
          stop,      (* UDP_THREAD_STOP                                      *)
          sockOpen,  (* UDP_SOCKET >= 0                                      *)
          late,      (* history: waitForDQThread(2000) timed out, cleanupUDP *)
                     (* began before the DQ thread's last packet             *)
          queue,     (* UDP_PACKET_QUEUE                                     *)
          held,      (* the sender's local packet, 0 when it has none        *)
          made,      (* packets allocated so far; they are 1, 2, ..., made   *)
          wire,      (* history: packets sendto accepted, oldest first       *)
          freed      (* history: packets deleted                             *)

threadVars == <<pc, mutex, sleeping>>
flagVars   == <<running, stop, sockOpen, late>>
packetVars == <<queue, held, made, wire, freed>>
vars == <<threadVars, flagVars, packetVars>>

Threads == {"main", "dq", "udp"}
MainLabels == {"init", "spawn", "stream", "setstop", "signal", "join", "lock",
               "drain", "close", "done", "failed"}
DqLabels == {"off", "idle", "lock", "push", "signal", "unlock", "done"}
SenderLabels == {"off", "start", "loop", "lock", "check", "wait", "asleep", "test",
                 "unlock", "send", "free", "exit", "dead"}

At(t, l) == pc[t] = l
Goto(t, l) == pc' = [pc EXCEPT ![t] = l]
Elements(s) == {s[i] : i \in 1..Len(s)}

Lock(t, l) == mutex = "none" /\ mutex' = t /\ Goto(t, l)
Unlock(t, l) == mutex' = "none" /\ Goto(t, l)
Signal == sleeping' = FALSE

Init == /\ pc = [t \in Threads |-> IF t = "main" THEN "init" ELSE "off"]
        /\ mutex = "none" /\ sleeping = FALSE
        /\ running = FALSE /\ stop = FALSE /\ sockOpen = FALSE /\ late = FALSE
        /\ queue = << >> /\ held = 0 /\ made = 0 /\ wire = << >> /\ freed = {}

-----------------------------------------------------------------------------
(* Faulty variants of single steps: each shows that a property below would   *)
(* notice the mistake.  No specification uses them.                          *)
FaultyNoJoin == /\ At("main", "signal")
                /\ Signal
                /\ Goto("main", "lock")
                /\ UNCHANGED <<mutex, flagVars, packetVars>>

FaultyOfferNothing == /\ At("dq", "idle") /\ made < MaxPackets
                      /\ sockOpen /\ running
                      /\ Goto("dq", "lock")
                      /\ UNCHANGED <<mutex, sleeping, flagVars, packetVars>>

FaultyNoPushSignal == /\ At("dq", "signal")
                      /\ Goto("dq", "unlock")
                      /\ UNCHANGED <<mutex, sleeping, flagVars, packetVars>>

FaultyWaitWithIf == /\ At("udp", "asleep") /\ ~sleeping
                    /\ Lock("udp", "test")
                    /\ UNCHANGED <<sleeping, flagVars, packetVars>>

FaultyFrontWithoutPop == /\ At("udp", "test") /\ ~stop
                         /\ held' = Head(queue)
                         /\ Goto("udp", "unlock")
                         /\ UNCHANGED <<mutex, sleeping, flagVars, queue, made, wire, freed>>

FaultySendAgain == /\ At("udp", "send")
                   /\ \/ sockOpen /\ wire' = Append(wire, held) /\ UNCHANGED pc
                      \/ UNCHANGED wire /\ Goto("udp", "free")
                   /\ Len(wire) <= MaxPackets
                   /\ UNCHANGED <<mutex, sleeping, flagVars, queue, held, made, freed>>

-----------------------------------------------------------------------------
(* main: initializeUDP.  A failure makes execute() return at once.          *)
CreateSocket == /\ At("main", "init")
                /\ \/ sockOpen' = TRUE /\ Goto("main", "spawn")
                   \/ sockOpen' = FALSE /\ Goto("main", "failed")
                /\ UNCHANGED <<mutex, sleeping, running, stop, late, packetVars>>

SpawnSender == /\ At("main", "spawn")
               /\ stop' = FALSE
               /\ \/ /\ pc' = [pc EXCEPT !["main"] = "stream", !["dq"] = "idle",
                                          !["udp"] = "start"]
                     /\ UNCHANGED sockOpen
                  \/ Goto("main", "failed") /\ sockOpen' = FALSE
               /\ UNCHANGED <<mutex, sleeping, running, late, packetVars>>

(* main: cleanupUDP.  The stop flag and the signal are not under the mutex. *)
BeginCleanup == /\ At("main", "stream")
                /\ late' = ~At("dq", "done")
                /\ Goto("main", IF running THEN "setstop" ELSE "lock")
                /\ UNCHANGED <<mutex, sleeping, running, stop, sockOpen, packetVars>>

SetStop == /\ At("main", "setstop")
           /\ stop' = TRUE
           /\ Goto("main", "signal")
           /\ UNCHANGED <<mutex, sleeping, running, sockOpen, late, packetVars>>

SignalStop == /\ At("main", "signal")
              /\ Signal
              /\ Goto("main", "join")
              /\ UNCHANGED <<mutex, flagVars, packetVars>>

Join == /\ At("main", "join")
        /\ At("udp", "dead")
        /\ Goto("main", "lock")
        /\ UNCHANGED <<mutex, sleeping, flagVars, packetVars>>

DrainLock == /\ At("main", "lock")
             /\ Lock("main", "drain")
             /\ UNCHANGED <<sleeping, flagVars, packetVars>>

DrainOne == /\ At("main", "drain")
            /\ queue # << >>
            /\ freed' = freed \cup {Head(queue)}
            /\ queue' = Tail(queue)
            /\ UNCHANGED <<threadVars, flagVars, held, made, wire>>

DrainUnlock == /\ At("main", "drain")
               /\ queue = << >>
               /\ Unlock("main", "close")
               /\ UNCHANGED <<sleeping, flagVars, packetVars>>

CloseSocket == /\ At("main", "close")
               /\ sockOpen' = FALSE
               /\ Goto("main", "done")
               /\ UNCHANGED <<mutex, sleeping, running, stop, late, packetVars>>

-----------------------------------------------------------------------------
(* DQ thread: the UDP part of sendRTPPacketToAllClients.  A packet made     *)
(* while the flags say "no sender" is not queued and changes nothing here.  *)
OfferPacket == /\ At("dq", "idle")
               /\ made < MaxPackets
               /\ sockOpen /\ running
               /\ made' = made + 1
               /\ Goto("dq", "lock")
               /\ UNCHANGED <<mutex, sleeping, flagVars, queue, held, wire, freed>>

PushLock == /\ At("dq", "lock")
            /\ Lock("dq", "push")
            /\ UNCHANGED <<sleeping, flagVars, packetVars>>

Push == /\ At("dq", "push")
        /\ queue' = Append(queue, made)
        /\ Goto("dq", "signal")
        /\ UNCHANGED <<mutex, sleeping, flagVars, held, made, wire, freed>>

PushSignal == /\ At("dq", "signal")
              /\ Signal
              /\ Goto("dq", "unlock")
              /\ UNCHANGED <<mutex, flagVars, packetVars>>

PushUnlock == /\ At("dq", "unlock")
              /\ Unlock("dq", "idle")
              /\ UNCHANGED <<sleeping, flagVars, packetVars>>

(* The capture plane's callback returns false: end of stream.               *)
EndOfStream == /\ At("dq", "idle")
               /\ Goto("dq", "done")
               /\ UNCHANGED <<mutex, sleeping, flagVars, packetVars>>

-----------------------------------------------------------------------------
(* udpSenderThread                                                          *)
SenderStart == /\ At("udp", "start")
               /\ running' = TRUE
               /\ Goto("udp", "loop")
               /\ UNCHANGED <<mutex, sleeping, stop, sockOpen, late, packetVars>>

SenderLoop == /\ At("udp", "loop")
              /\ Goto("udp", IF stop THEN "exit" ELSE "lock")
              /\ UNCHANGED <<mutex, sleeping, flagVars, packetVars>>

SenderLock == /\ At("udp", "lock")
              /\ Lock("udp", "check")
              /\ UNCHANGED <<sleeping, flagVars, packetVars>>

(* The condition of the inner while is read before pthread_cond_wait sleeps.*)
SenderCheck == /\ At("udp", "check")
               /\ Goto("udp", IF queue = << >> /\ ~stop THEN "wait" ELSE "test")
               /\ UNCHANGED <<mutex, sleeping, flagVars, packetVars>>

SenderWait == /\ At("udp", "wait")
              /\ sleeping' = TRUE
              /\ Unlock("udp", "asleep")
              /\ UNCHANGED <<flagVars, packetVars>>

SenderWake == /\ At("udp", "asleep")
              /\ ~sleeping
              /\ Lock("udp", "check")
              /\ UNCHANGED <<sleeping, flagVars, packetVars>>

SpuriousWakeup == /\ At("udp", "asleep")
                  /\ sleeping /\ Signal
                  /\ UNCHANGED <<pc, mutex, flagVars, packetVars>>

SenderStopped == /\ At("udp", "test")
                 /\ stop
                 /\ Unlock("udp", "exit")
                 /\ UNCHANGED <<sleeping, flagVars, packetVars>>

SenderPop == /\ At("udp", "test")
             /\ ~stop
             /\ held' = Head(queue)
             /\ queue' = Tail(queue)
             /\ Goto("udp", "unlock")
             /\ UNCHANGED <<mutex, sleeping, flagVars, made, wire, freed>>

SenderUnlock == /\ At("udp", "unlock")
                /\ Unlock("udp", "send")
                /\ UNCHANGED <<sleeping, flagVars, packetVars>>

(* sendto accepts the datagram or fails; it always fails on socket -1.      *)
SenderSend == /\ At("udp", "send")
              /\ \/ sockOpen /\ wire' = Append(wire, held)
                 \/ UNCHANGED wire
              /\ Goto("udp", "free")
              /\ UNCHANGED <<mutex, sleeping, flagVars, queue, held, made, freed>>

SenderFree == /\ At("udp", "free")
              /\ freed' = freed \cup {held}
              /\ held' = 0
              /\ Goto("udp", "loop")
              /\ UNCHANGED <<mutex, sleeping, flagVars, queue, made, wire>>

SenderExit == /\ At("udp", "exit")
              /\ running' = FALSE
              /\ Goto("udp", "dead")
              /\ UNCHANGED <<mutex, sleeping, stop, sockOpen, late, packetVars>>

-----------------------------------------------------------------------------
CleanupStep == \/ SetStop \/ SignalStop \/ Join
               \/ DrainLock \/ DrainOne \/ DrainUnlock \/ CloseSocket
Main == CreateSocket \/ SpawnSender \/ BeginCleanup \/ CleanupStep
PushStep == PushLock \/ Push \/ PushSignal \/ PushUnlock
Dq == OfferPacket \/ PushStep \/ EndOfStream
Sender == \/ SenderStart \/ SenderLoop \/ SenderLock \/ SenderCheck \/ SenderWait
          \/ SenderWake \/ SenderStopped \/ SenderPop \/ SenderUnlock
          \/ SenderSend \/ SenderFree \/ SenderExit

Next == Main \/ Dq \/ Sender \/ SpuriousWakeup

Spec == Init /\ [][Next]_vars

(* Each thread keeps running, and a thread blocked on the mutex gets it when *)
(* the others keep releasing it.  The encoder need not make another packet,  *)
(* main need not reach cleanupUDP, and no wakeup is spurious for ever.       *)
Fairness == /\ WF_vars(CleanupStep) /\ WF_vars(PushStep) /\ WF_vars(Sender)
            /\ SF_vars(DrainLock) /\ SF_vars(PushLock)
            /\ SF_vars(SenderLock) /\ SF_vars(SenderWake)

FairSpec == Spec /\ Fairness

-----------------------------------------------------------------------------
(* Types of the variables.                                                   *)
TypeOK == /\ pc \in [Threads -> MainLabels \cup DqLabels \cup SenderLabels]
          /\ pc["main"] \in MainLabels
          /\ pc["dq"] \in DqLabels
          /\ pc["udp"] \in SenderLabels
          /\ mutex \in Threads \cup {"none"}
          /\ sleeping \in BOOLEAN /\ running \in BOOLEAN
          /\ stop \in BOOLEAN /\ sockOpen \in BOOLEAN /\ late \in BOOLEAN
          /\ queue \in Seq(1..MaxPackets) /\ wire \in Seq(1..MaxPackets)
          /\ held \in 0..MaxPackets /\ made \in 0..MaxPackets
          /\ freed \subseteq 1..MaxPackets

(* The packet the DQ thread has allocated and not yet queued, the one the   *)
(* sender has popped and not yet deleted.                                   *)
DqOwns == IF pc["dq"] \in {"lock", "push"} THEN {made} ELSE {}
SenderOwns == IF held = 0 THEN {} ELSE {held}

(* Every allocated packet has one owner at any time: the DQ thread, the     *)
(* queue, the sender, or nobody because it was deleted.  So no packet leaks  *)
(* and none is used after, or deleted twice by, sender and cleanup.  And      *)
(* cleanupUDP leaves none behind, when the DQ thread ended in time.           *)
PacketOwnedOnce ==
  /\ DqOwns \cup Elements(queue) \cup SenderOwns \cup freed = 1..made
  /\ \A i, j \in 1..Len(queue) : queue[i] = queue[j] => i = j
  /\ Elements(queue) \cap (DqOwns \cup SenderOwns \cup freed) = {}
  /\ SenderOwns \cap (DqOwns \cup freed) = {}
  /\ DqOwns \cap freed = {}
  /\ At("main", "done") /\ ~late => queue = << >> /\ freed = 1..made

(* The sender never takes the front of an empty queue: its wait loop ends    *)
(* with an empty queue only once stop is set, and stop is not reset under it. *)
NoPopFromEmpty == At("udp", "test") /\ ~stop => queue # << >>

(* When the DQ thread ended in time, the sender never calls sendto on a      *)
(* socket cleanupUDP has closed, although cleanup skips the join whenever it  *)
(* reads UDP_THREAD_RUNNING as false.                                         *)
SendOnOpenSocket == At("udp", "send") /\ ~late => sockOpen

(* The sender and its queue implement the abstract channel: sequence numbers   *)
(* arrive ascending whatever the interleaving, losses and cleanup.             *)
InHand == IF pc["udp"] \in {"unlock", "send"} THEN <<held>> ELSE << >>
Channel == INSTANCE LossyFifo
             WITH accepted <- IF DqOwns = {} THEN made ELSE made - 1,
                  chan <- InHand \o queue,
                  delivered <- wire
ImplementsChannel == Channel!Spec

(* A queued packet does not stay in the queue for ever: the sender's wakeup   *)
(* is not lost between its check of the queue and its sleep.  Only a late DQ   *)
(* thread can queue one behind cleanupUDP.                                     *)
QueuedIsRetired == \A p \in 1..MaxPackets : p \in Elements(queue) ~> p \in freed \/ late

(* cleanupUDP, once it asks the sender to stop, comes back.                   *)
CleanupReturns == At("main", "setstop") ~> At("main", "done")
=============================================================================
