-------------------------- MODULE UdpSenderProofs --------------------------
(* Proofs about UdpSender, for every MaxPackets.                               *)
EXTENDS UdpSender, QueueLemmas

-----------------------------------------------------------------------------
(* Who holds the mutex is a function of the program points: no two threads   *)
(* are in a critical section of UDP_QUEUE_MUTEX.                              *)
MutexInv == /\ mutex = "main" <=> At("main", "drain")
            /\ mutex = "dq" <=> pc["dq"] \in {"push", "signal", "unlock"}
            /\ mutex = "udp" <=> pc["udp"] \in {"check", "wait", "test", "unlock"}

(* The other threads run only after initializeUDP has cleared stop, so the    *)
(* flag is never reset under a running sender.                                *)
StartInv == pc["main"] \in {"init", "spawn", "failed"} => pc["udp"] = "off" /\ pc["dq"] = "off"

(* A DQ thread that is about to queue a packet has allocated one.             *)
MadeInv == pc["dq"] \in {"lock", "push"} => made # 0

(* The sender has a packet from its pop to its delete.                         *)
HeldInv == held # 0 <=> pc["udp"] \in {"unlock", "send", "free"}

SafetyInv == TypeOK /\ MutexInv /\ StartInv /\ MadeInv /\ HeldInv /\ NoPopFromEmpty

-----------------------------------------------------------------------------
(* What the sequence operators of the model return.                           *)
LEMMA HeadTailType ==
  ASSUME NEW S, NEW s \in Seq(S), s # << >>
  PROVE  /\ Head(s) \in S
         /\ Tail(s) \in Seq(S)
OBVIOUS

LEMMA InitSafety == Init => SafetyInv
<1> SUFFICES ASSUME Init PROVE SafetyInv
  OBVIOUS
<1> USE UdpAssumption DEF Init, Threads, MainLabels, DqLabels, SenderLabels, At
<1>1. pc["main"] = "init" /\ pc["dq"] = "off" /\ pc["udp"] = "off"
  OBVIOUS
<1>2. << >> \in Seq(1..MaxPackets)
  BY EmptySeq
<1>3. pc \in [Threads -> {"init", "off"}]
  OBVIOUS
<1>4. pc \in [Threads -> MainLabels \cup DqLabels \cup SenderLabels]
  BY <1>3
<1>5. TypeOK
  <2>1. /\ mutex \in Threads \cup {"none"}
        /\ sleeping \in BOOLEAN /\ running \in BOOLEAN
        /\ stop \in BOOLEAN /\ sockOpen \in BOOLEAN /\ late \in BOOLEAN
        /\ queue \in Seq(1..MaxPackets) /\ wire \in Seq(1..MaxPackets)
    BY <1>2
  <2>2. /\ held \in 0..MaxPackets /\ made \in 0..MaxPackets
        /\ freed \subseteq 1..MaxPackets
    OBVIOUS
  <2>3. /\ pc["main"] \in MainLabels
        /\ pc["dq"] \in DqLabels
        /\ pc["udp"] \in SenderLabels
    BY <1>1
  <2> QED
    BY <1>4, <2>1, <2>2, <2>3, Zenon DEF TypeOK
<1> QED
  BY <1>1, <1>5 DEF SafetyInv, MutexInv, StartInv, MadeInv, HeldInv, NoPopFromEmpty

(* Every step of main keeps the invariant.                                    *)
LEMMA MainSafety == SafetyInv /\ Main => SafetyInv'
<1> SUFFICES ASSUME SafetyInv, Main PROVE SafetyInv'
  OBVIOUS
<1> USE UdpAssumption DEF SafetyInv, TypeOK, MutexInv, StartInv, MadeInv, HeldInv,
        NoPopFromEmpty, At, Goto, Lock, Unlock, Signal, Threads, MainLabels, DqLabels, SenderLabels,
        threadVars, flagVars, packetVars
<1>1. CASE CreateSocket
  BY <1>1, ZenonT(40) DEF CreateSocket
<1>2. CASE SpawnSender
  <2>1. stop' = FALSE /\ sockOpen' \in BOOLEAN
    BY <1>2 DEF SpawnSender
  <2>2. /\ pc' \in [Threads -> MainLabels \cup DqLabels \cup SenderLabels]
        /\ \/ pc'["main"] = "stream" /\ pc'["dq"] = "idle" /\ pc'["udp"] = "start"
           \/ pc'["main"] = "failed" /\ pc'["dq"] = "off" /\ pc'["udp"] = "off"
        /\ pc["main"] = "spawn" /\ pc["dq"] = "off" /\ pc["udp"] = "off"
    BY <1>2 DEF SpawnSender
  <2>3. UNCHANGED <<mutex, sleeping, running, late, packetVars>>
    BY <1>2 DEF SpawnSender
  <2>4. TypeOK'
    BY <2>1, <2>2, <2>3
  <2>5. MutexInv'
    BY <2>2, <2>3
  <2>6. StartInv' /\ MadeInv' /\ HeldInv' /\ NoPopFromEmpty'
    BY <2>2, <2>3
  <2> QED
    BY <2>4, <2>5, <2>6
<1>3. CASE BeginCleanup
  <2>1. late' \in BOOLEAN
    BY <1>3, Zenon DEF BeginCleanup
  <2>2. /\ pc' \in [Threads -> MainLabels \cup DqLabels \cup SenderLabels]
        /\ pc'["main"] \in {"setstop", "lock"}
        /\ pc'["dq"] = pc["dq"] /\ pc'["udp"] = pc["udp"]
        /\ pc["main"] = "stream"
        /\ UNCHANGED <<mutex, sleeping, running, stop, sockOpen, packetVars>>
    BY <1>3 DEF BeginCleanup
  <2>3. TypeOK'
    <3>1. /\ mutex' \in Threads \cup {"none"}
          /\ sleeping' \in BOOLEAN /\ running' \in BOOLEAN
          /\ stop' \in BOOLEAN /\ sockOpen' \in BOOLEAN
          /\ queue' \in Seq(1..MaxPackets) /\ wire' \in Seq(1..MaxPackets)
          /\ held' \in 0..MaxPackets /\ made' \in 0..MaxPackets
          /\ freed' \subseteq 1..MaxPackets
          /\ pc' \in [Threads -> MainLabels \cup DqLabels \cup SenderLabels]
          /\ pc'["main"] \in MainLabels
          /\ pc'["dq"] \in DqLabels
          /\ pc'["udp"] \in SenderLabels
      BY <2>2
    <3> QED
      BY <2>1, <3>1, Zenon DEF TypeOK
  <2>4. MutexInv'
    BY <2>2
  <2>5. StartInv' /\ MadeInv' /\ HeldInv' /\ NoPopFromEmpty'
    BY <2>2
  <2> QED
    BY <2>3, <2>4, <2>5
<1>4. CASE SetStop
  BY <1>4 DEF SetStop
<1>5. CASE SignalStop
  <2>1. sleeping' = FALSE
    BY <1>5 DEF SignalStop
  <2>2. /\ pc' \in [Threads -> MainLabels \cup DqLabels \cup SenderLabels]
        /\ pc["main"] = "signal" /\ pc'["main"] = "join"
        /\ pc'["dq"] = pc["dq"] /\ pc'["udp"] = pc["udp"]
        /\ UNCHANGED <<mutex, flagVars, packetVars>>
    BY <1>5 DEF SignalStop
  <2>3. TypeOK'
    <3>1. /\ mutex' \in Threads \cup {"none"}
          /\ running' \in BOOLEAN /\ stop' \in BOOLEAN
          /\ sockOpen' \in BOOLEAN /\ late' \in BOOLEAN
          /\ queue' \in Seq(1..MaxPackets) /\ wire' \in Seq(1..MaxPackets)
          /\ held' \in 0..MaxPackets /\ made' \in 0..MaxPackets
          /\ freed' \subseteq 1..MaxPackets
          /\ pc' \in [Threads -> MainLabels \cup DqLabels \cup SenderLabels]
          /\ pc'["main"] \in MainLabels
          /\ pc'["dq"] \in DqLabels
          /\ pc'["udp"] \in SenderLabels
      BY <2>2
    <3>2. sleeping' \in BOOLEAN
      BY <2>1, Zenon
    <3> QED
      BY <3>1, <3>2, Zenon DEF TypeOK
  <2>4. MutexInv'
    BY <2>2
  <2>5. StartInv' /\ MadeInv' /\ HeldInv' /\ NoPopFromEmpty'
    BY <2>2
  <2> QED
    BY <2>3, <2>4, <2>5
<1>6. CASE Join
  BY <1>6 DEF Join
<1>7. CASE DrainLock
  BY <1>7 DEF DrainLock
<1>8. CASE DrainOne
  <2>1. Head(queue) \in 1..MaxPackets /\ Tail(queue) \in Seq(1..MaxPackets)
    BY <1>8, HeadTailType DEF DrainOne
  <2>2. /\ freed' \subseteq 1..MaxPackets /\ queue' \in Seq(1..MaxPackets)
        /\ UNCHANGED <<threadVars, flagVars, held, made, wire>>
    BY <1>8, <2>1 DEF DrainOne
  <2>3. TypeOK'
    BY <2>2
  <2>4. NoPopFromEmpty'
    BY <1>8, <2>2 DEF DrainOne
  <2>5. MutexInv' /\ StartInv' /\ MadeInv' /\ HeldInv'
    BY <2>2
  <2> QED
    BY <2>3, <2>4, <2>5
<1>9. CASE DrainUnlock
  BY <1>9 DEF DrainUnlock
<1>10. CASE CloseSocket
  <2>1. sockOpen' = FALSE
    BY <1>10 DEF CloseSocket
  <2>2. /\ pc' \in [Threads -> MainLabels \cup DqLabels \cup SenderLabels]
        /\ pc["main"] = "close" /\ pc'["main"] = "done"
        /\ pc'["dq"] = pc["dq"] /\ pc'["udp"] = pc["udp"]
        /\ UNCHANGED <<mutex, sleeping, running, stop, late, packetVars>>
    BY <1>10 DEF CloseSocket
  <2>3. TypeOK'
    <3>1. /\ mutex' \in Threads \cup {"none"}
          /\ sleeping' \in BOOLEAN /\ running' \in BOOLEAN
          /\ stop' \in BOOLEAN /\ late' \in BOOLEAN
          /\ queue' \in Seq(1..MaxPackets) /\ wire' \in Seq(1..MaxPackets)
          /\ held' \in 0..MaxPackets /\ made' \in 0..MaxPackets
          /\ freed' \subseteq 1..MaxPackets
          /\ pc' \in [Threads -> MainLabels \cup DqLabels \cup SenderLabels]
          /\ pc'["main"] \in MainLabels
          /\ pc'["dq"] \in DqLabels
          /\ pc'["udp"] \in SenderLabels
      BY <2>2
    <3>2. sockOpen' \in BOOLEAN
      BY <2>1, Zenon
    <3> QED
      BY <3>1, <3>2, Zenon DEF TypeOK
  <2>4. MutexInv'
    BY <2>2
  <2>5. StartInv' /\ MadeInv' /\ HeldInv' /\ NoPopFromEmpty'
    BY <2>2
  <2> QED
    BY <2>3, <2>4, <2>5
<1> QED
  BY <1>1, <1>2, <1>3, <1>4, <1>5, <1>6, <1>7, <1>8, <1>9, <1>10 DEF Main, CleanupStep

(* Every step of the DQ thread keeps the invariant.                           *)
LEMMA DqSafety == SafetyInv /\ Dq => SafetyInv'
<1> SUFFICES ASSUME SafetyInv, Dq PROVE SafetyInv'
  OBVIOUS
<1> USE UdpAssumption DEF SafetyInv, TypeOK, MutexInv, StartInv, MadeInv, HeldInv,
        NoPopFromEmpty, At, Goto, Lock, Unlock, Signal, Threads, MainLabels, DqLabels, SenderLabels,
        threadVars, flagVars, packetVars
<1>1. CASE OfferPacket
  BY <1>1 DEF OfferPacket
<1>2. CASE PushLock
  BY <1>2 DEF PushLock
<1>3. CASE Push
  BY <1>3 DEF Push
<1>4. CASE PushSignal
  BY <1>4 DEF PushSignal
<1>5. CASE PushUnlock
  BY <1>5 DEF PushUnlock
<1>6. CASE EndOfStream
  BY <1>6 DEF EndOfStream
<1> QED
  BY <1>1, <1>2, <1>3, <1>4, <1>5, <1>6 DEF Dq, PushStep

(* Every step of the sender, and a spurious wakeup, keeps the invariant.      *)
LEMMA SenderSafety == SafetyInv /\ (Sender \/ SpuriousWakeup) => SafetyInv'
<1> SUFFICES ASSUME SafetyInv, Sender \/ SpuriousWakeup PROVE SafetyInv'
  OBVIOUS
<1> USE UdpAssumption DEF SafetyInv, TypeOK, MutexInv, StartInv, MadeInv, HeldInv,
        NoPopFromEmpty, At, Goto, Lock, Unlock, Signal, Threads, MainLabels, DqLabels, SenderLabels,
        threadVars, flagVars, packetVars
<1>1. CASE SenderStart
  BY <1>1 DEF SenderStart
<1>2. CASE SenderLoop
  BY <1>2 DEF SenderLoop
<1>3. CASE SenderLock
  BY <1>3 DEF SenderLock
<1>4. CASE SenderCheck
  BY <1>4 DEF SenderCheck
<1>5. CASE SenderWait
  BY <1>5 DEF SenderWait
<1>6. CASE SenderWake
  BY <1>6 DEF SenderWake
<1>7. CASE SpuriousWakeup
  <2>1. sleeping' = FALSE
    BY <1>7 DEF SpuriousWakeup
  <2>2. UNCHANGED <<pc, mutex, flagVars, packetVars>>
    BY <1>7 DEF SpuriousWakeup
  <2>3. TypeOK'
    <3>1. /\ mutex' \in Threads \cup {"none"}
          /\ running' \in BOOLEAN /\ stop' \in BOOLEAN
          /\ sockOpen' \in BOOLEAN /\ late' \in BOOLEAN
          /\ queue' \in Seq(1..MaxPackets) /\ wire' \in Seq(1..MaxPackets)
          /\ held' \in 0..MaxPackets /\ made' \in 0..MaxPackets
          /\ freed' \subseteq 1..MaxPackets
          /\ pc' \in [Threads -> MainLabels \cup DqLabels \cup SenderLabels]
          /\ pc'["main"] \in MainLabels
          /\ pc'["dq"] \in DqLabels
          /\ pc'["udp"] \in SenderLabels
      BY <2>2
    <3>2. sleeping' \in BOOLEAN
      BY <2>1, Zenon
    <3> QED
      BY <3>1, <3>2, Zenon DEF TypeOK
  <2>4. MutexInv' /\ StartInv' /\ MadeInv' /\ HeldInv' /\ NoPopFromEmpty'
    BY <2>2
  <2> QED
    BY <2>3, <2>4
<1>8. CASE SenderStopped
  BY <1>8 DEF SenderStopped
<1>9. CASE SenderPop
  <2>1. Head(queue) \in 1..MaxPackets /\ Tail(queue) \in Seq(1..MaxPackets)
    BY <1>9, HeadTailType DEF SenderPop
  <2> QED
    BY <1>9, <2>1 DEF SenderPop
<1>10. CASE SenderUnlock
  BY <1>10 DEF SenderUnlock
<1>11. CASE SenderSend
  <2>1. wire' \in Seq(1..MaxPackets)
    <3>1. held \in 1..MaxPackets
      BY <1>11 DEF SenderSend
    <3>2. Append(wire, held) \in Seq(1..MaxPackets)
      BY <3>1, AppendProperties
    <3> QED
      BY <1>11, <3>2 DEF SenderSend
  <2> QED
    BY <1>11, <2>1 DEF SenderSend
<1>12. CASE SenderFree
  BY <1>12 DEF SenderFree
<1>13. CASE SenderExit
  BY <1>13, ZenonT(40) DEF SenderExit
<1> QED
  BY <1>1, <1>2, <1>3, <1>4, <1>5, <1>6, <1>7, <1>8, <1>9, <1>10, <1>11, <1>12, <1>13
     DEF Sender

(* The invariant is inductive: no interleaving of the three threads breaks it. *)
LEMMA StepSafety == SafetyInv /\ [Next]_vars => SafetyInv'
<1> SUFFICES ASSUME SafetyInv, [Next]_vars PROVE SafetyInv'
  OBVIOUS
<1>1. CASE Next
  BY <1>1, MainSafety, DqSafety, SenderSafety DEF Next
<1>2. CASE UNCHANGED vars
  BY <1>2 DEF vars, threadVars, flagVars, packetVars, SafetyInv, TypeOK, MutexInv,
     StartInv, MadeInv, HeldInv, NoPopFromEmpty, At
<1> QED
  BY <1>1, <1>2

THEOREM SafetyInvariant == Spec => []SafetyInv
<1>1. Init => SafetyInv
  BY InitSafety
<1>2. SafetyInv /\ [Next]_vars => SafetyInv'
  BY StepSafety
<1> QED
  BY <1>1, <1>2, PTL DEF Spec

(* The variables keep their types; in particular what is queued, sent and       *)
(* deleted is always a packet that was allocated, never a null pointer.         *)
THEOREM TypeCorrect == Spec => []TypeOK
<1>1. SafetyInv => TypeOK
  BY DEF SafetyInv
<1> QED
  BY <1>1, SafetyInvariant, PTL

(* udpSenderThread never takes the front of an empty queue, although it tests   *)
(* the stop flag, which main sets without the mutex, twice.                     *)
THEOREM PopsOnlyQueued == Spec => []NoPopFromEmpty
<1>1. SafetyInv => NoPopFromEmpty
  BY DEF SafetyInv
<1> QED
  BY <1>1, SafetyInvariant, PTL

-----------------------------------------------------------------------------
(* Why no datagram is sent on a closed socket when the DQ thread ended in time. *)
(* UDP_THREAD_RUNNING is set by the sender itself, so cleanupUDP may find it    *)
(* FALSE while the sender exists.  But a packet is made only after the sender   *)
(* has set it, so a sender that cleanupUDP does not join never gets a packet.   *)
RunningInv == /\ running <=> pc["udp"] \notin {"off", "start", "dead"}
              /\ pc["udp"] \in {"off", "start"} => made = 0
              /\ made = 0 => queue = << >> /\ held = 0

CleanupInv == /\ pc["main"] \in {"spawn", "stream", "setstop", "signal", "join"} => sockOpen
              /\ pc["main"] \in {"setstop", "signal", "join", "lock", "drain", "close", "done"}
                   /\ ~late => pc["dq"] = "done"
              /\ pc["main"] \in {"lock", "drain", "close", "done"}
                   /\ ~late => pc["udp"] = "dead" \/ made = 0

JoinInv == RunningInv /\ CleanupInv

LEMMA InitJoin == Init => JoinInv
BY DEF Init, JoinInv, RunningInv, CleanupInv, Threads

LEMMA MainJoin == SafetyInv /\ JoinInv /\ Main => JoinInv'
<1> SUFFICES ASSUME SafetyInv, JoinInv, Main PROVE JoinInv'
  OBVIOUS
<1> USE UdpAssumption DEF SafetyInv, TypeOK, StartInv, JoinInv, RunningInv, CleanupInv,
        At, Goto, Lock, Unlock, Threads, MainLabels, DqLabels, SenderLabels,
        threadVars, flagVars, packetVars
<1>1. CASE CreateSocket
  BY <1>1 DEF CreateSocket
<1>2. CASE SpawnSender
  BY <1>2 DEF SpawnSender
<1>3. CASE BeginCleanup
  BY <1>3 DEF BeginCleanup
<1>4. CASE SetStop
  BY <1>4 DEF SetStop
<1>5. CASE SignalStop
  BY <1>5 DEF SignalStop
<1>6. CASE Join
  BY <1>6 DEF Join
<1>7. CASE DrainLock
  BY <1>7 DEF DrainLock
<1>8. CASE DrainOne
  <2>1. made # 0
    BY <1>8 DEF DrainOne
  <2> QED
    BY <1>8, <2>1 DEF DrainOne
<1>9. CASE DrainUnlock
  BY <1>9 DEF DrainUnlock
<1>10. CASE CloseSocket
  BY <1>10 DEF CloseSocket
<1> QED
  BY <1>1, <1>2, <1>3, <1>4, <1>5, <1>6, <1>7, <1>8, <1>9, <1>10 DEF Main, CleanupStep

LEMMA DqJoin == SafetyInv /\ JoinInv /\ Dq => JoinInv'
<1> SUFFICES ASSUME SafetyInv, JoinInv, Dq PROVE JoinInv'
  OBVIOUS
<1> USE UdpAssumption DEF SafetyInv, TypeOK, MadeInv, JoinInv, RunningInv, CleanupInv,
        At, Goto, Lock, Unlock, Threads, MainLabels, DqLabels, SenderLabels,
        threadVars, flagVars, packetVars
<1>1. CASE OfferPacket
  BY <1>1 DEF OfferPacket
<1>2. CASE PushLock
  BY <1>2 DEF PushLock
<1>3. CASE Push
  <2>1. made # 0
    BY <1>3 DEF Push
  <2> QED
    BY <1>3, <2>1 DEF Push
<1>4. CASE PushSignal
  BY <1>4 DEF PushSignal
<1>5. CASE PushUnlock
  BY <1>5 DEF PushUnlock
<1>6. CASE EndOfStream
  BY <1>6 DEF EndOfStream
<1> QED
  BY <1>1, <1>2, <1>3, <1>4, <1>5, <1>6 DEF Dq, PushStep

LEMMA SenderJoin == SafetyInv /\ JoinInv /\ (Sender \/ SpuriousWakeup) => JoinInv'
<1> SUFFICES ASSUME SafetyInv, JoinInv, Sender \/ SpuriousWakeup PROVE JoinInv'
  OBVIOUS
<1> USE UdpAssumption DEF SafetyInv, TypeOK, NoPopFromEmpty, JoinInv, RunningInv,
        CleanupInv, At, Goto, Lock, Unlock, Threads, MainLabels, DqLabels, SenderLabels,
        threadVars, flagVars, packetVars
<1>1. CASE SenderStart
  BY <1>1 DEF SenderStart
<1>2. CASE SenderLoop
  BY <1>2 DEF SenderLoop
<1>3. CASE SenderLock
  BY <1>3 DEF SenderLock
<1>4. CASE SenderCheck
  BY <1>4 DEF SenderCheck
<1>5. CASE SenderWait
  BY <1>5 DEF SenderWait
<1>6. CASE SenderWake
  BY <1>6 DEF SenderWake
<1>7. CASE SpuriousWakeup
  BY <1>7 DEF SpuriousWakeup
<1>8. CASE SenderStopped
  BY <1>8 DEF SenderStopped
<1>9. CASE SenderPop
  <2>1. made # 0
    BY <1>9 DEF SenderPop
  <2> QED
    BY <1>9, <2>1 DEF SenderPop
<1>10. CASE SenderUnlock
  BY <1>10 DEF SenderUnlock
<1>11. CASE SenderSend
  BY <1>11 DEF SenderSend
<1>12. CASE SenderFree
  BY <1>12 DEF SenderFree
<1>13. CASE SenderExit
  BY <1>13 DEF SenderExit
<1> QED
  BY <1>1, <1>2, <1>3, <1>4, <1>5, <1>6, <1>7, <1>8, <1>9, <1>10, <1>11, <1>12, <1>13
     DEF Sender

(* The sender never sends on the socket cleanupUDP closed, whether or not       *)
(* cleanupUDP joined it, provided the DQ thread ended in time.                  *)
THEOREM NoSendAfterClose == Spec => []SendOnOpenSocket
<1>1. Init => SafetyInv /\ JoinInv
  BY InitSafety, InitJoin
<1>2. SafetyInv /\ JoinInv /\ [Next]_vars => (SafetyInv /\ JoinInv)'
  <2> SUFFICES ASSUME SafetyInv, JoinInv, [Next]_vars PROVE (SafetyInv /\ JoinInv)'
    OBVIOUS
  <2>1. SafetyInv'
    BY StepSafety
  <2>2. CASE Next
    BY <2>1, <2>2, MainJoin, DqJoin, SenderJoin DEF Next
  <2>3. CASE UNCHANGED vars
    BY <2>1, <2>3 DEF vars, threadVars, flagVars, packetVars, JoinInv, RunningInv, CleanupInv
  <2> QED
    BY <2>2, <2>3
<1>3. SafetyInv /\ JoinInv => SendOnOpenSocket
  BY DEF SafetyInv, TypeOK, StartInv, HeldInv, JoinInv, RunningInv, CleanupInv,
     SendOnOpenSocket, At, MainLabels
<1> QED
  BY <1>1, <1>2, <1>3, PTL DEF Spec

-----------------------------------------------------------------------------
(* Packets are numbered in the order they are made, so the queue is a run of      *)
(* consecutive numbers up to the last one pushed, the sender's packet is older,   *)
(* and all older ones but that are deleted.  OrderInv says so; that each packet   *)
(* has one owner follows by arithmetic.                                           *)
Pushed == IF pc["dq"] \in {"lock", "push"} THEN made - 1 ELSE made
Gone == Pushed - Len(queue)

OrderInv == /\ Gone \in Nat
            /\ RunFrom(queue, Gone)
            /\ held <= Gone
            /\ freed = (1..Gone) \ {held}

(* After the drain nobody queues a packet, unless the DQ thread is late.          *)
DrainedInv == pc["main"] \in {"close", "done"} /\ ~late => queue = << >>

OwnInv == SafetyInv /\ JoinInv /\ OrderInv /\ DrainedInv

(* What OrderInv and DrainedInv depend on.                                        *)
LEMMA OrderFrame ==
  ASSUME SafetyInv, OrderInv, UNCHANGED <<queue, held, freed>>, Pushed' = Pushed
  PROVE  OrderInv'
BY DEF OrderInv, Gone, RunFrom

LEMMA InitOrder == Init => OrderInv /\ DrainedInv
<1> SUFFICES ASSUME Init PROVE OrderInv /\ DrainedInv
  OBVIOUS
<1>1. pc["main"] = "init" /\ Pushed = 0 /\ queue = << >> /\ Len(queue) = 0
  BY DEF Init, Threads, Pushed
<1>2. Pushed = 0 /\ Len(queue) = 0
  BY <1>1
<1>3. Gone = 0
  BY <1>2 DEF Gone
<1> QED
  BY <1>1, <1>3 DEF Init, OrderInv, RunFrom, DrainedInv

LEMMA MainOrder == OwnInv /\ Main => OrderInv'
<1> SUFFICES ASSUME OwnInv, Main PROVE OrderInv'
  OBVIOUS
<1>1. CASE DrainOne
  <2>1. /\ queue # << >> /\ queue' = Tail(queue) /\ freed' = freed \cup {Head(queue)}
        /\ held' = held /\ Pushed' = Pushed
    BY <1>1 DEF DrainOne, Pushed, threadVars
  <2>2. queue \in Seq(1..MaxPackets) /\ held \in Nat /\ Pushed \in Int
    BY UdpAssumption DEF OwnInv, SafetyInv, TypeOK, Pushed
  <2>3. /\ Gone \in Nat /\ RunFrom(queue, Gone) /\ held <= Gone
        /\ freed = (1..Gone) \ {held}
    BY DEF OwnInv, OrderInv
  <2>4. /\ Head(queue) = Gone + 1 /\ Len(queue) \in Nat
        /\ Len(queue') = Len(queue) - 1 /\ RunFrom(queue', Gone + 1)
    BY <2>1, <2>2, <2>3, RunPop
  <2>5. Gone' = Gone + 1
    BY <2>1, <2>2, <2>4 DEF Gone
  <2>6. freed' = (1..Gone') \ {held'}
    BY <2>1, <2>2, <2>3, <2>4, <2>5
  <2> QED
    BY <2>1, <2>2, <2>3, <2>4, <2>5, <2>6 DEF OrderInv, RunFrom
<1>2. ASSUME ~DrainOne
      PROVE  UNCHANGED <<queue, held, freed>> /\ Pushed' = Pushed
  BY <1>2 DEF OwnInv, SafetyInv, StartInv, TypeOK, Threads, MainLabels, Main, CleanupStep,
     CreateSocket, SpawnSender, BeginCleanup, SetStop, SignalStop, Join, DrainLock,
     DrainUnlock, CloseSocket, Pushed, At, Goto, Lock, Unlock, packetVars
<1> QED
  BY <1>1, <1>2, OrderFrame DEF OwnInv

LEMMA DqOrder == OwnInv /\ Dq => OrderInv'
<1> SUFFICES ASSUME OwnInv, Dq PROVE OrderInv'
  OBVIOUS
<1> USE DEF At, Goto, Lock, Unlock
<1>0. /\ pc \in [Threads -> MainLabels \cup DqLabels \cup SenderLabels]
      /\ made \in Nat /\ "dq" \in Threads
  BY UdpAssumption DEF OwnInv, SafetyInv, TypeOK, Threads
<1>1. CASE Push
  <2>1. /\ queue' = Append(queue, made) /\ UNCHANGED <<held, freed>>
        /\ Pushed = made - 1 /\ Pushed' = made
    BY <1>0, <1>1 DEF Push, Pushed
  <2>2. queue \in Seq(1..MaxPackets) /\ made \in 1..MaxPackets /\ Len(queue) \in Nat
    BY <1>1, UdpAssumption, LenProperties DEF Push, OwnInv, SafetyInv, TypeOK, MadeInv
  <2>3. Gone \in Nat /\ RunFrom(queue, Gone) /\ Gone = made - 1 - Len(queue)
    BY <2>1 DEF OwnInv, OrderInv, Gone
  <2>4. made = Gone + Len(queue) + 1
    BY <2>2, <2>3
  <2>5. Len(queue') = Len(queue) + 1 /\ RunFrom(queue', Gone)
    BY <2>1, <2>2, <2>3, <2>4, RunPush, ZenonT(40)
  <2>6. Gone' = Gone
    BY <2>1, <2>2, <2>3, <2>5 DEF Gone
  <2> QED
    BY <2>1, <2>3, <2>5, <2>6 DEF OwnInv, OrderInv, RunFrom
<1>2. CASE OfferPacket
  BY <1>0, <1>2, OrderFrame DEF OfferPacket, Pushed, OwnInv
<1>3. CASE PushLock
  BY <1>0, <1>3, OrderFrame DEF PushLock, Pushed, OwnInv, packetVars
<1>4. CASE PushSignal \/ PushUnlock \/ EndOfStream
  BY <1>0, <1>4, OrderFrame DEF PushSignal, PushUnlock, EndOfStream, Pushed, OwnInv,
     packetVars
<1> QED
  BY <1>1, <1>2, <1>3, <1>4 DEF Dq, PushStep

LEMMA SenderOrder == OwnInv /\ (Sender \/ SpuriousWakeup) => OrderInv'
<1> SUFFICES ASSUME OwnInv, Sender \/ SpuriousWakeup PROVE OrderInv'
  OBVIOUS
<1>0. /\ queue \in Seq(1..MaxPackets) /\ held \in Nat /\ Pushed \in Int
      /\ Gone \in Nat /\ RunFrom(queue, Gone) /\ held <= Gone
      /\ freed = (1..Gone) \ {held}
  BY UdpAssumption DEF OwnInv, SafetyInv, TypeOK, OrderInv, Pushed
<1>1. Pushed' = Pushed
  BY DEF Sender, SenderStart, SenderLoop, SenderLock, SenderCheck, SenderWait, SenderWake,
     SenderStopped, SenderPop, SenderUnlock, SenderSend, SenderFree, SenderExit,
     SpuriousWakeup, Pushed, OwnInv, SafetyInv, TypeOK, Threads, Goto, Lock, Unlock,
     packetVars
<1>2. CASE SenderPop
  <2>1. /\ queue # << >> /\ queue' = Tail(queue) /\ held' = Head(queue)
        /\ freed' = freed /\ held = 0
    BY <1>2 DEF SenderPop, At, OwnInv, SafetyInv, NoPopFromEmpty, HeldInv
  <2>2. /\ Head(queue) = Gone + 1 /\ Len(queue) \in Nat
        /\ Len(queue') = Len(queue) - 1 /\ RunFrom(queue', Gone + 1)
    BY <1>0, <2>1, RunPop
  <2>3. Gone' = Gone + 1
    BY <1>0, <1>1, <2>1, <2>2 DEF Gone
  <2>4. freed' = (1..Gone') \ {held'}
    BY <1>0, <2>1, <2>2, <2>3
  <2> QED
    BY <1>0, <2>1, <2>2, <2>3, <2>4 DEF OrderInv, RunFrom
<1>3. CASE SenderFree
  <2>1. /\ queue' = queue /\ held' = 0 /\ freed' = freed \cup {held} /\ held # 0
    BY <1>3 DEF SenderFree, At, OwnInv, SafetyInv, HeldInv
  <2>2. Gone' = Gone
    BY <1>1, <2>1 DEF Gone
  <2>3. freed' = (1..Gone') \ {held'}
    BY <1>0, <2>1, <2>2
  <2> QED
    BY <1>0, <2>1, <2>2, <2>3 DEF OrderInv, RunFrom
<1>4. ASSUME ~SenderPop, ~SenderFree
      PROVE  UNCHANGED <<queue, held, freed>>
  BY <1>4 DEF Sender, SenderStart, SenderLoop, SenderLock, SenderCheck, SenderWait,
     SenderWake, SenderStopped, SenderUnlock, SenderSend, SenderExit,
     SpuriousWakeup, packetVars
<1> QED
  BY <1>1, <1>2, <1>3, <1>4, OrderFrame DEF OwnInv

LEMMA StepDrained == OwnInv /\ Next => DrainedInv'
<1> SUFFICES ASSUME OwnInv, Next, pc'["main"] \in {"close", "done"}, ~late'
             PROVE  queue' = << >>
  BY DEF DrainedInv
<1> USE DEF At, Goto, Lock, Unlock
<1>0. /\ pc \in [Threads -> MainLabels \cup DqLabels \cup SenderLabels]
      /\ Threads = {"main", "dq", "udp"}
  BY DEF OwnInv, SafetyInv, TypeOK, Threads
<1>1. CASE Main
  BY <1>0, <1>1 DEF OwnInv, DrainedInv, Main, CleanupStep, CreateSocket, SpawnSender,
     BeginCleanup, SetStop, SignalStop, Join, DrainLock, DrainOne, DrainUnlock, CloseSocket,
     packetVars, flagVars, threadVars
<1>2. CASE Dq
  <2>1. pc["main"] \in {"close", "done"} /\ ~late /\ pc["dq"] # "done"
    BY <1>0, <1>2 DEF Dq, PushStep, OfferPacket, PushLock, Push, PushSignal, PushUnlock,
       EndOfStream, flagVars
  <2> QED
    BY <2>1 DEF OwnInv, JoinInv, CleanupInv
<1>3. CASE Sender \/ SpuriousWakeup
  <2>1. pc["main"] \in {"close", "done"} /\ ~late
    BY <1>0, <1>3 DEF Sender, SenderStart, SenderLoop, SenderLock, SenderCheck, SenderWait,
       SenderWake, SenderStopped, SenderPop, SenderUnlock, SenderSend, SenderFree,
       SenderExit, SpuriousWakeup, flagVars
  <2>2. queue = << >>
    BY <2>1 DEF OwnInv, DrainedInv
  <2>3. ~SenderPop
    BY <2>2 DEF SenderPop, OwnInv, SafetyInv, NoPopFromEmpty
  <2> QED
    BY <1>3, <2>2, <2>3 DEF Sender, SenderStart, SenderLoop, SenderLock, SenderCheck,
       SenderWait, SenderWake, SenderStopped, SenderUnlock, SenderSend, SenderFree,
       SenderExit, SpuriousWakeup, packetVars
<1> QED
  BY <1>1, <1>2, <1>3 DEF Next

LEMMA OrderIsOwnership == OwnInv => PacketOwnedOnce
<1> SUFFICES ASSUME OwnInv PROVE PacketOwnedOnce
  OBVIOUS
<1>1. /\ queue \in Seq(1..MaxPackets) /\ held \in Nat /\ made \in Nat /\ Len(queue) \in Nat
      /\ Pushed \in Int
  BY UdpAssumption, LenProperties DEF OwnInv, SafetyInv, TypeOK, Pushed
<1>2. /\ Gone \in Nat /\ RunFrom(queue, Gone) /\ held <= Gone
      /\ freed = (1..Gone) \ {held} /\ Gone + Len(queue) = Pushed
  BY <1>1 DEF OwnInv, OrderInv, Gone
<1>3. /\ Elements(queue) = (Gone + 1)..Pushed
      /\ \A i, j \in 1..Len(queue) : queue[i] = queue[j] => i = j
  BY <1>1, <1>2, RunElements DEF Elements
<1>4. \/ DqOwns = {made} /\ Pushed = made - 1
      \/ DqOwns = {} /\ Pushed = made
  BY DEF DqOwns, Pushed
<1>5. \/ held = 0 /\ SenderOwns = {} /\ freed = 1..Gone
      \/ held # 0 /\ SenderOwns = {held} /\ freed = (1..Gone) \ {held}
  BY <1>1, <1>2 DEF SenderOwns
<1>6. DqOwns \cup Elements(queue) \cup SenderOwns \cup freed = 1..made
  BY <1>1, <1>2, <1>3, <1>4, <1>5
<1>7. /\ Elements(queue) \cap (DqOwns \cup SenderOwns \cup freed) = {}
      /\ SenderOwns \cap (DqOwns \cup freed) = {}
      /\ DqOwns \cap freed = {}
  BY <1>1, <1>2, <1>3, <1>4, <1>5
<1>8. ASSUME At("main", "done"), ~late PROVE queue = << >> /\ freed = 1..made
  <2>1. queue = << >> /\ Len(queue) = 0
    BY <1>8 DEF At, OwnInv, DrainedInv
  <2>2. pc["dq"] = "done" /\ Pushed = made
    BY <1>8 DEF At, OwnInv, JoinInv, CleanupInv, Pushed
  <2>3. held = 0
    BY <1>8 DEF At, OwnInv, JoinInv, CleanupInv, RunningInv, SafetyInv, HeldInv
  <2> QED
    BY <1>1, <1>2, <2>1, <2>2, <2>3
<1> QED
  BY <1>3, <1>6, <1>7, <1>8 DEF PacketOwnedOnce

THEOREM OwnInvariant == Spec => []OwnInv
<1>1. Init => OwnInv
  BY InitSafety, InitJoin, InitOrder DEF OwnInv
<1>2. OwnInv /\ [Next]_vars => OwnInv'
  <2> SUFFICES ASSUME OwnInv, [Next]_vars PROVE OwnInv'
    OBVIOUS
  <2>1. SafetyInv /\ JoinInv /\ OrderInv /\ DrainedInv /\ SafetyInv'
    BY StepSafety DEF OwnInv
  <2>2. CASE Next
    BY <2>1, <2>2, MainJoin, DqJoin, SenderJoin, MainOrder, DqOrder, SenderOrder,
       StepDrained DEF Next, OwnInv
  <2>3. CASE UNCHANGED vars
    <3>1. JoinInv' /\ DrainedInv'
      BY <2>1, <2>3 DEF vars, threadVars, flagVars, packetVars, JoinInv, RunningInv,
         CleanupInv, DrainedInv
    <3>2. OrderInv'
      BY <2>1, <2>3, OrderFrame DEF vars, threadVars, packetVars, Pushed
    <3> QED
      BY <2>1, <3>1, <3>2 DEF OwnInv
  <2> QED
    BY <2>2, <2>3
<1> QED
  BY <1>1, <1>2, PTL DEF Spec

(* No packet leaks, is used after it was deleted or deleted twice: the encoder's   *)
(* DQ thread, the queue, the sender and cleanupUDP hand each one on exactly once,   *)
(* and cleanupUDP leaves none behind when the DQ thread ended in time.              *)
THEOREM EveryPacketOwnedOnce == Spec => []PacketOwnedOnce
BY OwnInvariant, OrderIsOwnership, PTL

-----------------------------------------------------------------------------
(* The refinement of LossyFifo.  The channel has accepted the packets pushed so    *)
(* far and holds the one in the sender's hand, until sendto, before the queue.     *)
LEMMA StutterStep ==
  ASSUME UNCHANGED <<queue, wire, InHand, Pushed>>
  PROVE  UNCHANGED Channel!chanVars
<1>1. (IF DqOwns' = {} THEN made' ELSE made' - 1) = (IF DqOwns = {} THEN made ELSE made - 1)
  BY DEF Pushed, DqOwns
<1>2. UNCHANGED <<queue, wire, InHand>>
  OBVIOUS
<1> QED
  BY <1>1, <1>2, Zenon DEF Channel!chanVars

(* Draining loses the packet at the front of the queue, behind the sender's.       *)
LEMMA DrainLoses == OwnInv /\ DrainOne => Channel!Lose
<1> SUFFICES ASSUME OwnInv, DrainOne PROVE Channel!Lose
  OBVIOUS
<1>1. /\ queue # << >> /\ queue' = Tail(queue) /\ wire' = wire
      /\ InHand' = InHand /\ Pushed' = Pushed
  BY DEF DrainOne, threadVars, InHand, Pushed
<1>2. queue \in Seq(Nat) /\ InHand \in Seq(Nat) /\ Len(InHand) \in Nat
  <2>1. queue \in Seq(1..MaxPackets) /\ held \in Nat
    BY UdpAssumption DEF OwnInv, SafetyInv, TypeOK
  <2>2. InHand \in Seq(Nat)
    BY <2>1 DEF InHand
  <2> QED
    BY <2>1, <2>2, SeqMonotonic, LenProperties, UdpAssumption
<1>3. PICK c : c = InHand \o queue
  OBVIOUS
<1>4. PICK i : i = Len(InHand) + 1
  OBVIOUS
<1>5. /\ Len(InHand) + 1 \in 1..Len(c)
      /\ SubSeq(c, 1, Len(InHand)) \o SubSeq(c, Len(InHand) + 2, Len(c)) = InHand \o Tail(queue)
  BY <1>1, <1>2, <1>3, DropBehind, Zenon
<1>6. i \in 1..Len(c) /\ i - 1 = Len(InHand) /\ i + 1 = Len(InHand) + 2
  BY <1>2, <1>4, <1>5
<1>7. InHand' \o queue' = SubSeq(c, 1, i - 1) \o SubSeq(c, i + 1, Len(c))
  BY <1>1, <1>5, <1>6, Zenon
<1>8. \E k \in 1..Len(InHand \o queue) :
         InHand' \o queue' = SubSeq(InHand \o queue, 1, k - 1)
                               \o SubSeq(InHand \o queue, k + 1, Len(InHand \o queue))
  BY <1>3, <1>6, <1>7, Zenon
<1>9. (IF DqOwns' = {} THEN made' ELSE made' - 1) = (IF DqOwns = {} THEN made ELSE made - 1)
  BY <1>1 DEF Pushed, DqOwns
<1> QED
  BY <1>1, <1>8, <1>9, Zenon DEF Channel!Lose

(* Only the DQ thread's push puts a packet into the channel.                       *)
LEMMA PushPuts == OwnInv /\ Push => Channel!Put
<1> SUFFICES ASSUME OwnInv, Push PROVE Channel!Put
  OBVIOUS
<1>1. /\ queue' = Append(queue, made) /\ wire' = wire /\ InHand' = InHand
      /\ Pushed = made - 1 /\ Pushed' = made
  BY DEF Push, At, Goto, InHand, Pushed, OwnInv, SafetyInv, TypeOK, Threads
<1>2. queue \in Seq(Nat) /\ InHand \in Seq(Nat) /\ made \in Nat /\ (made - 1) + 1 = made
  <2>1. queue \in Seq(1..MaxPackets) /\ held \in Nat /\ made \in Nat
    BY UdpAssumption DEF OwnInv, SafetyInv, TypeOK
  <2>2. InHand \in Seq(Nat)
    BY <2>1 DEF InHand
  <2> QED
    BY <2>1, <2>2, SeqMonotonic, UdpAssumption
<1>3. InHand' \o queue' = Append(InHand \o queue, made)
  BY <1>1, <1>2, AppendRight, SMTT(40)
<1>4. /\ (IF DqOwns = {} THEN made ELSE made - 1) = made - 1
      /\ (IF DqOwns' = {} THEN made' ELSE made' - 1) = made
  BY <1>1 DEF Pushed, DqOwns
<1> QED
  BY <1>1, <1>2, <1>3, <1>4, Zenon DEF Channel!Put

(* Taking a packet in hand leaves the channel as it was; sendto delivers the packet *)
(* in hand, or loses it.                                                           *)
LEMMA PopStutters == OwnInv /\ SenderPop => UNCHANGED Channel!chanVars
<1> SUFFICES ASSUME OwnInv, SenderPop PROVE UNCHANGED Channel!chanVars
  OBVIOUS
<1>1. /\ queue # << >> /\ queue' = Tail(queue) /\ wire' = wire
      /\ InHand = << >> /\ InHand' = <<Head(queue)>> /\ Pushed' = Pushed
  BY DEF SenderPop, At, Goto, InHand, Pushed, OwnInv, SafetyInv, TypeOK, Threads, NoPopFromEmpty
<1>2. queue \in Seq(1..MaxPackets)
  BY DEF OwnInv, SafetyInv, TypeOK
<1>3. InHand' \o queue' = queue /\ InHand \o queue = queue
  BY <1>1, <1>2, TakeInHand, ConcatEmptySeq
<1>4. (IF DqOwns' = {} THEN made' ELSE made' - 1) = (IF DqOwns = {} THEN made ELSE made - 1)
  BY <1>1 DEF Pushed, DqOwns
<1> QED
  BY <1>1, <1>3, <1>4, Zenon DEF Channel!chanVars

LEMMA SendDelivers == OwnInv /\ SenderSend => Channel!Deliver \/ Channel!Lose
<1> SUFFICES ASSUME OwnInv, SenderSend PROVE Channel!Deliver \/ Channel!Lose
  OBVIOUS
<1>1. /\ queue' = queue /\ Pushed' = Pushed /\ InHand = <<held>> /\ InHand' = << >>
      /\ wire' = wire \/ wire' = Append(wire, held)
  BY DEF SenderSend, At, Goto, InHand, Pushed, OwnInv, SafetyInv, TypeOK, Threads
<1>2. queue \in Seq(1..MaxPackets) /\ held \in 1..MaxPackets
  BY UdpAssumption DEF SenderSend, At, OwnInv, SafetyInv, TypeOK, HeldInv
<1>3. PICK c : c = InHand \o queue
  OBVIOUS
<1>4. /\ c \in Seq(1..MaxPackets) /\ c # << >> /\ Head(c) = held /\ Tail(c) = queue
  BY <1>1, <1>2, <1>3, HandIsFront, ZenonT(40)
<1>5. InHand' \o queue' = Tail(c)
  BY <1>1, <1>2, <1>4, ConcatEmptySeq
<1>6. (IF DqOwns' = {} THEN made' ELSE made' - 1) = (IF DqOwns = {} THEN made ELSE made - 1)
  BY <1>1 DEF Pushed, DqOwns
<1>7. CASE wire' = Append(wire, held)
  BY <1>3, <1>4, <1>5, <1>6, <1>7, Zenon DEF Channel!Deliver
<1>8. CASE wire' = wire
  <2>1. /\ 1 \in 1..Len(c)
        /\ SubSeq(c, 1, 1 - 1) \o SubSeq(c, 1 + 1, Len(c)) = Tail(c)
    BY <1>4, DropFront
  <2>2. \E k \in 1..Len(c) : InHand' \o queue' = SubSeq(c, 1, k - 1) \o SubSeq(c, k + 1, Len(c))
    BY <1>5, <2>1, Zenon
  <2> QED
    BY <1>3, <1>6, <1>8, <2>2, Zenon DEF Channel!Lose
<1> QED
  BY <1>1, <1>7, <1>8

LEMMA ChannelStep == OwnInv /\ [Next]_vars => [Channel!Next]_(Channel!chanVars)
<1> SUFFICES ASSUME OwnInv, [Next]_vars PROVE [Channel!Next]_(Channel!chanVars)
  OBVIOUS
<1>1. CASE DrainOne \/ Push \/ SenderPop \/ SenderSend
  BY <1>1, DrainLoses, PushPuts, PopStutters, SendDelivers DEF Channel!Next
<1>2. ASSUME ~DrainOne, ~Push, ~SenderPop, ~SenderSend
      PROVE  UNCHANGED Channel!chanVars
  <2> USE DEF InHand, Pushed, OwnInv, SafetyInv, TypeOK, Threads, At, Goto, Lock, Unlock,
          threadVars, flagVars, packetVars
  <2>1. CASE Main
    <3>1. UNCHANGED <<queue, wire, InHand, Pushed>>
      BY <1>2, <2>1 DEF Main, CleanupStep, CreateSocket, SpawnSender, BeginCleanup, SetStop,
         SignalStop, Join, DrainLock, DrainUnlock, CloseSocket, StartInv
    <3> QED
      BY <3>1, StutterStep
  <2>2. CASE Dq
    <3>1. UNCHANGED <<queue, wire, InHand, Pushed>>
      BY <1>2, <2>2, UdpAssumption DEF Dq, PushStep, OfferPacket, PushLock, PushSignal, PushUnlock,
         EndOfStream
    <3> QED
      BY <3>1, StutterStep
  <2>3. CASE Sender \/ SpuriousWakeup
    <3>1. UNCHANGED <<queue, wire, InHand, Pushed>>
      BY <1>2, <2>3 DEF Sender, SenderStart, SenderLoop, SenderLock, SenderCheck, SenderWait,
         SenderWake, SenderStopped, SenderUnlock, SenderFree, SenderExit, SpuriousWakeup
    <3> QED
      BY <3>1, StutterStep
  <2>4. CASE UNCHANGED vars
    <3>1. UNCHANGED <<queue, wire, InHand, Pushed>>
      BY <2>4 DEF vars
    <3> QED
      BY <3>1, StutterStep
  <2> QED
    BY <2>1, <2>2, <2>3, <2>4 DEF Next
<1> QED
  BY <1>1, <1>2

(* To the encoder the sender is a lossy FIFO: whatever the interleaving of the       *)
(* three threads, failed sends and the drain of cleanupUDP, packets reach the network *)
(* in the order they were pushed and at most once.                                   *)
THEOREM SenderImplementsChannel == Spec => ImplementsChannel
<1>1. Init => Channel!Init
  <2> SUFFICES ASSUME Init PROVE Channel!Init
    OBVIOUS
  <2>1. made = 0 /\ DqOwns = {} /\ InHand = << >> /\ queue = << >> /\ wire = << >>
    BY DEF Init, Threads, DqOwns, InHand
  <2>2. << >> \o << >> = << >>
    BY ConcatEmptySeq, EmptySeq
  <2> QED
    BY <2>1, <2>2, Zenon DEF Channel!Init
<1>2. OwnInv /\ [Next]_vars => [Channel!Next]_(Channel!chanVars)
  BY ChannelStep
<1> QED
  BY <1>1, <1>2, OwnInvariant, PTL DEF Spec, ImplementsChannel, Channel!Spec
=============================================================================
