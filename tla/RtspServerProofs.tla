-------------------------- MODULE RtspServerProofs --------------------------
(* Proofs about RtspServer for every set of clients, descriptors and requests, *)
(* and whether or not clients vanish and sends fail.                           *)
EXTENDS RtspServer, TLAPS

(* The part of the types the map properties need.                              *)
MapTypes == /\ hpc \in [Clients -> HandlerLabels]
            /\ hfd \in [Clients -> Fds \cup {NoFd}]
            /\ \A c \in Clients : hpc[c] # "none" => hfd[c] \in Fds
            /\ sess \in [Clients -> SessionType]
            /\ clients \in [Fds -> SessionType]

(* A handler's session carries its client from the moment it is accepted.      *)
OwnSession == \A c \in Clients : hpc[c] # "none" => sess[c].who = c

MapInv == MapTypes /\ OwnSession /\ NoGhostSessions /\ MapMatchesHandler

LEMMA InitMap == Init => MapInv
BY RtspAssumption DEF Init, MapInv, MapTypes, OwnSession, NoGhostSessions,
   MapMatchesHandler, HandlerLabels, SessionType, NoSession, Session

(* Writing a session, the handler's own or none, under its descriptor.         *)
LEMMA AcceptMap == ASSUME NEW c \in Clients, MapInv, Accept(c) PROVE MapInv'
BY RtspAssumption DEF Accept, Goto, MapInv, MapTypes, OwnSession, NoGhostSessions,
   MapMatchesHandler, HandlerLabels, SessionType, Session, NoFd

LEMMA WriteMap == ASSUME NEW c \in Clients, MapInv, EnterMap(c) \/ UpdateMap(c) PROVE MapInv'
<1> USE RtspAssumption DEF Goto, MapInv, MapTypes, OwnSession, NoGhostSessions,
        MapMatchesHandler, HandlerLabels, SessionType, Session, NoSession
<1>1. CASE EnterMap(c)
  BY <1>1 DEF EnterMap
<1>2. CASE UpdateMap(c)
  BY <1>2 DEF UpdateMap
<1> QED
  BY <1>1, <1>2

LEMMA CleanupMap == ASSUME NEW c \in Clients, MapInv, Cleanup(c) PROVE MapInv'
BY RtspAssumption DEF Cleanup, Goto, MapInv, MapTypes, OwnSession, NoGhostSessions,
   MapMatchesHandler, HandlerLabels, SessionType, Session, NoSession

(* Changing the session copy opens the window MapMatchesHandler allows.        *)
LEMMA SessionMap ==
  ASSUME NEW c \in Clients, MapInv, SetupTcp(c) \/ SetupUdp(c) \/ PlayOrTeardown(c)
  PROVE  MapInv'
<1> USE RtspAssumption DEF Goto, MapInv, MapTypes, OwnSession, NoGhostSessions,
        MapMatchesHandler, HandlerLabels, SessionType
<1>1. CASE SetupTcp(c)
  BY <1>1 DEF SetupTcp, serverVars
<1>2. CASE SetupUdp(c)
  BY <1>2 DEF SetupUdp
<1>3. CASE PlayOrTeardown(c)
  <2>1. PICK b \in BOOLEAN : sess' = [sess EXCEPT ![c].playing = b]
    BY <1>3, Zenon DEF PlayOrTeardown
  <2>2. /\ hpc[c] = "act" /\ hpc' = [hpc EXCEPT ![c] = "update"]
        /\ UNCHANGED <<hfd, clients>>
    BY <1>3 DEF PlayOrTeardown, serverVars
  <2> QED
    BY <2>1, <2>2
<1> QED
  BY <1>1, <1>2, <1>3

(* The other steps of a handler leave its session and the map alone.           *)
LEMMA OtherHandlerMap ==
  ASSUME NEW c \in Clients, MapInv,
         \/ EnterRecv(c) \/ SkipBinary(c) \/ (\E w \in Clients, r \in Requests : Receive(c, w, r))
         \/ RecvEnds(c) \/ Answer(c) \/ Respond(c) \/ CloseConnection(c)
  PROVE  MapInv'
<1> USE RtspAssumption DEF Goto, MapInv, MapTypes, OwnSession, NoGhostSessions,
        MapMatchesHandler, HandlerLabels, SessionType, serverVars
<1>1. CASE EnterRecv(c)
  BY <1>1 DEF EnterRecv
<1>2. CASE \E w \in Clients, r \in Requests : Receive(c, w, r)
  BY <1>2 DEF Receive
<1>3. CASE RecvEnds(c)
  BY <1>3 DEF RecvEnds
<1>7. CASE SkipBinary(c)
  BY <1>7 DEF SkipBinary
<1>4. CASE Answer(c)
  BY <1>4 DEF Answer
<1>5. CASE Respond(c)
  BY <1>5 DEF Respond
<1>6. CASE CloseConnection(c)
  BY <1>6 DEF CloseConnection
<1> QED
  BY <1>1, <1>2, <1>3, <1>4, <1>5, <1>6, <1>7

LEMMA SenderMap == ASSUME MapInv, Sender PROVE MapInv'
<1> USE DEF MapInv, MapTypes, OwnSession, NoGhostSessions, MapMatchesHandler,
        handlerVars, serverVars
<1>1. CASE SendPacket
  BY <1>1 DEF SendPacket
<1>2. CASE PacketSent
  BY <1>2 DEF PacketSent
<1>3. ASSUME NEW f \in Fds, SendDatagram(f) PROVE MapInv'
  BY <1>3 DEF SendDatagram
<1>4. ASSUME NEW f \in Fds, SendHeader(f) PROVE MapInv'
  BY <1>4 DEF SendHeader
<1>5. ASSUME NEW f \in Fds, SendData(f) PROVE MapInv'
  BY <1>5 DEF SendData
<1>6. ASSUME NEW f \in Fds, RemoveDead(f) PROVE MapInv'
  BY <1>6, RtspAssumption DEF RemoveDead, SessionType, Session, NoSession
<1> QED
  BY <1>1, <1>2, <1>3, <1>4, <1>5, <1>6 DEF Sender

LEMMA StepMap == MapInv /\ [Next]_vars => MapInv'
<1> SUFFICES ASSUME MapInv, [Next]_vars PROVE MapInv'
  OBVIOUS
<1>1. ASSUME NEW c \in Clients, Accept(c) PROVE MapInv'
  BY <1>1, AcceptMap
<1>2. ASSUME NEW c \in Clients, Leave(c) PROVE MapInv'
  BY <1>2 DEF Leave, handlerVars, serverVars, MapInv, MapTypes, OwnSession,
     NoGhostSessions, MapMatchesHandler
<1>3. ASSUME NEW c \in Clients, Handler(c) PROVE MapInv'
  BY <1>3, WriteMap, CleanupMap, SessionMap, OtherHandlerMap DEF Handler
<1>4. CASE Sender
  BY <1>4, SenderMap
<1>5. CASE UNCHANGED vars
  BY <1>5 DEF vars, handlerVars, serverVars, MapInv, MapTypes, OwnSession,
     NoGhostSessions, MapMatchesHandler
<1> QED
  BY <1>1, <1>2, <1>3, <1>4, <1>5 DEF Next

THEOREM MapInvariant == Spec => []MapInv
<1>1. Init => MapInv
  BY InitMap
<1>2. MapInv /\ [Next]_vars => MapInv'
  BY StepMap
<1> QED
  BY <1>1, <1>2, PTL DEF Spec

(* No entry of the clients map outlives the handler that made it, even when     *)
(* clients vanish, sends fail and descriptors are handed out anew.              *)
THEOREM SessionsEndWithHandlers == Spec => []NoGhostSessions
<1>1. MapInv => NoGhostSessions
  BY DEF MapInv
<1> QED
  BY <1>1, MapInvariant, PTL

(* The sender acts on the transport and play state the handler last published.  *)
THEOREM SenderSeesSession == Spec => []MapMatchesHandler
<1>1. MapInv => MapMatchesHandler
  BY DEF MapInv
<1> QED
  BY <1>1, MapInvariant, PTL

-----------------------------------------------------------------------------
(* The rest of the types: the descriptors, the requests, the sender, the peers. *)
RestTypes == /\ req \in [Clients -> KnownRequests]
             /\ target \in [Clients -> Clients \cup {NoClient}]
             /\ file \in [Fds -> [kind : {"free", "conn", "dgram"},
                                  who : Clients \cup {NoClient}]]
             /\ mutex \in BOOLEAN /\ spc \in {"idle", "send", "data"}
             /\ todo \subseteq Fds /\ dead \subseteq Fds
             /\ alive \in [Clients -> BOOLEAN] /\ budget \in 0..MaxRequests
             /\ abrupt \in BOOLEAN
             /\ wants \in [Clients -> BOOLEAN]
             /\ stream \in [Clients -> {"clean", "header", "broken"}]

LEMMA HandlerTypes ==
  ASSUME NEW c \in Clients, MapInv, RestTypes, Accept(c) \/ Leave(c) \/ Handler(c)
  PROVE  RestTypes'
<1> USE RtspAssumption DEF RestTypes, File, Conn, Dgram, Free, Closed, handlerVars, serverVars,
        senderVars, peerVars
<1>1. CASE Accept(c)
  BY <1>1 DEF Accept
<1>2. CASE Leave(c)
  <2>1. /\ alive' = [alive EXCEPT ![c] = FALSE] /\ abrupt' \in BOOLEAN
        /\ UNCHANGED <<req, target, file, mutex, spc, todo, dead, budget, wants, stream>>
    BY <1>2, Zenon DEF Leave
  <2> QED
    BY <2>1
<1>3. CASE EnterMap(c) \/ SkipBinary(c) \/ RecvEnds(c) \/ Answer(c) \/ SetupTcp(c)
           \/ PlayOrTeardown(c) \/ UpdateMap(c)
  <2>1. UNCHANGED <<req, target, file, mutex, spc, todo, dead, alive, budget, abrupt, wants, stream>>
    BY <1>3, Zenon DEF EnterMap, SkipBinary, RecvEnds, Answer, SetupTcp, PlayOrTeardown, UpdateMap
  <2> QED
    BY <2>1
<1>4. CASE EnterRecv(c)
  <2>1. \E d \in Clients \cup {NoClient} : target' = [target EXCEPT ![c] = d]
    <3>1. ASSUME file[hfd[c]].kind = "conn" PROVE file[hfd[c]].who \in Clients \cup {NoClient}
      <4>1. hfd[c] \in Fds
        BY <1>4 DEF EnterRecv, MapInv, MapTypes
      <4> QED
        BY <4>1
    <3> QED
      BY <1>4, <3>1 DEF EnterRecv
  <2>2. UNCHANGED <<req, file, mutex, spc, todo, dead, alive, budget, abrupt, wants, stream>>
    BY <1>4, Zenon DEF EnterRecv
  <2> QED
    BY <2>1, <2>2
<1>5. ASSUME NEW w \in Clients, NEW r \in Requests, Receive(c, w, r) PROVE RestTypes'
  <2>1. /\ budget' \in 0..MaxRequests /\ req' = [req EXCEPT ![c] = r] /\ r \in KnownRequests
        /\ UNCHANGED <<target, file, mutex, spc, todo, dead, alive, abrupt, stream>>
    BY <1>5 DEF Receive
  <2>2. PICK b \in BOOLEAN : wants' = [wants EXCEPT ![w] = b]
    BY <1>5, Zenon DEF Receive
  <2> QED
    BY <2>1, <2>2
<1>6. CASE SetupUdp(c)
  BY <1>6 DEF SetupUdp
<1>7. CASE Respond(c)
  <2>1. UNCHANGED <<req, target, file, mutex, spc, todo, dead, alive, budget, abrupt>>
    BY <1>7, Zenon DEF Respond
  <2>2. CASE UNCHANGED <<stream, wants>>
    BY <2>1, <2>2
  <2>3. ASSUME NEW w \in Clients,
               stream' = [stream EXCEPT ![w] = IF @ = "clean" THEN "clean" ELSE "broken"],
               wants' = [wants EXCEPT ![w] = @ /\ req[c] # "TEARDOWN"]
        PROVE  RestTypes'
    <3>1. PICK b \in BOOLEAN : wants' = [wants EXCEPT ![w] = b]
      BY <2>3, Zenon
    <3> QED
      BY <2>1, <2>3, <3>1
  <2> QED
    BY <1>7, <2>2, <2>3, Zenon DEF Respond
<1>8. CASE Cleanup(c) \/ CloseConnection(c)
  <2>1. UNCHANGED <<req, target, mutex, spc, todo, dead, alive, budget, abrupt, wants, stream>>
    BY <1>8, Zenon DEF Cleanup, CloseConnection
  <2>2. \E s : file' = Closed(s)
    BY <1>8, Zenon DEF Cleanup, CloseConnection
  <2> QED
    BY <2>1, <2>2
<1> QED
  BY <1>1, <1>2, <1>3, <1>4, <1>5, <1>6, <1>7, <1>8, Zenon DEF Handler

LEMMA SenderTypes == ASSUME RestTypes, Sender PROVE RestTypes'
<1> USE DEF RestTypes, handlerVars, serverVars, senderVars, peerVars
<1>1. CASE SendPacket
  BY <1>1 DEF SendPacket
<1>2. CASE PacketSent
  BY <1>2 DEF PacketSent
<1>3. ASSUME NEW f \in Fds, SendDatagram(f) PROVE RestTypes'
  <2>1. /\ todo' = todo \ {f} /\ dead' \subseteq Fds /\ abrupt' \in BOOLEAN
        /\ UNCHANGED <<req, target, file, mutex, spc, alive, budget, wants>>
    <3>1. abrupt' \in BOOLEAN
      BY <1>3, Zenon DEF SendDatagram
    <3>2. /\ todo' = todo \ {f} /\ (dead' = dead \/ dead' = dead \cup {f})
          /\ UNCHANGED <<req, target, file, mutex, spc, alive, budget, wants>>
      BY <1>3, Zenon DEF SendDatagram
    <3>3. dead' \subseteq Fds
      BY <3>2
    <3> QED
      BY <3>1, <3>2, <3>3
  <2>2. stream' \in [Clients -> {"clean", "header", "broken"}]
    <3>1. \/ stream' = stream
          \/ \E w \in Clients : stream' = [stream EXCEPT ![w] = "broken"]
          \/ \E w \in Clients : stream' = [stream EXCEPT ![w] = stream[w]]
      BY <1>3, Zenon DEF SendDatagram
    <3> QED
      BY <3>1
  <2> QED
    BY <2>1, <2>2
<1>4. ASSUME NEW f \in Fds, SendHeader(f) PROVE RestTypes'
  BY <1>4 DEF SendHeader
<1>5. ASSUME NEW f \in Fds, SendData(f) PROVE RestTypes'
  BY <1>5 DEF SendData
<1>6. ASSUME NEW f \in Fds, RemoveDead(f) PROVE RestTypes'
  BY <1>6, RtspAssumption DEF RemoveDead, Closed, Free, File
<1> QED
  BY <1>1, <1>2, <1>3, <1>4, <1>5, <1>6, Zenon DEF Sender

LEMMA InitRest == Init => RestTypes
<1> SUFFICES ASSUME Init PROVE RestTypes
  OBVIOUS
<1>1. /\ req = [c \in Clients |-> "OPTIONS"] /\ target = [c \in Clients |-> NoClient]
      /\ file = [f \in Fds |-> Free] /\ budget = MaxRequests
      /\ stream = [c \in Clients |-> "clean"]
  BY DEF Init
<1>2. /\ mutex = FALSE /\ spc = "idle" /\ todo = {} /\ dead = {} /\ abrupt = FALSE
      /\ alive = [c \in Clients |-> FALSE] /\ wants = [c \in Clients |-> FALSE]
  BY DEF Init
<1>3. budget \in 0..MaxRequests
  BY <1>1, RtspAssumption
<1> QED
  BY <1>1, <1>2, <1>3 DEF RestTypes, KnownRequests, Free, File

LEMMA RestStep == MapInv /\ RestTypes /\ [Next]_vars => RestTypes'
<1>1. RestTypes /\ UNCHANGED vars => RestTypes'
  BY DEF vars, handlerVars, serverVars, senderVars, peerVars, RestTypes
<1> QED
  BY <1>1, HandlerTypes, SenderTypes DEF Next

(* Every variable has its type: for every number of descriptors, none included,  *)
(* no step reads or writes the map or the descriptor table outside them.         *)
THEOREM TypeCorrect == Spec => []TypeOK
<1>1. Init => RestTypes
  BY InitRest
<1>2. MapInv /\ RestTypes /\ [Next]_vars => RestTypes'
  BY RestStep
<1>3. Spec => []RestTypes
  BY <1>1, <1>2, MapInvariant, PTL DEF Spec
<1>4. MapInv /\ RestTypes => TypeOK
  BY DEF MapInv, MapTypes, RestTypes, TypeOK
<1> QED
  BY <1>3, <1>4, MapInvariant, PTL

-----------------------------------------------------------------------------
(* The sender: it holds the mutex from its choice of clients to its removal of   *)
(* the dead, so those it has not come to play until it does.                     *)
SenderInv == /\ mutex = (spc # "idle")
             /\ spc = "idle" => todo = {} /\ dead = {}
             /\ \A f \in todo : clients[f].playing

EntriesNamed == \A f \in Fds : clients[f].who = NoClient => clients[f] = NoSession

(* A session that is torn down neither plays nor, once published, is in the map.  *)
TornDown ==
  \A c \in Clients : req[c] = "TEARDOWN" =>
    /\ hpc[c] \in {"update", "respond"} => ~sess[c].playing
    /\ hpc[c] = "respond" => \A f \in Fds : clients[f].who # c

OrderInv == SenderInv /\ EntriesNamed /\ TornDown

(* What descriptors name and what clients know while nobody vanishes from a       *)
(* session that plays: every handler reads its own connection, a socket it opened  *)
(* stays its own until it cleans up (a leaked one too), and a client that is gone  *)
(* left between two requests and no longer plays, so that no send to it fails.      *)
Serving(c) == hpc[c] \notin {"none", "done"}
OwnConnection == \A c \in Clients : Serving(c) => file[hfd[c]] = Conn(c)
OwnSocket ==
  \A c \in Clients : hpc[c] \notin {"none", "close", "done"} /\ sess[c].rtp # NoFd
                     => file[sess[c].rtp] = Dgram(c)
EntrySocket ==
  \A f \in Fds : clients[f].rtp # NoFd => file[clients[f].rtp] = Dgram(clients[f].who)
OwnRequests == \A c \in Clients : hpc[c] = "recv" => target[c] = c
GoneQuietly ==
  \A c \in Clients : Serving(c) /\ ~alive[c] =>
    /\ hpc[c] \in {"recv", "cleanup", "close"}
    /\ \A f \in Fds : clients[f].who = c => ~clients[f].playing
PlayAsked ==
  \A c \in Clients :
    /\ hpc[c] = "act" /\ req[c] = "PLAY" => wants[c]
    /\ Serving(c) /\ sess[c].playing => wants[c]
    /\ \A f \in Fds : clients[f].who = c /\ clients[f].playing => wants[c]

Quiet == /\ dead = {} /\ OwnConnection /\ OwnSocket /\ EntrySocket
         /\ OwnRequests /\ GoneQuietly /\ PlayAsked

ServerInv == MapInv /\ RestTypes /\ OrderInv /\ (~abrupt => Quiet)

(* The parts of the state that are read at once.                                   *)
LEMMA Entries ==
  ASSUME MapInv, EntriesNamed, NEW f \in Fds
  PROVE  /\ clients[f] \in SessionType /\ clients[f].who \in Clients \cup {NoClient}
         /\ clients[f].rtp \in Fds \cup {NoFd} /\ clients[f].playing \in BOOLEAN
         /\ clients[f].playing \/ clients[f].rtp # NoFd => clients[f].who \in Clients
         /\ clients[f].who \in Clients => hfd[clients[f].who] = f /\ Serving(clients[f].who)
<1>1. /\ clients[f] \in SessionType /\ clients[f].who \in Clients \cup {NoClient}
      /\ clients[f].rtp \in Fds \cup {NoFd} /\ clients[f].playing \in BOOLEAN
  BY DEF MapInv, MapTypes, SessionType
<1>2. ASSUME clients[f].playing \/ clients[f].rtp # NoFd PROVE clients[f].who \in Clients
  BY <1>1, <1>2 DEF EntriesNamed, NoSession, Session
<1>3. clients[f].who \in Clients => hfd[clients[f].who] = f /\ Serving(clients[f].who)
  BY DEF MapInv, NoGhostSessions, Serving
<1> QED
  BY <1>1, <1>2, <1>3

LEMMA Kinds == /\ \A c, d \in Clients : Conn(c) = Conn(d) \/ Dgram(c) = Dgram(d) => c = d
               /\ \A c, d : Conn(c) # Dgram(d) /\ Conn(c) # Free /\ Dgram(c) # Free
BY DEF Conn, Dgram, Free, File

LEMMA SenderStep == ASSUME ServerInv, [Next]_vars PROVE SenderInv'
<1> USE DEF SenderInv
<1>0. SenderInv /\ MapInv /\ RestTypes /\ EntriesNamed
  BY DEF ServerInv, OrderInv
<1>1. CASE UNCHANGED <<senderVars, clients>>
  BY <1>0, <1>1 DEF senderVars
<1>2. ASSUME NEW c \in Clients, EnterMap(c) \/ UpdateMap(c) \/ Cleanup(c) PROVE SenderInv'
  <2>1. mutex = FALSE /\ UNCHANGED senderVars
    BY <1>2, Zenon DEF EnterMap, UpdateMap, Cleanup, Unlocked
  <2> QED
    BY <1>0, <2>1 DEF senderVars, RestTypes
<1>3. CASE SendPacket
  BY <1>0, <1>3 DEF SendPacket, serverVars, Unlocked
<1>4. CASE PacketSent
  BY <1>0, <1>4 DEF PacketSent, serverVars
<1>5. ASSUME NEW f \in Fds, SendDatagram(f) \/ SendHeader(f) \/ SendData(f) PROVE SenderInv'
  <2>1. /\ spc # "idle" /\ spc' # "idle" /\ todo' \subseteq todo /\ UNCHANGED <<mutex, clients>>
    BY <1>5 DEF SendDatagram, SendHeader, SendData, serverVars
  <2> QED
    BY <1>0, <2>1 DEF RestTypes
<1>6. ASSUME NEW f \in Fds, RemoveDead(f) PROVE SenderInv'
  BY <1>0, <1>6 DEF RemoveDead
<1>7. ASSUME NEW c \in Clients, Accept(c) \/ Leave(c) \/ Handler(c) PROVE SenderInv'
  <2>1. \/ UNCHANGED <<senderVars, clients>>
        \/ EnterMap(c) \/ UpdateMap(c) \/ Cleanup(c)
    BY <1>7, Zenon DEF Accept, Leave, Handler, EnterRecv, SkipBinary, Receive, RecvEnds, Answer,
       SetupTcp, SetupUdp, PlayOrTeardown, Respond, CloseConnection, serverVars
  <2> QED
    BY <1>1, <1>2, <2>1
<1>8. CASE UNCHANGED vars
  BY <1>1, <1>8 DEF vars, serverVars
<1> QED
  BY <1>3, <1>4, <1>5, <1>6, <1>7, <1>8, Zenon DEF Next, Sender

LEMMA NamedStep == ASSUME ServerInv, [Next]_vars PROVE EntriesNamed'
<1> USE DEF EntriesNamed
<1>0. MapInv /\ EntriesNamed
  BY DEF ServerInv, OrderInv
<1>1. CASE UNCHANGED clients
  BY <1>0, <1>1
<1>2. ASSUME NEW g \in Fds, clients' = [clients EXCEPT ![g] = NoSession] PROVE EntriesNamed'
  BY <1>0, <1>2 DEF MapInv, MapTypes
<1>3. ASSUME NEW c \in Clients, EnterMap(c) \/ UpdateMap(c) \/ Cleanup(c) PROVE EntriesNamed'
  <2>1. hpc[c] # "none" /\ hfd[c] \in Fds /\ sess[c].who = c /\ c # NoClient
    BY <1>0, <1>3, RtspAssumption
    DEF MapInv, MapTypes, OwnSession, EnterMap, UpdateMap, Cleanup
  <2>2. \/ clients' = [clients EXCEPT ![hfd[c]] = NoSession]
        \/ clients' = [clients EXCEPT ![hfd[c]] = sess[c]]
    BY <1>3, Zenon DEF EnterMap, UpdateMap, Cleanup
  <2> QED
    BY <1>0, <1>2, <2>1, <2>2 DEF MapInv, MapTypes
<1>4. ASSUME NEW c \in Clients, Accept(c) \/ Leave(c) \/ Handler(c) PROVE EntriesNamed'
  <2>1. UNCHANGED clients \/ EnterMap(c) \/ UpdateMap(c) \/ Cleanup(c)
    BY <1>4, Zenon DEF Accept, Leave, Handler, EnterRecv, SkipBinary, Receive, RecvEnds, Answer,
       SetupTcp, SetupUdp, PlayOrTeardown, Respond, CloseConnection, serverVars
  <2> QED
    BY <1>1, <1>3, <2>1
<1>5. CASE Sender
  <2>1. UNCHANGED clients \/ \E g \in Fds : clients' = [clients EXCEPT ![g] = NoSession]
    BY <1>5, Zenon DEF Sender, SendPacket, PacketSent, SendDatagram, SendHeader, SendData,
       RemoveDead, serverVars
  <2> QED
    BY <1>1, <1>2, <2>1
<1>6. CASE UNCHANGED vars
  BY <1>1, <1>6 DEF vars, serverVars
<1> QED
  BY <1>4, <1>5, <1>6, Zenon DEF Next

(* A step of one handler leaves the other handlers alone, and puts nothing in the   *)
(* map but its own session, under its own descriptor.                              *)
LEMMA HandlerFrame ==
  ASSUME MapInv, RestTypes, NEW c \in Clients, Accept(c) \/ Leave(c) \/ Handler(c)
  PROVE  /\ \A d \in Clients : d # c =>
              /\ hpc'[d] = hpc[d] /\ hfd'[d] = hfd[d] /\ sess'[d] = sess[d]
              /\ req'[d] = req[d] /\ target'[d] = target[d]
         /\ hpc[c] # "none" => hfd'[c] = hfd[c]
         /\ UNCHANGED senderVars
<1> USE DEF MapInv, MapTypes, RestTypes, Goto, handlerVars, senderVars
<1>1. CASE Accept(c)
  BY <1>1 DEF Accept
<1>2. CASE Leave(c)
  BY <1>2, Zenon DEF Leave
<1>3. CASE EnterMap(c) \/ SkipBinary(c) \/ RecvEnds(c) \/ Answer(c)
  BY <1>3 DEF EnterMap, SkipBinary, RecvEnds, Answer
<1>4. CASE EnterRecv(c)
  BY <1>4 DEF EnterRecv
<1>5. CASE \E w \in Clients, r \in Requests : Receive(c, w, r)
  <2>1. PICK w \in Clients, r \in Requests : Receive(c, w, r)
    BY <1>5
  <2>2. /\ hpc' = [hpc EXCEPT ![c] = "act"] /\ req' = [req EXCEPT ![c] = r]
        /\ UNCHANGED <<hfd, sess, target, senderVars>>
    BY <2>1 DEF Receive
  <2> QED
    BY <2>2
<1>6. CASE SetupTcp(c) \/ SetupUdp(c)
  BY <1>6 DEF SetupTcp, SetupUdp
<1>7. CASE PlayOrTeardown(c)
  <2>1. PICK b : sess' = [sess EXCEPT ![c].playing = b]
    BY <1>7, Zenon DEF PlayOrTeardown
  <2>2. hpc' = [hpc EXCEPT ![c] = "update"] /\ UNCHANGED <<hfd, req, target, senderVars>>
    BY <1>7 DEF PlayOrTeardown
  <2> QED
    BY <2>1, <2>2
<1>8. CASE UpdateMap(c) \/ Cleanup(c) \/ CloseConnection(c)
  BY <1>8 DEF UpdateMap, Cleanup, CloseConnection
<1>9. CASE Respond(c)
  <2>1. /\ hpc' = [hpc EXCEPT ![c] = "loop"] \/ hpc' = [hpc EXCEPT ![c] = "cleanup"]
        /\ UNCHANGED <<hfd, sess, req, target, senderVars>>
    BY <1>9, Zenon DEF Respond
  <2> QED
    BY <2>1
<1> QED
  BY <1>1, <1>2, <1>3, <1>4, <1>5, <1>6, <1>7, <1>8, <1>9, Zenon DEF Handler

LEMMA HandlerEntries ==
  ASSUME MapInv, NEW c \in Clients, Accept(c) \/ Leave(c) \/ Handler(c), NEW f \in Fds
  PROVE  \/ clients'[f] = clients[f]
         \/ clients'[f] = NoSession
         \/ /\ f = hfd[c] /\ clients'[f] = sess[c] /\ sess[c].who = c
            /\ EnterMap(c) \/ (UpdateMap(c) /\ req[c] # "TEARDOWN")
<1>1. CASE EnterMap(c) \/ UpdateMap(c) \/ Cleanup(c)
  <2>1. sess[c].who = c /\ DOMAIN clients = Fds
    BY <1>1 DEF MapInv, MapTypes, OwnSession, EnterMap, UpdateMap, Cleanup
  <2> QED
    BY <1>1, <2>1 DEF EnterMap, UpdateMap, Cleanup
<1>2. UNCHANGED clients \/ EnterMap(c) \/ UpdateMap(c) \/ Cleanup(c)
  BY Zenon DEF Accept, Leave, Handler, EnterRecv, SkipBinary, Receive, RecvEnds, Answer,
     SetupTcp, SetupUdp, PlayOrTeardown, Respond, CloseConnection, serverVars
<1> QED
  BY <1>1, <1>2

LEMMA SenderEntries ==
  ASSUME MapInv, Sender
  PROVE  UNCHANGED handlerVars /\ \A f \in Fds : clients'[f] \in {clients[f], NoSession}
<1>1. UNCHANGED handlerVars
  BY Zenon DEF Sender, SendPacket, PacketSent, SendDatagram, SendHeader, SendData, RemoveDead
<1>2. UNCHANGED clients \/ \E g \in Fds : clients' = [clients EXCEPT ![g] = NoSession]
  BY Zenon DEF Sender, SendPacket, PacketSent, SendDatagram, SendHeader, SendData, RemoveDead,
     serverVars
<1> QED
  BY <1>1, <1>2 DEF MapInv, MapTypes

LEMMA TornStep == ASSUME ServerInv, [Next]_vars PROVE TornDown'
<1>0. MapInv /\ RestTypes /\ TornDown
  BY DEF ServerInv, OrderInv
<1> SUFFICES ASSUME NEW d \in Clients, req'[d] = "TEARDOWN"
             PROVE  /\ hpc'[d] \in {"update", "respond"} => ~sess'[d].playing
                    /\ hpc'[d] = "respond" => \A f \in Fds : clients'[f].who # d
  BY DEF TornDown
<1>1. NoSession.who # d
  BY RtspAssumption DEF NoSession, Session
<1>2. ASSUME hpc'[d] = hpc[d], sess'[d] = sess[d], req'[d] = req[d],
             \A f \in Fds : clients'[f].who = d => clients'[f] = clients[f]
      PROVE  /\ hpc'[d] \in {"update", "respond"} => ~sess'[d].playing
             /\ hpc'[d] = "respond" => \A f \in Fds : clients'[f].who # d
  BY <1>0, <1>2 DEF TornDown
<1>3. ASSUME NEW c \in Clients, c # d, Accept(c) \/ Leave(c) \/ Handler(c)
      PROVE  /\ hpc'[d] \in {"update", "respond"} => ~sess'[d].playing
             /\ hpc'[d] = "respond" => \A f \in Fds : clients'[f].who # d
  <2>1. hpc'[d] = hpc[d] /\ sess'[d] = sess[d] /\ req'[d] = req[d]
    BY <1>0, <1>3, HandlerFrame
  <2>2. ASSUME NEW f \in Fds, clients'[f].who = d PROVE clients'[f] = clients[f]
    BY <1>0, <1>1, <1>3, <2>2, HandlerEntries
  <2> QED
    BY <1>2, <2>1, <2>2
<1>4. CASE UNCHANGED handlerVars /\ \A f \in Fds : clients'[f] \in {clients[f], NoSession}
  BY <1>1, <1>2, <1>4 DEF handlerVars
<1>5. CASE Leave(d)
  BY <1>2, <1>5 DEF Leave, handlerVars, serverVars
<1>6. CASE UpdateMap(d)
  <2>1. /\ hpc[d] = "update" /\ req[d] = "TEARDOWN" /\ sess'[d] = sess[d]
        /\ clients' = [clients EXCEPT ![hfd[d]] = NoSession]
    BY <1>6 DEF UpdateMap
  <2>2. ASSUME NEW f \in Fds PROVE clients'[f].who # d
    <3>1. clients[f].who = d => f = hfd[d]
      BY <1>0 DEF MapInv, NoGhostSessions
    <3> QED
      BY <1>0, <1>1, <2>1, <3>1 DEF MapInv, MapTypes
  <2> QED
    BY <1>0, <2>1, <2>2 DEF TornDown
<1>7. CASE PlayOrTeardown(d)
  <2>1. req[d] = "TEARDOWN" /\ hpc' = [hpc EXCEPT ![d] = "update"]
        /\ sess' = [sess EXCEPT ![d].playing = (req[d] = "PLAY")]
    BY <1>7 DEF PlayOrTeardown, Goto
  <2>2. hpc'[d] = "update" /\ sess'[d].playing = FALSE
    <3>1. (req[d] = "PLAY") = FALSE
      BY <2>1
    <3>2. sess[d] \in SessionType /\ DOMAIN hpc = Clients /\ DOMAIN sess = Clients
      BY <1>0 DEF MapInv, MapTypes
    <3> QED
      BY <2>1, <3>1, <3>2 DEF SessionType
  <2> QED
    BY <2>2
<1>8. CASE Accept(d) \/ EnterMap(d) \/ EnterRecv(d) \/ SkipBinary(d) \/ RecvEnds(d) \/ Cleanup(d)
           \/ CloseConnection(d)
           \/ (\E w \in Clients, r \in Requests : Receive(d, w, r)) \/ Respond(d)
  <2>1. hpc'[d] \notin {"update", "respond"}
    BY <1>0, <1>8 DEF Accept, EnterMap, EnterRecv, SkipBinary, RecvEnds, Cleanup, CloseConnection,
       Receive, Respond, Goto, MapInv, MapTypes
  <2> QED
    BY <2>1
<1>9. CASE Answer(d) \/ SetupTcp(d) \/ SetupUdp(d)
  <2>1. UNCHANGED req /\ req[d] # "TEARDOWN"
    BY <1>9 DEF Answer, SetupTcp, SetupUdp
  <2> QED
    BY <2>1
<1>10. ASSUME Accept(d) \/ Leave(d) \/ Handler(d)
       PROVE  /\ hpc'[d] \in {"update", "respond"} => ~sess'[d].playing
              /\ hpc'[d] = "respond" => \A f \in Fds : clients'[f].who # d
  BY <1>5, <1>6, <1>7, <1>8, <1>9, <1>10, Zenon DEF Handler
<1>11. CASE Sender
  BY <1>0, <1>4, <1>11, SenderEntries
<1>12. CASE UNCHANGED vars
  BY <1>4, <1>12 DEF vars, serverVars
<1> QED
  BY <1>3, <1>10, <1>11, <1>12, Zenon DEF Next

(* Quiet behaviour.  No send fails: the sender marks no client dead.               *)
LEMMA AbruptStays == ASSUME RestTypes, [Next]_vars, abrupt PROVE abrupt'
<1>1. CASE UNCHANGED abrupt
  BY <1>1
<1>2. ASSUME NEW c \in Clients, Leave(c) PROVE abrupt'
  BY <1>2, Zenon DEF Leave
<1>3. ASSUME NEW f \in Fds, SendDatagram(f) PROVE abrupt'
  BY <1>3, Zenon DEF SendDatagram
<1>4. ASSUME NEW c \in Clients, Accept(c) \/ Handler(c) PROVE UNCHANGED abrupt
  BY <1>4, Zenon DEF Accept, Handler, EnterMap, EnterRecv, SkipBinary, Receive, RecvEnds, Answer,
     SetupTcp, SetupUdp, PlayOrTeardown, UpdateMap, Respond, Cleanup, CloseConnection, peerVars
<1>5. ASSUME NEW f \in Fds, SendHeader(f) \/ SendData(f) \/ RemoveDead(f) PROVE UNCHANGED abrupt
  BY <1>5, Zenon DEF SendHeader, SendData, RemoveDead, peerVars
<1>6. CASE SendPacket \/ PacketSent \/ UNCHANGED vars
  BY <1>6, Zenon DEF SendPacket, PacketSent, peerVars, vars
<1> QED
  BY <1>1, <1>2, <1>3, <1>4, <1>5, <1>6, Zenon DEF Next, Sender

LEMMA QuietNow == ASSUME ServerInv, [Next]_vars, ~abrupt'
                  PROVE  MapInv /\ RestTypes /\ OrderInv /\ Quiet /\ ~abrupt
BY AbruptStays DEF ServerInv

(* A client the sender comes to plays, so its handler serves it, it is still there   *)
(* and its descriptors are its own.                                                 *)
LEMMA Reached ==
  ASSUME MapInv, OrderInv, Quiet, NEW f \in todo, f \in Fds
  PROVE  LET c == clients[f].who
         IN  /\ c \in Clients /\ Reaches(f, c)
             /\ clients[f].rtp # NoFd => file[clients[f].rtp] = Dgram(c)
<1>1. clients[f].playing
  BY DEF OrderInv, SenderInv
<1>2. PICK c \in Clients : c = clients[f].who /\ hfd[c] = f /\ Serving(c)
  BY <1>1, Entries DEF OrderInv
<1>3. file[f] = Conn(c)
  BY <1>2 DEF Quiet, OwnConnection
<1>4. alive[c]
  BY <1>1, <1>2 DEF Quiet, GoneQuietly
<1> QED
  BY <1>2, <1>3, <1>4 DEF Reaches, Quiet, EntrySocket

LEMMA NobodyDead == ASSUME ServerInv, [Next]_vars, ~abrupt' PROVE dead' = {}
<1>0. MapInv /\ RestTypes /\ OrderInv /\ Quiet
  BY QuietNow
<1>1. dead = {}
  BY <1>0 DEF Quiet
<1>2. ASSUME NEW c \in Clients, Accept(c) \/ Leave(c) \/ Handler(c) PROVE dead' = {}
  BY <1>0, <1>1, <1>2, HandlerFrame DEF senderVars
<1>3. CASE SendPacket \/ PacketSent \/ UNCHANGED vars
  BY <1>1, <1>3 DEF SendPacket, PacketSent, vars, senderVars
<1>4. ASSUME NEW f \in Fds, SendDatagram(f) PROVE dead' = {}
  <2>1. PICK c : c \in Clients /\ file[clients[f].rtp] = Dgram(c)
    BY <1>0, <1>4, Reached DEF SendDatagram, First
  <2>2. CASE dead' = dead
    BY <1>1, <2>2
  <2>3. CASE abrupt' = (abrupt \/ \E w \in Clients : \/ file[clients[f].rtp] = Dgram(w)
                                                    \/ Reaches(clients[f].rtp, w))
    BY <2>1, <2>3
  <2> QED
    BY <1>4, <2>2, <2>3, Zenon DEF SendDatagram
<1>5. ASSUME NEW f \in Fds, SendHeader(f) \/ SendData(f) PROVE dead' = {}
  <2>1. \E w \in Clients : Reaches(f, w)
    BY <1>0, <1>5, Reached DEF SendHeader, SendData, First
  <2>2. UNCHANGED dead
    BY <1>5, <2>1, Zenon DEF SendHeader, SendData
  <2> QED
    BY <1>1, <2>2
<1>6. ASSUME NEW f \in Fds, RemoveDead(f) PROVE dead' = {}
  BY <1>1, <1>6 DEF RemoveDead
<1> QED
  BY <1>2, <1>3, <1>4, <1>5, <1>6, Zenon DEF Next, Sender

(* What may happen to a descriptor: a free one is handed out, a handler closes the   *)
(* socket of its session, and later its connection.                                 *)
LEMMA FileStep ==
  ASSUME ServerInv, [Next]_vars, ~abrupt', NEW x \in Fds
  PROVE  \/ file'[x] = file[x]
         \/ file[x] = Free
         \/ \E c \in Clients : /\ file[x] = Dgram(c)
                               /\ hpc[c] = "cleanup" /\ hpc'[c] = "close"
                               /\ clients'[hfd[c]] = NoSession
         \/ \E c \in Clients : file[x] = Conn(c) /\ hpc'[c] = "done"
<1>0. MapInv /\ RestTypes /\ OrderInv /\ Quiet
  BY QuietNow
<1>1. CASE UNCHANGED file
  BY <1>1
<1>2. ASSUME NEW f \in Fds, file[f] = Free, NEW y, file' = [file EXCEPT ![f] = y]
      PROVE  file'[x] = file[x] \/ file[x] = Free
  BY <1>0, <1>2 DEF RestTypes
<1>3. ASSUME NEW c \in Clients, Cleanup(c), file'[x] # file[x]
      PROVE  /\ file[x] = Dgram(c)
             /\ hpc[c] = "cleanup" /\ hpc'[c] = "close" /\ clients'[hfd[c]] = NoSession
  <2>0. x # NoFd
    BY RtspAssumption DEF NoFd
  <2>1. /\ hpc[c] = "cleanup" /\ hpc'[c] = "close" /\ hfd[c] \in Fds
        /\ clients'[hfd[c]] = NoSession
    BY <1>0, <1>3 DEF Cleanup, Goto, MapInv, MapTypes
  <2>2. x = clients[hfd[c]].rtp
    BY <1>3 DEF Cleanup, Closed
  <2>3. PICK d \in Clients : d = clients[hfd[c]].who /\ hfd[d] = hfd[c] /\ Serving(d)
    BY <1>0, <2>0, <2>1, <2>2, Entries DEF OrderInv
  <2>4. d = c
    BY <1>0, <2>1, <2>3, Kinds DEF Quiet, OwnConnection, Serving
  <2>5. file[x] = Dgram(d)
    BY <1>0, <2>0, <2>1, <2>2, <2>3 DEF Quiet, EntrySocket
  <2> QED
    BY <2>1, <2>4, <2>5
<1>4. ASSUME NEW c \in Clients, CloseConnection(c), file'[x] # file[x]
      PROVE  file[x] = Conn(c) /\ hpc'[c] = "done"
  BY <1>0, <1>4 DEF CloseConnection, Closed, Goto, MapInv, MapTypes, Quiet, OwnConnection, Serving
<1>5. ASSUME NEW c \in Clients, Accept(c) \/ SetupUdp(c)
      PROVE  file'[x] = file[x] \/ file[x] = Free
  <2>1. \/ UNCHANGED file
        \/ \E f \in Fds : \E y : file[f] = Free /\ file' = [file EXCEPT ![f] = y]
    BY <1>5, Zenon DEF Accept, SetupUdp, Lowest
  <2> QED
    BY <1>1, <1>2, <2>1
<1>6. ASSUME NEW c \in Clients,
             \/ Leave(c) \/ EnterMap(c) \/ EnterRecv(c) \/ SkipBinary(c)
             \/ \E w \in Clients, r \in Requests : Receive(c, w, r)
             \/ RecvEnds(c) \/ Answer(c) \/ SetupTcp(c) \/ PlayOrTeardown(c)
             \/ UpdateMap(c) \/ Respond(c)
      PROVE  UNCHANGED file
  BY <1>6, Zenon DEF Leave, EnterMap, EnterRecv, SkipBinary, Receive, RecvEnds, Answer, SetupTcp,
     PlayOrTeardown, UpdateMap, Respond, serverVars
<1>7. CASE Sender
  <2>1. dead = {}
    BY <1>0 DEF Quiet
  <2>2. UNCHANGED file
    BY <1>7, <2>1, Zenon DEF Sender, SendPacket, PacketSent, SendDatagram, SendHeader, SendData,
       RemoveDead, serverVars
  <2> QED
    BY <2>2
<1>8. CASE UNCHANGED vars
  BY <1>8 DEF vars, serverVars
<1> QED
  BY <1>1, <1>3, <1>4, <1>5, <1>6, <1>7, <1>8, Zenon DEF Next, Handler

LEMMA ConnectionStep == ASSUME ServerInv, [Next]_vars, ~abrupt' PROVE OwnConnection'
<1>0. MapInv /\ RestTypes /\ OrderInv /\ OwnConnection
  BY QuietNow DEF Quiet
<1> SUFFICES ASSUME NEW d \in Clients, hpc'[d] \notin {"none", "done"}
             PROVE  file'[hfd'[d]] = Conn(d)
  BY DEF OwnConnection, Serving
<1>1. ASSUME Serving(d), hfd'[d] = hfd[d] PROVE file'[hfd'[d]] = Conn(d)
  <2>1. hfd[d] \in Fds /\ file[hfd[d]] = Conn(d)
    BY <1>0, <1>1 DEF OwnConnection, Serving, MapInv, MapTypes
  <2> QED
    BY <1>1, <2>1, FileStep, Kinds
<1>2. CASE Accept(d)
  BY <1>0, <1>2 DEF Accept, Goto, MapInv, MapTypes, RestTypes, Lowest
<1>3. ASSUME NEW c \in Clients, Accept(c) \/ Leave(c) \/ Handler(c), ~Accept(d)
      PROVE  Serving(d) /\ hfd'[d] = hfd[d]
  <2>1. CASE c # d
    BY <1>0, <1>3, <2>1, HandlerFrame DEF Serving
  <2>2. CASE c = d
    <3>1. CASE Leave(d)
      BY <3>1 DEF Leave, handlerVars, Serving
    <3>2. CASE Handler(d)
      <4>1. Serving(d)
        BY <3>2, Zenon DEF Handler, EnterMap, EnterRecv, SkipBinary, Receive, RecvEnds, Answer,
           SetupTcp, SetupUdp, PlayOrTeardown, UpdateMap, Respond, Cleanup, CloseConnection, Serving
      <4> QED
        BY <1>0, <3>2, <4>1, HandlerFrame DEF Serving
    <3> QED
      BY <1>3, <2>2, <3>1, <3>2
  <2> QED
    BY <2>1, <2>2
<1>4. CASE Sender \/ UNCHANGED vars
  <2>1. UNCHANGED handlerVars
    BY <1>0, <1>4, SenderEntries DEF vars
  <2> QED
    BY <1>1, <2>1 DEF handlerVars, Serving
<1> QED
  BY <1>1, <1>2, <1>3, <1>4, Zenon DEF Next

LEMMA SocketStep == ASSUME ServerInv, [Next]_vars, ~abrupt' PROVE OwnSocket'
<1>0. MapInv /\ RestTypes /\ OrderInv /\ OwnSocket
  BY QuietNow DEF Quiet
<1> SUFFICES ASSUME NEW d \in Clients, hpc'[d] \notin {"none", "close", "done"},
                    sess'[d].rtp # NoFd
             PROVE  file'[sess'[d].rtp] = Dgram(d)
  BY DEF OwnSocket
<1>1. ASSUME hpc[d] \notin {"none", "close", "done"}, sess'[d].rtp = sess[d].rtp
      PROVE  file'[sess'[d].rtp] = Dgram(d)
  <2>1. sess[d].rtp \in Fds /\ file[sess[d].rtp] = Dgram(d)
    BY <1>0, <1>1 DEF OwnSocket, MapInv, MapTypes, SessionType
  <2> QED
    BY <1>1, <2>1, FileStep, Kinds
<1>2. ASSUME Accept(d) \/ SetupTcp(d) PROVE FALSE
  <2>1. sess'[d].rtp = NoFd
    BY <1>0, <1>2 DEF Accept, SetupTcp, MapInv, MapTypes, SessionType, Session
  <2> QED
    BY <2>1
<1>3. CASE SetupUdp(d)
  <2>1. PICK f \in Fds : /\ file' = [file EXCEPT ![f] = Dgram(d)]
                         /\ sess' = [sess EXCEPT ![d].rtp = f]
    <3>1. ASSUME sess' = [sess EXCEPT ![d].rtp = NoFd] PROVE FALSE
      BY <1>0, <3>1 DEF MapInv, MapTypes, SessionType
    <3> QED
      BY <1>3, <3>1, Zenon DEF SetupUdp
  <2> QED
    BY <1>0, <2>1 DEF MapInv, MapTypes, SessionType, RestTypes
<1>4. CASE PlayOrTeardown(d)
  <2>1. /\ hpc[d] = "act"
        /\ \E b : sess' = [sess EXCEPT ![d].playing = b]
    BY <1>4, Zenon DEF PlayOrTeardown
  <2>2. sess'[d].rtp = sess[d].rtp
    BY <1>0, <2>1 DEF MapInv, MapTypes, SessionType
  <2> QED
    BY <1>1, <2>1, <2>2
<1>5. ASSUME \/ EnterMap(d) \/ EnterRecv(d) \/ SkipBinary(d)
             \/ \E w \in Clients, r \in Requests : Receive(d, w, r)
             \/ RecvEnds(d) \/ Answer(d) \/ UpdateMap(d) \/ Respond(d)
      PROVE  hpc[d] \notin {"none", "close", "done"} /\ UNCHANGED sess
  BY <1>5, Zenon DEF EnterMap, EnterRecv, SkipBinary, Receive, RecvEnds, Answer, UpdateMap, Respond
<1>6. ASSUME Cleanup(d) \/ CloseConnection(d) PROVE FALSE
  BY <1>0, <1>6 DEF Cleanup, CloseConnection, Goto, MapInv, MapTypes
<1>7. ASSUME Leave(d) \/ Sender \/ UNCHANGED vars
      PROVE  hpc[d] \notin {"none", "close", "done"} /\ UNCHANGED sess
  BY <1>0, <1>7, SenderEntries DEF Leave, handlerVars, vars
<1>8. ASSUME NEW c \in Clients, c # d, Accept(c) \/ Leave(c) \/ Handler(c)
      PROVE  hpc[d] \notin {"none", "close", "done"} /\ sess'[d] = sess[d]
  BY <1>0, <1>8, HandlerFrame
<1> QED
  BY <1>1, <1>2, <1>3, <1>4, <1>5, <1>6, <1>7, <1>8, Zenon DEF Next, Handler

LEMMA EntryStep == ASSUME ServerInv, [Next]_vars, ~abrupt' PROVE EntrySocket'
<1>0. MapInv /\ RestTypes /\ OrderInv /\ OwnSocket /\ EntrySocket /\ EntriesNamed
  BY QuietNow DEF Quiet, OrderInv
<1> SUFFICES ASSUME NEW f \in Fds, clients'[f].rtp # NoFd
             PROVE  file'[clients'[f].rtp] = Dgram(clients'[f].who)
  BY DEF EntrySocket
<1>1. NoSession.rtp = NoFd
  BY DEF NoSession, Session
<1>2. ASSUME clients'[f] = clients[f] PROVE file'[clients'[f].rtp] = Dgram(clients'[f].who)
  <2>1. /\ clients[f].rtp \in Fds /\ clients[f].who \in Clients /\ hfd[clients[f].who] = f
        /\ Serving(clients[f].who)
    BY <1>0, <1>2, Entries
  <2>2. file[clients[f].rtp] = Dgram(clients[f].who)
    BY <1>0, <1>2 DEF EntrySocket
  <2>3. ASSUME NEW c \in Clients, file[clients[f].rtp] = Dgram(c),
               clients'[hfd[c]] = NoSession PROVE FALSE
    <3>1. c = clients[f].who
      BY <2>1, <2>2, <2>3, Kinds
    <3> QED
      BY <1>1, <1>2, <2>1, <2>3, <3>1
  <2> QED
    BY <1>2, <2>1, <2>2, <2>3, FileStep, Kinds
<1>3. ASSUME NEW c \in Clients, clients'[f] = sess[c], sess[c].who = c,
             EnterMap(c) \/ (UpdateMap(c) /\ req[c] # "TEARDOWN")
      PROVE  file'[clients'[f].rtp] = Dgram(clients'[f].who)
  <2>1. hpc[c] \in {"start", "update"} /\ UNCHANGED file
    BY <1>3 DEF EnterMap, UpdateMap, peerVars
  <2> QED
    BY <1>0, <1>3, <2>1 DEF OwnSocket
<1>4. ASSUME NEW c \in Clients, Accept(c) \/ Leave(c) \/ Handler(c)
      PROVE  file'[clients'[f].rtp] = Dgram(clients'[f].who)
  BY <1>0, <1>1, <1>2, <1>3, <1>4, HandlerEntries
<1>5. CASE Sender \/ UNCHANGED vars
  <2>1. clients'[f] \in {clients[f], NoSession}
    BY <1>0, <1>5, SenderEntries DEF vars, serverVars
  <2> QED
    BY <1>1, <1>2, <2>1
<1> QED
  BY <1>4, <1>5, Zenon DEF Next

LEMMA RequestStep == ASSUME ServerInv, [Next]_vars, ~abrupt' PROVE OwnRequests'
<1>0. MapInv /\ RestTypes /\ OrderInv /\ OwnConnection /\ OwnRequests
  BY QuietNow DEF Quiet
<1> SUFFICES ASSUME NEW d \in Clients, hpc'[d] = "recv" PROVE target'[d] = d
  BY DEF OwnRequests
<1>1. ASSUME hpc'[d] = hpc[d], target'[d] = target[d] PROVE target'[d] = d
  BY <1>0, <1>1 DEF OwnRequests
<1>2. CASE EnterRecv(d)
  <2>1. hpc[d] = "loop" /\ file[hfd[d]] = Conn(d)
    BY <1>0, <1>2 DEF EnterRecv, OwnConnection, Serving
  <2>2. target'[d] = IF file[hfd[d]].kind = "conn" THEN file[hfd[d]].who ELSE NoClient
    BY <1>0, <1>2 DEF EnterRecv, RestTypes
  <2> QED
    BY <2>1, <2>2 DEF Conn, File
<1>3. ASSUME Accept(d) \/ Handler(d), ~EnterRecv(d) PROVE FALSE
  <2>1. \E l \in HandlerLabels \ {"recv"} : hpc' = [hpc EXCEPT ![d] = l]
    BY <1>3, Zenon DEF Accept, Handler, EnterMap, SkipBinary, Receive, RecvEnds, Answer, SetupTcp,
       SetupUdp, PlayOrTeardown, UpdateMap, Respond, Cleanup, CloseConnection, Goto, HandlerLabels
  <2> QED
    BY <1>0, <2>1 DEF MapInv, MapTypes
<1>4. CASE Leave(d) \/ Sender \/ UNCHANGED vars
  <2>1. UNCHANGED handlerVars
    BY <1>0, <1>4, SenderEntries DEF vars, Leave
  <2> QED
    BY <1>1, <2>1 DEF handlerVars
<1>5. ASSUME NEW c \in Clients, c # d, Accept(c) \/ Leave(c) \/ Handler(c) PROVE target'[d] = d
  BY <1>0, <1>1, <1>5, HandlerFrame
<1> QED
  BY <1>2, <1>3, <1>4, <1>5, Zenon DEF Next

(* A client that closed its end is noticed by its handler's next recv.                *)
LEMMA GoneStep == ASSUME ServerInv, [Next]_vars, ~abrupt' PROVE GoneQuietly'
<1>0. MapInv /\ RestTypes /\ OrderInv /\ OwnConnection /\ OwnRequests /\ GoneQuietly
  BY QuietNow DEF Quiet
<1> DEFINE Gone(d) == /\ hpc[d] \in {"recv", "cleanup", "close"}
                      /\ \A f \in Fds : clients[f].who = d => ~clients[f].playing
<1> SUFFICES ASSUME NEW d \in Clients, hpc'[d] \notin {"none", "done"}, ~alive'[d]
             PROVE  Gone(d)'
  BY DEF GoneQuietly, Serving
<1>1. NoSession.playing = FALSE /\ NoSession.who # d
  BY RtspAssumption DEF NoSession, Session
<1>2. ASSUME Serving(d), ~alive[d], hpc'[d] \in {hpc[d], "cleanup", "close"},
             \A f \in Fds : clients'[f].who = d => clients'[f] = clients[f]
      PROVE  Gone(d)'
  <2>1. Gone(d)
    BY <1>0, <1>2 DEF GoneQuietly
  <2> QED
    BY <1>2, <2>1
<1>3. CASE Leave(d)
  <2>1. /\ UNCHANGED <<hpc, clients>> /\ hpc[d] = "recv"
        /\ \A f \in Fds : ~(clients[f].who = d /\ clients[f].playing)
    BY <1>3 DEF Leave, handlerVars, serverVars
  <2> QED
    BY <2>1
<1>4. ASSUME NEW c \in Clients, Leave(c), c # d PROVE Gone(d)'
  <2>1. UNCHANGED <<hpc, clients>> /\ alive'[d] = alive[d]
    BY <1>0, <1>4 DEF Leave, handlerVars, serverVars, RestTypes
  <2> QED
    BY <1>2, <2>1 DEF Serving
<1>5. ASSUME NEW c \in Clients, c # d, Accept(c) \/ Handler(c) PROVE Gone(d)'
  <2>1. alive'[d] = alive[d]
    <3>1. CASE Accept(c)
      BY <1>0, <1>5, <3>1 DEF Accept, RestTypes
    <3>2. CASE Handler(c)
      BY <3>2, Zenon DEF Handler, EnterMap, EnterRecv, SkipBinary, Receive, RecvEnds, Answer,
         SetupTcp, SetupUdp, PlayOrTeardown, UpdateMap, Respond, Cleanup, CloseConnection, peerVars
    <3> QED
      BY <1>5, <3>1, <3>2
  <2>2. hpc'[d] = hpc[d]
    BY <1>0, <1>5, HandlerFrame
  <2>3. ASSUME NEW f \in Fds, clients'[f].who = d PROVE clients'[f] = clients[f]
    BY <1>0, <1>1, <1>5, <2>3, HandlerEntries
  <2> QED
    BY <1>2, <2>1, <2>2, <2>3 DEF Serving
<1>6. CASE Accept(d)
  BY <1>0, <1>6 DEF Accept, RestTypes
<1>7. CASE RecvEnds(d) \/ Cleanup(d) \/ CloseConnection(d)
  <2>1. UNCHANGED alive /\ Serving(d) /\ hpc'[d] \in {"cleanup", "close", "done"}
    BY <1>0, <1>7 DEF RecvEnds, Cleanup, CloseConnection, Goto, MapInv, MapTypes, Serving, peerVars
  <2>2. ASSUME NEW f \in Fds, clients'[f].who = d PROVE clients'[f] = clients[f]
    <3>1. DOMAIN clients = Fds /\ hfd[d] \in Fds
      BY <1>0, <2>1 DEF MapInv, MapTypes, Serving
    <3>2. UNCHANGED clients \/ clients' = [clients EXCEPT ![hfd[d]] = NoSession]
      BY <1>7, Zenon DEF RecvEnds, Cleanup, CloseConnection, serverVars
    <3> QED
      BY <1>1, <2>2, <3>1, <3>2
  <2> QED
    BY <1>2, <2>1, <2>2
<1>8. ASSUME \/ EnterMap(d) \/ EnterRecv(d) \/ SkipBinary(d)
             \/ \E w \in Clients, r \in Requests : Receive(d, w, r)
             \/ Answer(d) \/ SetupTcp(d) \/ SetupUdp(d) \/ PlayOrTeardown(d)
             \/ UpdateMap(d) \/ Respond(d)
      PROVE  FALSE
  <2>1. UNCHANGED alive /\ Serving(d)
    BY <1>8, Zenon DEF EnterMap, EnterRecv, SkipBinary, Receive, Answer, SetupTcp, SetupUdp,
       PlayOrTeardown, UpdateMap, Respond, peerVars, Serving
  <2>2. hpc[d] \in {"recv", "cleanup", "close"}
    BY <1>0, <2>1 DEF GoneQuietly
  <2>3. hpc[d] = "recv" /\ \E w \in Clients : target[d] = w /\ alive[w]
    BY <1>8, <2>2 DEF EnterMap, EnterRecv, SkipBinary, Receive, Answer, SetupTcp, SetupUdp,
       PlayOrTeardown, UpdateMap, Respond
  <2> QED
    BY <1>0, <2>1, <2>3 DEF OwnRequests
<1>9. CASE Sender \/ UNCHANGED vars
  <2>1. UNCHANGED hpc /\ \A f \in Fds : clients'[f] \in {clients[f], NoSession}
    BY <1>0, <1>9, SenderEntries DEF vars, handlerVars, serverVars
  <2>2. UNCHANGED alive
    BY <1>9, Zenon DEF Sender, SendPacket, PacketSent, SendDatagram, SendHeader, SendData,
       RemoveDead, peerVars, vars
  <2> QED
    BY <1>1, <1>2, <2>1, <2>2 DEF Serving
<1> QED
  BY <1>3, <1>4, <1>5, <1>6, <1>7, <1>8, <1>9, Zenon DEF Next, Handler

(* Whoever is sent media asked for it: the answer to TEARDOWN comes after the map     *)
(* lost the session.                                                                *)
LEMMA AskedStep == ASSUME ServerInv, [Next]_vars, ~abrupt' PROVE PlayAsked'
<1>0. /\ MapInv /\ RestTypes /\ OrderInv /\ OwnConnection /\ OwnRequests /\ PlayAsked
      /\ TornDown
  BY QuietNow DEF Quiet, OrderInv
<1> DEFINE Asked(d) == /\ hpc[d] = "act" /\ req[d] = "PLAY" => wants[d]
                       /\ Serving(d) /\ sess[d].playing => wants[d]
                       /\ \A f \in Fds : clients[f].who = d /\ clients[f].playing => wants[d]
<1> SUFFICES ASSUME NEW d \in Clients PROVE Asked(d)'
  BY DEF PlayAsked
<1>1. NoSession.playing = FALSE /\ NoSession.who # d
  BY RtspAssumption DEF NoSession, Session
<1>2. Asked(d)
  BY <1>0 DEF PlayAsked
<1>3. ASSUME wants[d] => wants'[d],
             hpc'[d] = "act" => hpc[d] = "act" /\ req'[d] = req[d],
             Serving(d)' => Serving(d), sess'[d] = sess[d],
             \A f \in Fds : clients'[f].who = d => clients'[f] \in {clients[f], sess[d]},
             \A f \in Fds : clients'[f].who = d => Serving(d)
      PROVE  Asked(d)'
  BY <1>2, <1>3
<1>4. ASSUME NEW f \in Fds, clients[f].who = d PROVE Serving(d)
  BY <1>0, <1>4 DEF MapInv, NoGhostSessions, Serving
<1>5. CASE Leave(d) \/ Sender \/ UNCHANGED vars
  <2>1. UNCHANGED handlerVars /\ \A f \in Fds : clients'[f] \in {clients[f], NoSession}
    BY <1>0, <1>5, SenderEntries DEF vars, Leave, serverVars
  <2>2. UNCHANGED wants
    BY <1>5, Zenon DEF Leave, Sender, SendPacket, PacketSent, SendDatagram, SendHeader, SendData,
       RemoveDead, peerVars, vars
  <2> QED
    BY <1>1, <1>3, <1>4, <2>1, <2>2 DEF handlerVars, Serving
<1>6. ASSUME NEW c \in Clients, c # d, Accept(c) \/ Leave(c) \/ Handler(c) PROVE Asked(d)'
  <2>1. /\ hpc'[d] = hpc[d] /\ sess'[d] = sess[d] /\ req'[d] = req[d]
        /\ \A f \in Fds : clients'[f].who = d => clients'[f] = clients[f]
    <3>1. ASSUME NEW f \in Fds, clients'[f].who = d PROVE clients'[f] = clients[f]
      BY <1>0, <1>1, <1>6, <3>1, HandlerEntries
    <3> QED
      BY <1>0, <1>6, <3>1, HandlerFrame
  <2>2. wants[d] => wants'[d]
    <3>1. CASE UNCHANGED wants
      BY <3>1
    <3>2. ASSUME NEW w \in Clients, NEW r \in Requests, Receive(c, w, r)
          PROVE  wants[d] => wants'[d]
      <4>1. \/ DOMAIN wants = Clients /\ w # d
               /\ \E b : wants' = [wants EXCEPT ![w] = b]
            \/ w = d /\ DOMAIN wants = Clients
               /\ wants' = [wants EXCEPT ![d] = wants[d] \/ r = "PLAY"]
        <5>1. DOMAIN wants = Clients
          BY <1>0 DEF RestTypes
        <5>2. wants' = [wants EXCEPT ![w] = wants[w] \/ r = "PLAY"]
          BY <3>2, Zenon DEF Receive
        <5> QED
          BY <5>1, <5>2, Zenon
      <4> QED
        BY <4>1, Zenon
    <3>3. CASE Respond(c)
      <4>1. ASSUME NEW w \in Clients, Reaches(hfd[c], w) PROVE w # d
        <5>1. Serving(c) /\ file[hfd[c]] = Conn(c)
          BY <1>0, <3>3 DEF Respond, Serving, OwnConnection
        <5> QED
          BY <1>6, <4>1, <5>1, Kinds DEF Reaches
      <4>2. CASE UNCHANGED wants
        BY <4>2
      <4>3. ASSUME NEW w \in Clients, Reaches(hfd[c], w),
                   wants' = [wants EXCEPT ![w] = @ /\ req[c] # "TEARDOWN"]
            PROVE  wants'[d] = wants[d]
        <5>1. w # d
          BY <4>1, <4>3
        <5>2. PICK b : wants' = [wants EXCEPT ![w] = b]
          BY <4>3, Zenon
        <5> QED
          BY <1>0, <5>1, <5>2 DEF RestTypes
      <4> QED
        BY <3>3, <4>2, <4>3, Zenon DEF Respond
    <3>4. \/ UNCHANGED wants \/ Respond(c)
          \/ \E w \in Clients, r \in Requests : Receive(c, w, r)
      BY <1>6, Zenon DEF Accept, Leave, Handler, EnterMap, EnterRecv, SkipBinary, RecvEnds, Answer,
         SetupTcp, SetupUdp, PlayOrTeardown, UpdateMap, Cleanup, CloseConnection, peerVars
    <3> QED
      BY <3>1, <3>2, <3>3, <3>4, Zenon
  <2> QED
    BY <1>3, <1>4, <2>1, <2>2 DEF Serving
<1>7. CASE Accept(d)
  <2>1. /\ hpc[d] = "none" /\ hpc'[d] = "start" /\ UNCHANGED <<clients, wants>>
        /\ sess'[d].playing = FALSE
    BY <1>0, <1>7 DEF Accept, Goto, MapInv, MapTypes, Session
  <2> QED
    BY <1>4, <2>1 DEF Serving
<1>8. ASSUME NEW w \in Clients, NEW r \in Requests, Receive(d, w, r) PROVE Asked(d)'
  <2>1. w = d /\ hpc[d] = "recv" /\ UNCHANGED <<sess, clients>>
    BY <1>0, <1>8 DEF Receive, OwnRequests, serverVars
  <2>2. req'[d] = r
    BY <1>0, <1>8 DEF Receive, RestTypes
  <2>3. wants' = [wants EXCEPT ![d] = wants[d] \/ r = "PLAY"] /\ DOMAIN wants = Clients
    BY <1>0, <1>8, <2>1, Zenon DEF Receive, RestTypes
  <2>4. (wants[d] => wants'[d]) /\ (r = "PLAY" => wants'[d])
    BY <2>3, Zenon
  <2> QED
    BY <1>2, <2>1, <2>2, <2>4 DEF Serving
<1>9. CASE PlayOrTeardown(d)
  <2>1. /\ hpc[d] = "act" /\ UNCHANGED <<req, clients, wants>>
        /\ hpc' = [hpc EXCEPT ![d] = "update"]
        /\ sess' = [sess EXCEPT ![d].playing = (req[d] = "PLAY")]
    BY <1>9 DEF PlayOrTeardown, Goto, serverVars, peerVars
  <2>2. hpc'[d] # "act"
    BY <1>0, <2>1 DEF MapInv, MapTypes
  <2>3. sess'[d].playing => req[d] = "PLAY"
    <3>1. sess[d] \in SessionType /\ DOMAIN sess = Clients
      BY <1>0 DEF MapInv, MapTypes
    <3>2. PICK b : b = (req[d] = "PLAY") /\ sess' = [sess EXCEPT ![d].playing = b]
      BY <2>1, Zenon
    <3>3. sess'[d].playing = b
      BY <3>1, <3>2 DEF SessionType
    <3> QED
      BY <3>2, <3>3, Zenon
  <2> QED
    BY <1>2, <2>1, <2>2, <2>3 DEF Serving
<1>10. CASE Respond(d)
  <2>1. hpc[d] = "respond" /\ UNCHANGED <<sess, clients>> /\ hpc'[d] # "act"
    BY <1>0, <1>10 DEF Respond, Goto, MapInv, MapTypes, serverVars
  <2>2. CASE req[d] = "TEARDOWN"
    BY <1>0, <2>1, <2>2 DEF TornDown
  <2>3. CASE req[d] # "TEARDOWN"
    <3>1. wants[d] => wants'[d]
      <4>1. CASE UNCHANGED wants
        BY <4>1
      <4>2. ASSUME NEW w \in Clients, wants' = [wants EXCEPT ![w] = @ /\ req[d] # "TEARDOWN"]
            PROVE  wants[d] => wants'[d]
        <5>1. DOMAIN wants = Clients
          BY <1>0 DEF RestTypes
        <5> QED
          BY <2>3, <4>2, <5>1, Zenon
      <4> QED
        BY <1>10, <4>1, <4>2, Zenon DEF Respond
    <3> QED
      BY <1>3, <1>4, <2>1, <3>1 DEF Serving
  <2> QED
    BY <2>2, <2>3
<1>11. ASSUME \/ EnterMap(d) \/ EnterRecv(d) \/ SkipBinary(d) \/ RecvEnds(d) \/ Answer(d)
              \/ UpdateMap(d) \/ Cleanup(d) \/ CloseConnection(d)
       PROVE  Asked(d)'
  <2>1. UNCHANGED <<sess, wants, req>> /\ Serving(d)
    BY <1>11, Zenon DEF EnterMap, EnterRecv, SkipBinary, RecvEnds, Answer, UpdateMap, Cleanup,
       CloseConnection, peerVars, Serving
  <2>2. hpc'[d] # "act"
    BY <1>0, <1>11 DEF EnterMap, EnterRecv, SkipBinary, RecvEnds, Answer, UpdateMap, Cleanup,
       CloseConnection, Goto, MapInv, MapTypes
  <2>3. ASSUME NEW f \in Fds, clients'[f].who = d PROVE clients'[f] \in {clients[f], sess[d]}
    BY <1>0, <1>1, <1>11, <2>3, HandlerEntries DEF Handler
  <2> QED
    BY <1>3, <2>1, <2>2, <2>3
<1>12. CASE SetupTcp(d) \/ SetupUdp(d)
  <2>1. UNCHANGED <<clients, wants>> /\ hpc[d] = "act"
    BY <1>12, Zenon DEF SetupTcp, SetupUdp, peerVars, serverVars
  <2>2. hpc'[d] = "update" /\ sess'[d].playing = sess[d].playing
    BY <1>0, <1>12 DEF SetupTcp, SetupUdp, Goto, MapInv, MapTypes, SessionType
  <2> QED
    BY <1>2, <2>1, <2>2 DEF Serving
<1> QED
  BY <1>5, <1>6, <1>7, <1>8, <1>9, <1>10, <1>11, <1>12, Zenon DEF Next, Handler

THEOREM ServerInvariant == Spec => []ServerInv
<1>1. Init => RestTypes /\ OrderInv /\ Quiet
  <2> SUFFICES ASSUME Init PROVE RestTypes /\ OrderInv /\ Quiet
    OBVIOUS
  <2>1. RestTypes
    BY InitRest
  <2>2. OrderInv
    BY RtspAssumption DEF Init, OrderInv, SenderInv, EntriesNamed, TornDown
  <2>3. Quiet
    BY RtspAssumption DEF Init, Quiet, OwnConnection, OwnSocket, EntrySocket, OwnRequests,
       GoneQuietly, PlayAsked, Serving, NoSession, Session
  <2> QED
    BY <2>1, <2>2, <2>3
<1>2. ServerInv /\ [Next]_vars => ServerInv'
  <2> SUFFICES ASSUME ServerInv, [Next]_vars PROVE ServerInv'
    OBVIOUS
  <2>1. MapInv' /\ RestTypes'
    BY StepMap, RestStep DEF ServerInv
  <2>2. OrderInv'
    BY SenderStep, NamedStep, TornStep DEF OrderInv
  <2>3. ASSUME ~abrupt' PROVE Quiet'
    BY <2>3, NobodyDead, ConnectionStep, SocketStep, EntryStep, RequestStep, GoneStep, AskedStep
    DEF Quiet
  <2> QED
    BY <2>1, <2>2, <2>3 DEF ServerInv
<1>3. Init => ServerInv
  BY <1>1, InitMap DEF ServerInv
<1> QED
  BY <1>2, <1>3, PTL DEF Spec

(* As long as no client vanishes from a session that plays and no send to one fails,   *)
(* no descriptor number is stale: each handler works on its own client's connection    *)
(* and the sender on open sockets of the clients it means, for any number of clients   *)
(* and however few descriptors they share.                                            *)
THEOREM DescriptorsStayFaithful == Spec => []DescriptorsFaithful
<1>1. ServerInv => DescriptorsFaithful
  BY DEF ServerInv, Quiet, OwnConnection, Serving, EntrySocket, DescriptorsFaithful
<1> QED
  BY <1>1, ServerInvariant, PTL

(* Under the same condition media goes to clients that asked for it and were not told   *)
(* that it ended.                                                                      *)
THEOREM MediaReachesPlayersOnly == Spec => []MediaOnlyToPlayers
<1>1. ServerInv => MediaOnlyToPlayers
  <2> SUFFICES ASSUME ServerInv, ~abrupt, NEW f \in Fds, NEW w \in Clients,
                      clients[f].playing, file[f] = Conn(w)
               PROVE  wants[w]
    BY DEF MediaOnlyToPlayers
  <2>1. MapInv /\ EntriesNamed /\ Quiet
    BY DEF ServerInv, OrderInv
  <2>2. PICK c \in Clients : c = clients[f].who /\ hfd[c] = f /\ Serving(c)
    BY <2>1, Entries
  <2>3. c = w
    BY <2>1, <2>2, Kinds DEF Quiet, OwnConnection
  <2> QED
    BY <2>1, <2>2, <2>3 DEF Quiet, PlayAsked
<1> QED
  BY <1>1, ServerInvariant, PTL
=============================================================================
