----------------------------- MODULE RtspServer -----------------------------
(* The RTSP server (src/rtsp_server.cpp): an accept loop, one handler thread  *)
(* per connection, and sendRTPPacket, which the encoder's DQ thread calls.    *)
(* They share the clients map under clients_mutex, and the process's file      *)
(* descriptors under nothing at all: descriptors are plain numbers here as     *)
(* there, a closed one is the next to be handed out, and a thread that kept    *)
(* its number operates on whatever it names now.                               *)
EXTENDS Integers, FiniteSets

CONSTANTS Clients,      (* the clients; each connects at most once             *)
          Fds,          (* descriptor numbers besides the listening socket     *)
          Requests,     (* the requests a client may send                      *)
          MaxRequests,  (* bound on the requests of all clients together       *)
          NoClient      (* no client                                           *)

KnownRequests == {"OPTIONS", "SETUP_TCP", "SETUP_UDP", "PLAY", "TEARDOWN"}

ASSUME RtspAssumption == /\ Fds \subseteq Nat
                         /\ Requests \subseteq KnownRequests
                         /\ MaxRequests \in Nat
                         /\ NoClient \notin Clients

NoFd == -1

VARIABLES hpc,       (* program point of each client's handler                 *)
          hfd,       (* its client_socket                                      *)
          sess,      (* its own copy of the session                            *)
          req,       (* the request it is processing                           *)
          target,    (* the client whose connection its recv reads             *)
          file,      (* what each descriptor names                             *)
          clients,   (* the server's map from descriptor to session            *)
          mutex,     (* clients_mutex is held by the sender; a handler's       *)
                     (* critical sections are one step each                    *)
          spc,       (* program point of sendRTPPacket                         *)
          todo,      (* playing clients it has not come to                     *)
          dead,      (* dead_clients                                           *)
          alive,     (* the client has not closed its end                      *)
          budget,    (* requests that may still be sent                        *)
          abrupt,    (* history: a client vanished, or a send to it failed,    *)
                     (* while it was playing                                   *)
          wants,     (* the client asked to play and was not told it ended     *)
          stream     (* what the client's TCP stream is in: clean, right after *)
                     (* an interleaved header, or broken                       *)

handlerVars == <<hpc, hfd, sess, req, target>>
serverVars  == <<file, clients>>
senderVars  == <<mutex, spc, todo, dead>>
peerVars    == <<alive, budget, abrupt, wants, stream>>
vars == <<handlerVars, serverVars, senderVars, peerVars>>

-----------------------------------------------------------------------------
(* Descriptors.                                                               *)
File(kind, c) == [kind |-> kind, who |-> c]
Conn(c)  == File("conn", c)
Dgram(c) == File("dgram", c)
Free     == File("free", NoClient)

(* accept and socket return the lowest free descriptor, or fail without one.  *)
Lowest(f) == file[f] = Free /\ \A g \in Fds : file[g] = Free => f <= g
Exhausted == \A f \in Fds : file[f] # Free
Closed(s) == [f \in Fds |-> IF f \in s THEN Free ELSE file[f]]

(* send to a connection succeeds while the client is there.                   *)
Reaches(f, c) == file[f] = Conn(c) /\ alive[c]

Session(c, playing, rtp) == [who |-> c, playing |-> playing, rtp |-> rtp]
NoSession == Session(NoClient, FALSE, NoFd)

Goto(c, l) == hpc' = [hpc EXCEPT ![c] = l]
Unlocked == mutex = FALSE

Init == /\ hpc = [c \in Clients |-> "none"]
        /\ hfd = [c \in Clients |-> NoFd]
        /\ sess = [c \in Clients |-> NoSession]
        /\ req = [c \in Clients |-> "OPTIONS"]
        /\ target = [c \in Clients |-> NoClient]
        /\ file = [f \in Fds |-> Free]
        /\ clients = [f \in Fds |-> NoSession]
        /\ mutex = FALSE /\ spc = "idle" /\ todo = {} /\ dead = {}
        /\ alive = [c \in Clients |-> FALSE]
        /\ budget = MaxRequests /\ abrupt = FALSE
        /\ wants = [c \in Clients |-> FALSE]
        /\ stream = [c \in Clients |-> "clean"]

-----------------------------------------------------------------------------
(* Faulty variants of single steps, which the properties below must notice.   *)
(* No specification uses them.                                                 *)
FaultyAccept(c) ==                       \* starts a handler for a failed accept
  /\ hpc[c] = "none"
  /\ \/ \E f \in Fds : Lowest(f) /\ file' = [file EXCEPT ![f] = Conn(c)]
                                 /\ hfd' = [hfd EXCEPT ![c] = f]
     \/ Exhausted /\ UNCHANGED <<file, hfd>>
  /\ sess' = [sess EXCEPT ![c] = Session(c, FALSE, NoFd)]
  /\ alive' = [alive EXCEPT ![c] = TRUE]
  /\ Goto(c, "start")
  /\ UNCHANGED <<req, target, clients, senderVars, budget, abrupt, wants, stream>>

FaultyTeardownKeepsPlaying(c) ==
  /\ hpc[c] = "act" /\ req[c] \in {"PLAY", "TEARDOWN"}
  /\ sess' = [sess EXCEPT ![c].playing = @ \/ req[c] = "PLAY"]
  /\ Goto(c, "update")
  /\ UNCHANGED <<hfd, req, target, serverVars, senderVars, peerVars>>

FaultyInsertOnce(c) ==                   \* map.insert, which does not overwrite
  /\ hpc[c] = "update" /\ Unlocked
  /\ clients' = [clients EXCEPT ![hfd[c]] =
                   IF req[c] = "TEARDOWN" THEN NoSession
                   ELSE IF @ = NoSession THEN sess[c] ELSE @]
  /\ Goto(c, "respond")
  /\ UNCHANGED <<hfd, sess, req, target, file, senderVars, peerVars>>

FaultyCleanupKeepsEntry(c) ==
  /\ hpc[c] = "cleanup" /\ Unlocked
  /\ file' = Closed({clients[hfd[c]].rtp})
  /\ Goto(c, "close")
  /\ UNCHANGED <<hfd, sess, req, target, clients, senderVars, peerVars>>

FaultyCleanupClosesBoth(c) ==            \* and the connection is closed again later
  /\ hpc[c] = "cleanup" /\ Unlocked
  /\ file' = Closed({hfd[c], clients[hfd[c]].rtp})
  /\ clients' = [clients EXCEPT ![hfd[c]] = NoSession]
  /\ Goto(c, "close")
  /\ UNCHANGED <<hfd, sess, req, target, senderVars, peerVars>>

-----------------------------------------------------------------------------
(* runServer: a client connects and gets a handler with a fresh session.      *)
Accept(c) == /\ hpc[c] = "none"
             /\ \E f \in Fds :
                  /\ Lowest(f)
                  /\ file' = [file EXCEPT ![f] = Conn(c)]
                  /\ hfd' = [hfd EXCEPT ![c] = f]
             /\ sess' = [sess EXCEPT ![c] = Session(c, FALSE, NoFd)]
             /\ alive' = [alive EXCEPT ![c] = TRUE]
             /\ Goto(c, "start")
             /\ UNCHANGED <<req, target, clients, senderVars, budget, abrupt, wants, stream>>

(* A client closes its end: between two requests and without playing, or       *)
(* abruptly.                                                                  *)
Leave(c) == /\ alive[c]
            /\ abrupt' = \/ abrupt \/ hpc[c] # "recv"
                         \/ \E f \in Fds : clients[f].who = c /\ clients[f].playing
            /\ alive' = [alive EXCEPT ![c] = FALSE]
            /\ UNCHANGED <<handlerVars, serverVars, senderVars, budget, wants, stream>>

-----------------------------------------------------------------------------
(* ClientHandler::run                                                         *)
EnterMap(c) == /\ hpc[c] = "start" /\ Unlocked
               /\ clients' = [clients EXCEPT ![hfd[c]] = sess[c]]
               /\ Goto(c, "loop")
               /\ UNCHANGED <<hfd, sess, req, target, file, senderVars, peerVars>>

(* recv finds what the descriptor names now: a connection, a datagram socket  *)
(* on which nothing arrives, or nothing.                                      *)
EnterRecv(c) == /\ hpc[c] = "loop"
                /\ target' = [target EXCEPT ![c] = IF file[hfd[c]].kind = "conn"
                                                   THEN file[hfd[c]].who ELSE NoClient]
                /\ Goto(c, IF file[hfd[c]] = Free THEN "cleanup" ELSE "recv")
                /\ UNCHANGED <<hfd, sess, req, serverVars, senderVars, peerVars>>

(* A request arrives; interleaved binary data is skipped.                     *)
SkipBinary(c) == /\ hpc[c] = "recv" /\ \E w \in Clients : target[c] = w /\ alive[w]
                 /\ Goto(c, "loop")
                 /\ UNCHANGED <<hfd, sess, req, target, serverVars, senderVars, peerVars>>

Receive(c, w, r) ==
  /\ hpc[c] = "recv" /\ target[c] = w
  /\ alive[w] /\ budget > 0
  /\ budget' = budget - 1
  /\ req' = [req EXCEPT ![c] = r]
  /\ wants' = [wants EXCEPT ![w] = @ \/ r = "PLAY"]
  /\ Goto(c, "act")
  /\ UNCHANGED <<hfd, sess, target, serverVars, senderVars, alive, abrupt, stream>>

RecvEnds(c) == /\ hpc[c] = "recv"
               /\ \E w \in Clients : target[c] = w /\ ~alive[w]
               /\ Goto(c, "cleanup")
               /\ UNCHANGED <<hfd, sess, req, target, serverVars, senderVars, peerVars>>

(* processRequest: the session copy first, the map under the mutex after.     *)
(* OPTIONS stands for every request that leaves the session alone.            *)
Answer(c) == /\ hpc[c] = "act" /\ req[c] = "OPTIONS"
             /\ Goto(c, "respond")
             /\ UNCHANGED <<hfd, sess, req, target, serverVars, senderVars, peerVars>>

SetupTcp(c) == /\ hpc[c] = "act" /\ req[c] = "SETUP_TCP"
               /\ sess' = [sess EXCEPT ![c].rtp = NoFd]
               /\ Goto(c, "update")
               /\ UNCHANGED <<hfd, req, target, serverVars, senderVars, peerVars>>

SetupUdp(c) == /\ hpc[c] = "act" /\ req[c] = "SETUP_UDP"
               /\ \/ \E f \in Fds : /\ Lowest(f)
                                    /\ file' = [file EXCEPT ![f] = Dgram(c)]
                                    /\ sess' = [sess EXCEPT ![c].rtp = f]
                  \/ /\ Exhausted
                     /\ sess' = [sess EXCEPT ![c].rtp = NoFd]
                     /\ UNCHANGED file
               /\ Goto(c, "update")
               /\ UNCHANGED <<hfd, req, target, clients, senderVars, peerVars>>

PlayOrTeardown(c) == /\ hpc[c] = "act" /\ req[c] \in {"PLAY", "TEARDOWN"}
                     /\ sess' = [sess EXCEPT ![c].playing = (req[c] = "PLAY")]
                     /\ Goto(c, "update")
                     /\ UNCHANGED <<hfd, req, target, serverVars, senderVars, peerVars>>

UpdateMap(c) == /\ hpc[c] = "update" /\ Unlocked
                /\ clients' = [clients EXCEPT ![hfd[c]] =
                                 IF req[c] = "TEARDOWN" THEN NoSession ELSE sess[c]]
                /\ Goto(c, "respond")
                /\ UNCHANGED <<hfd, sess, req, target, file, senderVars, peerVars>>

(* The response is sent without the mutex.                                    *)
Respond(c) ==
  /\ hpc[c] = "respond"
  /\ \/ \E w \in Clients :
          /\ Reaches(hfd[c], w)
          /\ stream' = [stream EXCEPT ![w] = IF @ = "clean" THEN "clean" ELSE "broken"]
          /\ wants' = [wants EXCEPT ![w] = @ /\ req[c] # "TEARDOWN"]
          /\ Goto(c, "loop")
     \/ /\ \A w \in Clients : ~Reaches(hfd[c], w)
        /\ Goto(c, "cleanup")
        /\ UNCHANGED <<stream, wants>>
  /\ UNCHANGED <<hfd, sess, req, target, serverVars, senderVars, alive, budget, abrupt>>

Cleanup(c) == /\ hpc[c] = "cleanup" /\ Unlocked
              /\ file' = Closed({clients[hfd[c]].rtp})
              /\ clients' = [clients EXCEPT ![hfd[c]] = NoSession]
              /\ Goto(c, "close")
              /\ UNCHANGED <<hfd, sess, req, target, senderVars, peerVars>>

CloseConnection(c) == /\ hpc[c] = "close"
                      /\ file' = Closed({hfd[c]})
                      /\ Goto(c, "done")
                      /\ UNCHANGED <<hfd, sess, req, target, clients, senderVars, peerVars>>

-----------------------------------------------------------------------------
(* sendRTPPacket: one client after another, in descriptor order, then the     *)
(* dead ones are removed, all under the mutex.                                *)
SendPacket == /\ spc = "idle" /\ Unlocked
              /\ mutex' = TRUE
              /\ todo' = {f \in Fds : clients[f].playing}
              /\ spc' = "send"
              /\ UNCHANGED <<dead, handlerVars, serverVars, peerVars>>

First(f) == f \in todo /\ \A g \in todo : f <= g

(* UDP transport: a datagram, unless the descriptor names something else now. *)
SendDatagram(f) ==
  /\ spc = "send" /\ First(f) /\ clients[f].rtp # NoFd
  /\ LET r == clients[f].rtp
     IN  \/ \E w \in Clients :
              /\ file[r] = Dgram(w) \/ Reaches(r, w)
              /\ stream' = [stream EXCEPT ![w] = IF file[r] = Dgram(w) THEN @ ELSE "broken"]
              /\ UNCHANGED <<dead, abrupt>>
         \/ /\ abrupt' = (abrupt \/ \E w \in Clients : file[r] = Dgram(w) \/ Reaches(r, w))
            /\ dead' = dead \cup {f}
            /\ UNCHANGED stream
  /\ todo' = todo \ {f}
  /\ UNCHANGED <<mutex, spc, handlerVars, serverVars, alive, budget, wants>>

(* TCP transport: the interleaved header and the data are two sends.          *)
SendHeader(f) ==
  /\ spc = "send" /\ First(f) /\ clients[f].rtp = NoFd
  /\ \/ \E w \in Clients :
          /\ Reaches(f, w)
          /\ stream' = [stream EXCEPT ![w] = IF @ = "clean" THEN "header" ELSE "broken"]
          /\ spc' = "data"
          /\ UNCHANGED <<todo, dead>>
     \/ /\ \A w \in Clients : ~Reaches(f, w)
        /\ dead' = dead \cup {f}
        /\ todo' = todo \ {f}
        /\ UNCHANGED <<spc, stream>>
  /\ UNCHANGED <<mutex, handlerVars, serverVars, alive, budget, abrupt, wants>>

SendData(f) ==
  /\ spc = "data" /\ First(f)
  /\ \/ \E w \in Clients :
          /\ Reaches(f, w)
          /\ stream' = [stream EXCEPT ![w] = IF @ = "header" THEN "clean" ELSE "broken"]
          /\ UNCHANGED dead
     \/ /\ \A w \in Clients : ~Reaches(f, w)
        /\ dead' = dead \cup {f}
        /\ UNCHANGED stream
  /\ spc' = "send"
  /\ todo' = todo \ {f}
  /\ UNCHANGED <<mutex, handlerVars, serverVars, alive, budget, abrupt, wants>>

(* Both descriptors of a dead client are closed while its handler may still   *)
(* use the first.                                                             *)
RemoveDead(f) == /\ spc = "send" /\ todo = {} /\ f \in dead
                 /\ file' = Closed({f, clients[f].rtp})
                 /\ clients' = [clients EXCEPT ![f] = NoSession]
                 /\ dead' = dead \ {f}
                 /\ UNCHANGED <<mutex, spc, todo, handlerVars, peerVars>>

PacketSent == /\ spc = "send" /\ todo = {} /\ dead = {}
              /\ mutex' = FALSE
              /\ spc' = "idle"
              /\ UNCHANGED <<todo, dead, handlerVars, serverVars, peerVars>>

-----------------------------------------------------------------------------
Handler(c) == \/ EnterMap(c) \/ EnterRecv(c) \/ SkipBinary(c)
              \/ \E w \in Clients, r \in Requests : Receive(c, w, r)
              \/ RecvEnds(c)
              \/ Answer(c) \/ SetupTcp(c) \/ SetupUdp(c) \/ PlayOrTeardown(c)
              \/ UpdateMap(c) \/ Respond(c) \/ Cleanup(c) \/ CloseConnection(c)
Sender == \/ SendPacket \/ PacketSent
          \/ \E f \in Fds : SendDatagram(f) \/ SendHeader(f) \/ SendData(f) \/ RemoveDead(f)

Next == \/ \E c \in Clients : Accept(c) \/ Leave(c) \/ Handler(c)
        \/ Sender

Spec == Init /\ [][Next]_vars

-----------------------------------------------------------------------------
HandlerLabels == {"none", "start", "loop", "recv", "act", "update", "respond",
                  "cleanup", "close", "done"}
SessionType == [who : Clients \cup {NoClient}, playing : BOOLEAN, rtp : Fds \cup {NoFd}]

(* Types of the variables.                                                    *)
TypeOK == /\ hpc \in [Clients -> HandlerLabels]
          /\ hfd \in [Clients -> Fds \cup {NoFd}]
          /\ \A c \in Clients : hpc[c] # "none" => hfd[c] \in Fds
          /\ sess \in [Clients -> SessionType]
          /\ req \in [Clients -> KnownRequests]
          /\ target \in [Clients -> Clients \cup {NoClient}]
          /\ file \in [Fds -> [kind : {"free", "conn", "dgram"},
                               who : Clients \cup {NoClient}]]
          /\ clients \in [Fds -> SessionType]
          /\ mutex \in BOOLEAN /\ spc \in {"idle", "send", "data"}
          /\ todo \subseteq Fds /\ dead \subseteq Fds
          /\ alive \in [Clients -> BOOLEAN] /\ budget \in 0..MaxRequests /\ abrupt \in BOOLEAN
          /\ wants \in [Clients -> BOOLEAN]
          /\ stream \in [Clients -> {"clean", "header", "broken"}]

(* No session outlives its handler: an entry of the map belongs to a handler  *)
(* that is still to clean up, and is filed under that handler's descriptor.    *)
NoGhostSessions ==
  \A f \in Fds, c \in Clients :
    clients[f].who = c => hfd[c] = f /\ hpc[c] \notin {"none", "start", "close", "done"}

(* The sender works with the transport and the play state the handler last set *)
(* up: the map's entry is the handler's own session, except between the        *)
(* handler's change and its critical section.                                   *)
MapMatchesHandler ==
  \A f \in Fds, c \in Clients :
    clients[f].who = c => clients[f] = sess[c] \/ hpc[c] = "update"

(* While clients play by the rules and no send fails, every descriptor the     *)
(* server keeps names what it was made for: a handler's its own connection,     *)
(* from accept to close, and the RTP socket of a session in the map an open      *)
(* datagram socket of that client.                                              *)
DescriptorsFaithful ==
  ~abrupt =>
    /\ \A c \in Clients : hpc[c] \notin {"none", "done"} => file[hfd[c]] = Conn(c)
    /\ \A f \in Fds : clients[f].rtp # NoFd => file[clients[f].rtp] = Dgram(clients[f].who)

(* Under the same condition, media goes only to clients that asked for it and   *)
(* have not yet been told that their session ended.                             *)
MediaOnlyToPlayers ==
  ~abrupt =>
    \A f \in Fds, w \in Clients : clients[f].playing /\ file[f] = Conn(w) => wants[w]

(* Under the same condition, each interleaved packet reaches the client as       *)
(* header then data, with nothing in between.                                   *)
InterleavedFraming == ~abrupt => \A c \in Clients : stream[c] # "broken"

(* A handler that cleans up removes its own client from the map, no other.      *)
CleansUpOwnClient ==
  [][\A c \in Clients : hpc[c] = "cleanup" /\ hpc'[c] = "close" =>
       clients[hfd[c]].who \in {c, NoClient}]_vars
=============================================================================
