----------------------------- MODULE MCNetwork -----------------------------
(***************************************************************************)
(* The five network components of the core, one at a time: they share no   *)
(* state, so `part` says which of them a behaviour is about, and the other *)
(* four stay as they were constructed.                                     *)
(*                                                                         *)
(* HttpClient: two calls over two Starts, enough for a call left over by   *)
(* a Stop to be taken up later and for a call made from a callback.        *)
(* WebSocketServer: three descriptors (listener, client, somebody else's), *)
(* two clients and two Starts, enough for a number to be used again        *)
(* between a Stop and the next.  Rcon: two connections, of which the       *)
(* second may leak the first, and three requests, so that a reply can be   *)
(* cut, leave the next one garbled, and the client can reconnect.          *)
(* NetworkBridge: three Starts, since a stale connected_ of the first is   *)
(* met by the second, and repaired before the third.  PaperBridge: two     *)
(* clients, one behind the other, and two Starts with the port taken or    *)
(* free at each.                                                           *)
(***************************************************************************)
EXTENDS Integers, Sequences

CONSTANTS
  Call, Url, Status, MaxHttpStarts,   \* HttpClient
  Fd, MaxClients, MaxServerStarts,    \* WebSocketServer
  MaxConn, MaxRequest,                \* Rcon
  MaxBridgeStarts, MaxPackets,        \* NetworkBridge
  Clients, MaxPaperStarts             \* PaperBridge

VARIABLES
  part,
  httpRunning, httpQueue, worker, httpOwner, url, response, httpDead, httpStarts, asked, answered,
  holder, serverFd, wsRunning, wsThread, clientFd, clients, nextClientId, waiting, wsOwner, wsDead,
  wsStarts, stale, wsConnected, disconnected, wsForeign, wsLost,
  rconPeer, rconRunning, rconThread, rconServing, rconOwner, conn, unread, made, sock,
  rconConnected, op, request, replies, garbled, last, served, rconDead,
  bridgeRunning, bridgeConnected, bridgeThread, bridgeOwner, bridgeQueue, bridgePeer,
  bridgeStarts, sockets, raced, reopens, bridgeDead,
  paperRunning, paperThread, paperOwner, paperForeign, backlog, paperServing, said, seen,
  paperLost, paperStarts, failed, paperDead

Http == INSTANCE HttpClient WITH
  running <- httpRunning, queue <- httpQueue, owner <- httpOwner, dead <- httpDead,
  starts <- httpStarts, MaxStarts <- MaxHttpStarts
WebSocket == INSTANCE WebSocketServer WITH
  running <- wsRunning, thread <- wsThread, owner <- wsOwner, dead <- wsDead, starts <- wsStarts,
  connected <- wsConnected, foreign <- wsForeign, lost <- wsLost, MaxStarts <- MaxServerStarts
Remote == INSTANCE Rcon WITH
  peer <- rconPeer, running <- rconRunning, thread <- rconThread, serving <- rconServing,
  owner <- rconOwner, connected <- rconConnected, dead <- rconDead
Bridge == INSTANCE NetworkBridge WITH
  running <- bridgeRunning, connected <- bridgeConnected, thread <- bridgeThread,
  owner <- bridgeOwner, queue <- bridgeQueue, peer <- bridgePeer, starts <- bridgeStarts,
  dead <- bridgeDead, MaxStarts <- MaxBridgeStarts
Paper == INSTANCE PaperBridge WITH
  running <- paperRunning, thread <- paperThread, owner <- paperOwner, foreign <- paperForeign,
  serving <- paperServing, lost <- paperLost, starts <- paperStarts, dead <- paperDead,
  MaxStarts <- MaxPaperStarts

ASSUME ClientsAssumption == Http!StatusAssumption /\ Remote!BoundAssumption
ASSUME ServersAssumption == WebSocket!FdAssumption /\ WebSocket!BoundAssumption
ASSUME BridgesAssumption == Bridge!BoundAssumption /\ Paper!ClientsAssumption

\* The URLs that TLC is given.
MCUrl == {[scheme |-> TRUE, port |-> "none"], [scheme |-> TRUE, port |-> "text"],
          [scheme |-> FALSE, port |-> "none"]}

httpVars == <<httpRunning, httpQueue, worker, httpOwner, url, response, httpDead, httpStarts,
              asked, answered>>
wsVars == <<holder, serverFd, wsRunning, wsThread, clientFd, clients, nextClientId, waiting,
            wsOwner, wsDead, wsStarts, stale, wsConnected, disconnected, wsForeign, wsLost>>
rconVars == <<rconPeer, rconRunning, rconThread, rconServing, rconOwner, conn, unread, made, sock,
              rconConnected, op, request, replies, garbled, last, served, rconDead>>
bridgeVars == <<bridgeRunning, bridgeConnected, bridgeThread, bridgeOwner, bridgeQueue,
                bridgePeer, bridgeStarts, sockets, raced, reopens, bridgeDead>>
paperVars == <<paperRunning, paperThread, paperOwner, paperForeign, backlog, paperServing, said,
               seen, paperLost, paperStarts, failed, paperDead>>
vars == <<part, httpVars, wsVars, rconVars, bridgeVars, paperVars>>

\* A component the behaviour is not about needs one initial state only.
Init == /\ part \in {"http", "websocket", "rcon", "bridge", "paper"}
        /\ Http!Init /\ (part = "http" \/ \A c \in DOMAIN url : url[c].port = "text")
        /\ WebSocket!Init
        /\ Remote!Init /\ (part = "rcon" \/ rconPeer = "other")
        /\ Bridge!Init /\ (part = "bridge" \/ ~bridgePeer)
        /\ Paper!Init /\ (part = "paper" \/ ~paperForeign)

Next == /\ UNCHANGED part
        /\ \/ /\ part = "http" /\ Http!Next
              /\ UNCHANGED <<wsVars, rconVars, bridgeVars, paperVars>>
           \/ /\ part = "websocket" /\ WebSocket!Next
              /\ UNCHANGED <<httpVars, rconVars, bridgeVars, paperVars>>
           \/ /\ part = "rcon" /\ Remote!Next
              /\ UNCHANGED <<httpVars, wsVars, bridgeVars, paperVars>>
           \/ /\ part = "bridge" /\ Bridge!Next
              /\ UNCHANGED <<httpVars, wsVars, rconVars, paperVars>>
           \/ /\ part = "paper" /\ Paper!Next
              /\ UNCHANGED <<httpVars, wsVars, rconVars, bridgeVars>>

\* The Fairness of each component, for the one that runs.
Fairness ==
  /\ WF_httpVars(part = "http" /\ ~httpDead /\ Http!OwnerStep)
  /\ WF_httpVars(part = "http" /\ ~httpDead /\ Http!WorkerStep)
  /\ WF_httpVars(part = "http" /\ ~httpDead /\ (Http!PerformReturns \/ Http!PerformKills))
  /\ WF_httpVars(part = "http" /\ ~httpDead /\ (Http!CallbackReturns \/ Http!CallbackKills))
  /\ WF_wsVars(part = "websocket" /\ ~wsDead /\ WebSocket!OwnerStep)
  /\ WF_wsVars(part = "websocket" /\ ~wsDead /\ WebSocket!ThreadStep /\ wsThread # "handshake")
  /\ SF_wsVars(part = "websocket" /\ ~wsDead /\ WebSocket!AcceptsClient)
  /\ SF_wsVars(part = "websocket" /\ ~wsDead /\ WebSocket!Selects /\ wsThread' = "accept")
  /\ WF_rconVars(part = "rcon" /\ ~rconDead /\ Remote!ThreadStep)
  /\ WF_rconVars(part = "rcon" /\ ~rconDead /\ Remote!StopJoins)
  /\ WF_rconVars(part = "rcon" /\ ~rconDead /\ Remote!Receive)
  /\ WF_rconVars(part = "rcon" /\ ~rconDead /\ (Remote!OtherReplies \/ Remote!OtherCloses))
  /\ WF_bridgeVars(part = "bridge" /\ ~bridgeDead /\ Bridge!ThreadStep)
  /\ WF_bridgeVars(part = "bridge" /\ ~bridgeDead /\ Bridge!OwnerStep)
  /\ WF_paperVars(part = "paper" /\ ~paperDead /\ Paper!ThreadStep)
  /\ WF_paperVars(part = "paper" /\ ~paperDead /\ Paper!StopJoins)
  /\ SF_paperVars(part = "paper" /\ ~paperDead /\ Paper!Accepts)

Spec == Init /\ [][Next]_vars /\ Fairness

---------------------------------------------------------------------------
\* HttpClient.  Over stops and restarts, with calls from any thread and from
\* callbacks, no call is lost, answered twice or out of order, and no
\* callback runs once Stop has returned; it implements RequestQueue.
HttpAnswers == /\ [](Http!TypeOK /\ Http!NothingLost)
               /\ Http!QuietWhenStopped /\ Http!ImplementsContract

\* WebSocketServer.  onConnect and onDisconnect pair up whichever way clients
\* end, no descriptor of a client or a listener is left open, and none of
\* anyone else's is touched while serverFd_ names the listener.
WebSocketServes == /\ [](WebSocket!TypeOK /\ WebSocket!SessionsPaired /\ WebSocket!NothingLeaked)
                   /\ WebSocket!ForeignOnlyWhenStale

\* RconServer and RconClient.  Replies and requests, which nothing compares,
\* stay in step while replies arrive whole; the server refuses no password;
\* its handler runs for connections that sent something.
RconInStep == /\ [](Remote!TypeOK /\ Remote!InStep /\ Remote!NeverRefused)
              /\ Remote!HandledIfSent

\* NetworkBridge.  A stopped bridge claims a connection only after Stop ran
\* into a loop on its way to connect; sockets, never closed, are at most one
\* per Start and one more per Stop between the loop's two reads; packets wait
\* for a connection to have been made.
BridgeConnects == /\ [](Bridge!TypeOK /\ Bridge!StaleOnlyIfRaced /\ Bridge!SocketsBounded)
                  /\ Bridge!WaitsForConnection

\* PaperBridge.  A client is waiting, served, reported or reset, one of them
\* and once; clients are served in order; only a socket, bind or listen that
\* failed leaves a running bridge deaf.
PaperReports == /\ [](Paper!TypeOK /\ Paper!OneFate /\ Paper!DeafOnlyIfFailed)
                /\ Paper!ServedInOrder

\* Every Stop returns, unless HttpClient's falls between the predicate and
\* the sleep of its worker, or a silent client holds the one thread; calls of
\* a client that is not stopped are answered, clients that wait are served,
\* the bridge's queue empties, and calls of RconClient return.
NetworkProgress == /\ Http!StopReturns /\ Http!CallsAnswered
                   /\ WebSocket!StopReturns /\ WebSocket!WaitingServed
                   /\ Remote!CallsReturn /\ Remote!StopReturns
                   /\ Bridge!StopReturns /\ Bridge!QueueEmptied
                   /\ Paper!StopReturns /\ Paper!WaitingServed
=============================================================================
