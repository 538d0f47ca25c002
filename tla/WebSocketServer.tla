-------------------------- MODULE WebSocketServer --------------------------
(***************************************************************************)
(* src/core/websocket_server.cpp: one accept thread that serves one client *)
(* at a time, started and stopped by an owner.                             *)
(*                                                                         *)
(* Descriptors are numbers the system hands out, lowest first, and hands   *)
(* out again once closed: to this server or to any other part of the       *)
(* process ("other").  serverFd_ keeps its number after every close.       *)
(***************************************************************************)
EXTENDS Naturals, FiniteSets

CONSTANTS Fd,          \* the descriptor numbers the process may use
          MaxClients,  \* bound on the connections clients make
          MaxStarts    \* bound on the calls of Start

FdAssumption == Fd \subseteq Nat \ {0} /\ IsFiniteSet(Fd)
BoundAssumption == MaxClients \in Nat /\ MaxStarts \in Nat

VARIABLES holder,        \* who has each descriptor open
          serverFd,      \* serverFd_; 0 stands for -1
          running,       \* running_
          thread,        \* where AcceptLoop and HandleClient are
          clientFd,      \* the accepted descriptor
          clients,       \* clients_
          nextClientId,  \* nextClientId_
          waiting,       \* connections in the backlog of listen
          owner,         \* where the owner is: Stop
          dead,          \* the process was terminated
          starts, stale, \* Starts so far; serverFd_ names a closed descriptor
          connected,     \* history: ids onConnect_ was called with
          disconnected,  \* history: ids onDisconnect_ was called with
          foreign,       \* history: operations done on others' descriptors
          lost           \* history: listeners whose number was overwritten

fdVars == <<holder, serverFd, stale, foreign, lost>>
clientVars == <<clientFd, clients, nextClientId, connected, disconnected>>
ownerVars == <<running, owner, starts>>
vars == <<fdVars, clientVars, ownerVars, thread, waiting, dead>>

Callbacks == {"onConnect", "onMessage", "onDisconnect"}
Session == {"onConnect", "loop", "recv", "onMessage", "leave"}

Init == /\ holder = [f \in Fd |-> "nobody"]
        /\ serverFd = 0 /\ stale = FALSE /\ running = FALSE
        /\ thread = "none" /\ clientFd = 0 /\ clients = {} /\ nextClientId = 1
        /\ waiting = 0 /\ owner = "idle" /\ dead = FALSE /\ starts = 0
        /\ connected = {} /\ disconnected = {} /\ foreign = {} /\ lost = {}

Free == {f \in Fd : holder[f] = "nobody"}
Lowest == {f \in Free : \A g \in Free : f <= g}
Holds(who) == serverFd # 0 /\ holder[serverFd] = who
Listening == Holds("listener")
ThisClient == nextClientId - 1

---------------------------------------------------------------------------
\* The owner.

\* socket fails, or bind or listen fails and the new descriptor is closed.
\* On a running server this overwrites the number of its listener.
StartFails == /\ owner = "idle" /\ starts < MaxStarts
              /\ starts' = starts + 1
              /\ \/ serverFd' = 0 /\ stale' = FALSE
                 \/ serverFd' \in Lowest /\ stale' = TRUE
              /\ lost' = IF Listening THEN lost \cup {serverFd} ELSE lost
              /\ UNCHANGED <<holder, foreign, clientVars, running, owner, thread, waiting, dead>>

\* The new thread is assigned to acceptThread_: std::terminate if that still
\* is a thread.
StartRuns == /\ owner = "idle" /\ starts < MaxStarts
             /\ starts' = starts + 1
             /\ serverFd' \in Lowest /\ stale' = FALSE
             /\ holder' = [holder EXCEPT ![serverFd'] = "listener"]
             /\ waiting' = 0
             /\ running' = TRUE
             /\ IF thread = "none" THEN thread' = "loopTest" /\ dead' = FALSE
                                   ELSE thread' = thread /\ dead' = TRUE
             /\ UNCHANGED <<foreign, lost, clientVars, owner>>

\* Stop, also the destructor's: the store, the close, the join.
StopStores == /\ owner = "idle"
              /\ running' = FALSE /\ owner' = "closing"
              /\ UNCHANGED <<fdVars, clientVars, starts, thread, waiting, dead>>

StopCloses == /\ owner = "closing"
              /\ owner' = "joining"
              /\ IF serverFd = 0 THEN UNCHANGED <<fdVars, waiting>>
                 ELSE /\ holder' = [holder EXCEPT ![serverFd] = "nobody"]
                      /\ foreign' = IF Holds("other") THEN foreign \cup {"close"} ELSE foreign
                      /\ waiting' = IF Listening THEN 0 ELSE waiting
                      /\ stale' = TRUE
                      /\ UNCHANGED <<serverFd, lost>>
              /\ UNCHANGED <<clientVars, running, starts, thread, dead>>

StopJoins == /\ owner = "joining"
             /\ thread \in {"none", "exited"}
             /\ thread' = "none"
             /\ clients' = {}
             /\ owner' = "idle"
             /\ UNCHANGED <<fdVars, clientFd, nextClientId, connected, disconnected, running, starts, waiting, dead>>

---------------------------------------------------------------------------
\* The accept thread.
Moves(from, to) == thread = from /\ thread' = to
Elsewhere == UNCHANGED <<ownerVars, dead>>

\* while (running_), in AcceptLoop and in HandleClient.
LoopTests == /\ \/ Moves("loopTest", IF running THEN "select" ELSE "exited")
                \/ Moves("loop", IF running THEN "recv" ELSE "leave")
             /\ UNCHANGED <<fdVars, clientVars, waiting>> /\ Elsewhere

\* select times out, fails, or finds the descriptor of that number readable,
\* whoever holds it by now.
Selects == /\ \/ Moves("select", "loopTest")
              \/ /\ Moves("select", "accept")
                 /\ \/ Listening /\ waiting > 0
                    \/ Holds("other")
           /\ UNCHANGED <<fdVars, clientVars, waiting>> /\ Elsewhere

Accepted == /\ clientFd' \in Lowest
            /\ holder' = [holder EXCEPT ![clientFd'] = "client"]
            /\ nextClientId' = nextClientId + 1
            /\ Moves("accept", "handshake")
            /\ UNCHANGED <<serverFd, stale, lost, clients, connected, disconnected>> /\ Elsewhere

AcceptsClient == /\ Listening /\ waiting > 0
                 /\ waiting' = waiting - 1
                 /\ Accepted
                 /\ UNCHANGED foreign

\* The number belongs to another listener of the process by now.
AcceptsForeign == /\ Holds("other")
                  /\ nextClientId <= MaxClients
                  /\ foreign' = foreign \cup {"accept"}
                  /\ Accepted
                  /\ UNCHANGED waiting

\* Closed, no listener, or no descriptor left.
AcceptFails == /\ ~Listening \/ Free = {}
               /\ Moves("accept", "loopTest")
               /\ UNCHANGED <<fdVars, clientVars, waiting>> /\ Elsewhere

CloseClient == holder' = [holder EXCEPT ![clientFd] = "nobody"]

\* recv in PerformHandshake ends the connection or brings no key.
HandshakeFails == /\ Moves("handshake", "loopTest")
                  /\ CloseClient
                  /\ UNCHANGED <<serverFd, stale, foreign, lost, clientVars, waiting>> /\ Elsewhere

HandshakeSucceeds == /\ Moves("handshake", "onConnect")
                     /\ clients' = clients \cup {ThisClient}
                     /\ connected' = connected \cup {ThisClient}
                     /\ UNCHANGED <<fdVars, clientFd, nextClientId, disconnected, waiting>> /\ Elsewhere

\* recv blocks until there is data or an end.
Receives == /\ Moves("recv", "onMessage") \/ Moves("recv", "leave")
            /\ UNCHANGED <<fdVars, clientVars, waiting>> /\ Elsewhere

CallbackReturns == /\ Moves("onConnect", "loop") \/ Moves("onMessage", "loop")
                   /\ UNCHANGED <<fdVars, clientVars, waiting>> /\ Elsewhere

\* Faulty variant: a client cut off by Stop is not reported.
LeavesOnStop == {c \in {ThisClient} : running}
Reported == {ThisClient}

\* The end of HandleClient.
Leaves == /\ Moves("leave", "onDisconnect")
          /\ clients' = clients \ {ThisClient}
          /\ disconnected' = disconnected \cup Reported
          /\ UNCHANGED <<fdVars, clientFd, nextClientId, connected, waiting>> /\ Elsewhere

SessionEnds == /\ Moves("onDisconnect", "loopTest")
               /\ CloseClient
               /\ UNCHANGED <<serverFd, stale, foreign, lost, clientVars, waiting>> /\ Elsewhere

\* The thread dies with the process: a callback throws, or calls Stop and
\* joins itself; DecodeFrame's substr throws on a short frame; send hits a
\* connection the client has reset.
ThreadKills == /\ thread \in Callbacks \cup {"handshake", "recv"}
               /\ dead' = TRUE
               /\ UNCHANGED <<fdVars, clientVars, ownerVars, thread, waiting>>

---------------------------------------------------------------------------
\* Clients and the rest of the process.
ClientConnects == /\ Listening
                  /\ waiting + nextClientId <= MaxClients
                  /\ waiting' = waiting + 1
                  /\ UNCHANGED <<fdVars, clientVars, ownerVars, thread, dead>>

OtherOpens == /\ \E f \in Lowest : holder' = [holder EXCEPT ![f] = "other"]
              /\ UNCHANGED <<serverFd, stale, foreign, lost, clientVars, ownerVars, thread, waiting, dead>>
OtherCloses == /\ \E f \in Fd : /\ holder[f] = "other"
                                /\ holder' = [holder EXCEPT ![f] = "nobody"]
               /\ UNCHANGED <<serverFd, stale, foreign, lost, clientVars, ownerVars, thread, waiting, dead>>

OwnerStep == StopCloses \/ StopJoins
ThreadStep == LoopTests \/ Selects \/ AcceptsClient \/ AcceptsForeign \/ AcceptFails
              \/ HandshakeSucceeds \/ CallbackReturns \/ Leaves \/ SessionEnds
PeerEnds == HandshakeFails \/ Receives
Next == ~dead /\ (\/ StartFails \/ StartRuns \/ StopStores \/ OwnerStep
                  \/ ThreadStep \/ PeerEnds \/ ThreadKills
                  \/ ClientConnects \/ OtherOpens \/ OtherCloses)

\* Threads run, callbacks return, and select reports a connection that keeps
\* waiting; nothing makes a client say anything.
Fairness == /\ WF_vars(~dead /\ OwnerStep)
            /\ WF_vars(~dead /\ ThreadStep /\ thread # "handshake")
            /\ SF_vars(~dead /\ AcceptsClient)
            /\ SF_vars(~dead /\ Selects /\ thread' = "accept")
Spec == Init /\ [][Next]_vars
FairSpec == Spec /\ Fairness

---------------------------------------------------------------------------
TypeOK == /\ holder \in [Fd -> {"nobody", "listener", "client", "other"}]
          /\ serverFd \in Fd \cup {0} /\ clientFd \in Fd \cup {0}
          /\ running \in BOOLEAN /\ dead \in BOOLEAN /\ stale \in BOOLEAN
          /\ thread \in {"none", "loopTest", "select", "accept", "handshake", "exited"}
                          \cup Session \cup {"onDisconnect"}
          /\ nextClientId \in Nat \ {0} /\ waiting \in Nat
          /\ clients \subseteq 1..ThisClient
          /\ connected \subseteq 1..ThisClient /\ disconnected \subseteq connected
          /\ owner \in {"idle", "closing", "joining"}
          /\ starts \in 0..MaxStarts /\ lost \subseteq Fd /\ foreign \subseteq {"close", "accept"}

\* Every onConnect is followed by one onDisconnect of the same id before the
\* next client's, also for a client that Stop cuts off, and the clients
\* counted are the ones in between.
SessionsPaired == /\ connected \ disconnected = IF thread \in Session THEN {ThisClient} ELSE {}
                  /\ clients = connected \ disconnected

\* Whichever way its clients ended, a server whose thread is not busy with
\* one holds no client's descriptor, and a stopped one no listener, unless a
\* Start failed while it ran and took serverFd_ for its own descriptor.
NothingLeaked == ~dead =>
   /\ thread \in {"none", "loopTest", "select", "accept", "exited"} =>
         \A f \in Fd : holder[f] # "client"
   /\ owner = "idle" /\ thread = "none" => \A f \in Fd \ lost : holder[f] # "listener"

\* The server touches a descriptor that belongs to somebody else only after
\* its own was closed and serverFd_ kept the number: in a second Stop (the
\* destructor's after an explicit one), in a Stop after a failed Start, or in
\* a select that Stop overtook; never while it runs, unless a Start failed on
\* the running server.
ForeignOnlyWhenStale == [][foreign' # foreign => stale /\ (~running \/ lost # {})]_vars

\* Stop returns once no client keeps the thread in recv.
StopReturns == (owner = "joining") ~> (owner = "idle" \/ dead \/ thread \in {"recv", "handshake"})

\* A waiting client is served unless the server stops, descriptors run out,
\* the client before it says nothing, or a Start that failed on the running
\* server has left the thread without its listener.
WaitingServed == (waiting > 0 /\ running) ~>
   (thread \in {"recv", "handshake"} \/ ~running \/ dead \/ Free = {} \/ lost # {})
=============================================================================
