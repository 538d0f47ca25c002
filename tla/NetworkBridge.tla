--------------------------- MODULE NetworkBridge ---------------------------
(***************************************************************************)
(* src/integration/network_bridge.cpp: an I/O thread that connects to a    *)
(* local port once and then empties the send queue every ten milliseconds. *)
(* It sends nothing, never closes a socket and never looks whether the     *)
(* peer is still there.                                                    *)
(***************************************************************************)
EXTENDS Naturals

CONSTANTS MaxStarts,  \* bound on calls of Start
          MaxPackets  \* bound on the packets queued at a time
BoundAssumption == MaxStarts \in Nat /\ MaxPackets \in Nat

VARIABLES
  running,   \* running_
  connected, \* connected_
  thread,    \* ioThread_: the statement it is at
  owner,     \* the thread that calls Start and Stop
  queue,     \* length of sendQueue_
  peer,      \* somebody listens on the port
  starts,    \* calls of Start so far
  sockets,   \* sockets connected so far; none is ever closed
  raced,     \* history: Disconnect ran after the loop had read running_, before it had connected
  reopens,   \* history: Stops that cleared connected_ between the loop's two reads
  dead       \* the process has been terminated
histories == <<raced, reopens>>
vars == <<running, connected, thread, owner, queue, peer, starts, sockets, histories, dead>>

Init == /\ running = FALSE /\ connected = FALSE /\ thread = "none" /\ owner = "idle"
        /\ queue = 0 /\ peer \in BOOLEAN /\ starts = 0 /\ sockets = 0
        /\ raced = FALSE /\ reopens = 0 /\ dead = FALSE

---------------------------------------------------------------------------
\* A joinable std::thread may not be assigned to.
Start == /\ owner = "idle" /\ starts < MaxStarts
         /\ running' = TRUE /\ starts' = starts + 1
         /\ dead' = (thread # "none")
         /\ thread' = IF dead' THEN thread ELSE "test"
         /\ raced' = FALSE
         /\ UNCHANGED <<connected, owner, queue, peer, sockets, reopens>>

StopStores == /\ owner = "idle" /\ running' = FALSE /\ owner' = "disconnect"
              /\ UNCHANGED <<connected, thread, queue, peer, starts, sockets, histories, dead>>

StopDisconnects == /\ owner = "disconnect" /\ connected' = FALSE /\ owner' = "join"
                   /\ raced' = (thread \in {"connected?", "connect", "store"})
                   /\ reopens' = reopens + IF thread = "connected?" /\ connected THEN 1 ELSE 0
                   /\ UNCHANGED <<running, thread, queue, peer, starts, sockets, dead>>

StopJoins == /\ owner = "join" /\ thread \in {"none", "ended"}
             /\ thread' = "none" /\ owner' = "idle"
             /\ UNCHANGED <<running, connected, queue, peer, starts, sockets, histories, dead>>

Send == /\ queue < MaxPackets /\ queue' = queue + 1
        /\ UNCHANGED <<running, connected, thread, owner, peer, starts, sockets, histories, dead>>

---------------------------------------------------------------------------
Goes(to) == /\ thread' = to /\ UNCHANGED <<running, owner, peer, starts, histories, dead>>

\* Faulty variant: the queue is emptied before Connect.
DrainsFirst == /\ thread \in {"connect", "drain"} /\ queue' = 0 /\ Goes("test")
               /\ UNCHANGED <<connected, sockets>>

\* The two flags are read one after the other, and not again.
LoopTests == /\ thread = "test" /\ Goes(IF running THEN "connected?" ELSE "ended")
             /\ UNCHANGED <<connected, queue, sockets>>
LoopTestsConnected == /\ thread = "connected?" /\ Goes(IF connected THEN "drain" ELSE "connect")
                      /\ UNCHANGED <<connected, queue, sockets>>

\* Nobody listens, or no descriptor is left for a socket.
ConnectFails == /\ thread = "connect" /\ Goes("test") /\ UNCHANGED <<connected, queue, sockets>>

ConnectSucceeds == /\ thread = "connect" /\ peer /\ Goes("store")
                   /\ sockets' = sockets + 1
                   /\ UNCHANGED <<connected, queue>>

ConnectStores == /\ thread = "store" /\ connected' = TRUE /\ Goes("drain")
                 /\ UNCHANGED <<queue, sockets>>

Drains == /\ thread = "drain" /\ queue' = 0 /\ Goes("test")
          /\ UNCHANGED <<connected, sockets>>

\* The peer comes and goes without the bridge noticing.
PeerTurns == /\ peer' = ~peer
             /\ UNCHANGED <<running, connected, thread, owner, queue, starts, sockets, histories, dead>>

ThreadStep == LoopTests \/ LoopTestsConnected \/ ConnectFails \/ ConnectSucceeds
              \/ ConnectStores \/ Drains
OwnerStep == StopDisconnects \/ StopJoins
Next == ~dead /\ (Start \/ StopStores \/ OwnerStep \/ Send \/ ThreadStep \/ PeerTurns)
\* The thread is scheduled, connect to the local host returns at once, a
\* Stop that has begun goes on.
Fairness == WF_vars(~dead /\ ThreadStep) /\ WF_vars(~dead /\ OwnerStep)
Spec == Init /\ [][Next]_vars /\ Fairness

---------------------------------------------------------------------------
(* Every variable has a value of its type. *)
TypeOK == /\ {running, connected, peer, raced, dead} \subseteq BOOLEAN
          /\ thread \in {"none", "test", "connected?", "connect", "store", "drain", "ended"}
          /\ owner \in {"idle", "disconnect", "join"}
          /\ queue \in 0..MaxPackets /\ starts \in 0..MaxStarts
          /\ reopens \in 0..starts /\ sockets \in 0..2 * MaxStarts

(* A stopped bridge says that it is connected only if its Disconnect ran   *)
(* when the loop had seen running_ set and was on its way to store TRUE;   *)
(* Stop clears the flag otherwise.                                         *)
StaleOnlyIfRaced == thread = "none" /\ owner = "idle" /\ connected => raced

(* The sockets that are never closed are at most one per Start, and a      *)
(* second where Stop cleared connected_ between the loop's reads of the    *)
(* two flags: the loop, already stopped, connects once more.               *)
SocketsBounded == sockets <= starts + reopens

(* Packets queued before the first connection wait for it: whatever peer   *)
(* and Stop do, none is dropped while no connection was ever made.         *)
WaitsForConnection == [][queue' < queue => sockets > 0]_vars

(* Stop returns: no step of the thread waits for the peer. *)
StopReturns == owner = "join" ~> owner = "idle" \/ dead

(* A running bridge that is connected, even to nobody, empties its queue. *)
QueueEmptied == connected /\ running ~> queue = 0 \/ ~running \/ dead
=============================================================================
