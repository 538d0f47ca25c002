-------------------------------- MODULE Rcon --------------------------------
(***************************************************************************)
(* src/core/rcon.cpp: RconClient, used by one thread, against either the   *)
(* RconServer of the same file or another program's RCON server, which     *)
(* answers every packet.  RconServer takes one client at a time, reads one *)
(* chunk, calls its handler with "help" and closes: it looks at neither    *)
(* packet nor password and sends nothing.                                  *)
(***************************************************************************)
EXTENDS Integers, Sequences

CONSTANTS MaxConn,    \* bound on the connections the client makes
          MaxRequest  \* bound on the packets it sends
BoundAssumption == MaxConn \in Nat \ {0} /\ MaxRequest \in Nat

VARIABLES
  peer,      \* the server: "RconServer" or "other"
  running,   \* running_ of the server
  thread,    \* its accept thread
  serving,   \* the connection HandleClient serves
  owner,     \* the thread that starts and stops the server
  conn,      \* state of every connection, see Link
  unread,    \* packets the server has not read, per connection
  made,      \* connections made so far
  sock,      \* socketFd_ of the client: its connection, 0 for -1
  connected, \* connected_ of the client
  op,        \* the call the client is in, "none" between calls
  request,   \* nextRequestId_ - 1
  replies,   \* request ids of the replies on their way on sock's connection
  garbled,   \* a short recv has left the middle of a packet in the stream
  last,      \* what the last ReceivePacket gave: [by, how, id]
  served,    \* history: connections commandHandler_ was called for
  dead       \* SIGPIPE ended the process

serverVars == <<peer, running, thread, serving, owner, served>>
clientVars == <<sock, connected, op, request, garbled, last>>
vars == <<serverVars, conn, unread, made, clientVars, replies, dead>>

Conn == 1..MaxConn
\* Connected and not accepted yet; accepted; closed by the server; closed
\* and then written to, or closed unread; closed by the client.
Link == {"none", "pending", "accepted", "closed", "reset", "gone"}
Nothing == [by |-> "none", how |-> "none", id |-> 0]

Init == /\ peer \in {"RconServer", "other"}
        /\ running = FALSE /\ thread = "none" /\ serving = 0 /\ owner = "idle"
        /\ conn = [c \in Conn |-> "none"] /\ unread = [c \in Conn |-> 0] /\ made = 0
        /\ sock = 0 /\ connected = FALSE /\ op = "none" /\ request = 0
        /\ replies = <<>> /\ garbled = FALSE /\ last = Nothing
        /\ served = {} /\ dead = FALSE

---------------------------------------------------------------------------
\* The client.  Connect does not look whether it is connected already: the
\* old socket then stays open and nobody has its number any more.
Accepting == peer = "other" \/ running
Connect == /\ op = "none" /\ made < MaxConn /\ Accepting
           /\ made' = made + 1
           /\ conn' = [conn EXCEPT ![made'] = IF peer = "other" THEN "accepted" ELSE "pending"]
           /\ sock' = made' /\ connected' = TRUE
           /\ garbled' = FALSE /\ replies' = <<>>
           /\ UNCHANGED <<serverVars, unread, op, request, last, dead>>

\* No socket is to be had, or nobody listens, or the network is in the way,
\* whoever the peer is.  connected_ keeps what it was.
ConnectFails == /\ op = "none" /\ sock' = 0
                /\ UNCHANGED <<serverVars, conn, unread, made, connected, op, request, replies, garbled, last, dead>>

Disconnect == /\ op = "none"
              /\ conn' = IF sock = 0 THEN conn ELSE [conn EXCEPT ![sock] = "gone"]
              /\ sock' = 0 /\ connected' = FALSE
              /\ UNCHANGED <<serverVars, unread, made, op, request, replies, garbled, last, dead>>

\* Faulty variant: the reply to a command is not waited for.
AwaitsConsent(kind) == IF kind = "authenticate" THEN kind ELSE "none"

Unsent == sock = 0
Awaits(kind) == kind

\* Authenticate and SendCommand: SendPacket, then ReceivePacket.  Without a
\* socket the send fails; on a connection the server has closed the first
\* send succeeds and provokes a reset, the next one raises SIGPIPE.
Sends(kind) ==
  /\ op = "none" /\ request < MaxRequest
  /\ request' = request + 1
  /\ IF Unsent THEN op' = "none" /\ last' = [by |-> kind, how |-> "unsent", id |-> 0]
               ELSE op' = Awaits(kind) /\ last' = last
  /\ dead' = (sock # 0 /\ conn[sock] = "reset")
  /\ unread' = IF sock # 0 /\ conn[sock] \in {"pending", "accepted"}
               THEN [unread EXCEPT ![sock] = @ + 1] ELSE unread
  /\ conn' = IF sock # 0 /\ conn[sock] = "closed" THEN [conn EXCEPT ![sock] = "reset"] ELSE conn
  /\ UNCHANGED <<serverVars, made, sock, connected, replies, garbled>>

Given(how, id) == last' = [by |-> op, how |-> how, id |-> id] /\ op' = "none"

\* ReceivePacket returns a packet of zeros when recv gives no whole header.
LostId == 0

ReceivesNothing == /\ op # "none" /\ conn[sock] \in {"closed", "reset"} /\ replies = <<>>
                   /\ Given("lost", LostId)
                   /\ UNCHANGED <<serverVars, conn, unread, made, sock, connected, request, replies, garbled, dead>>

\* recv of header or payload may give less than the packet (how the stream
\* is cut is up to the network): what is left is the next header, at once.
ReceivesReply == /\ op # "none" /\ replies # <<>> /\ ~garbled
                 /\ \/ Given("reply", Head(replies)) /\ garbled' = FALSE
                    \/ Given("lost", LostId) /\ garbled' = TRUE
                 /\ replies' = Tail(replies)
                 /\ UNCHANGED <<serverVars, conn, unread, made, sock, connected, request, dead>>

\* From then on until the next Connect any number may be read as an id, or
\* as a length that throws.
ReceivesGarbage == /\ op # "none" /\ garbled
                   /\ \E id \in {-1, 0} : Given("garbage", id)
                   /\ replies' \in {replies, <<>>}
                   /\ UNCHANGED <<serverVars, conn, unread, made, sock, connected, request, garbled, dead>>

ReturnsTrue == last.how # "unsent" /\ last.id # -1   \* what Authenticate returns

---------------------------------------------------------------------------
\* Another program's server: each packet gets its id back or -1, in order;
\* it may close a connection.
OtherReplies == /\ peer = "other" /\ sock # 0 /\ unread[sock] > 0
                /\ \E id \in {-1, request - unread[sock] + 1} : replies' = Append(replies, id)
                /\ unread' = [unread EXCEPT ![sock] = @ - 1]
                /\ UNCHANGED <<serverVars, conn, made, clientVars, dead>>
OtherCloses == /\ peer = "other" /\ sock # 0 /\ conn[sock] = "accepted"
               /\ conn' = [conn EXCEPT ![sock] = IF unread[sock] > 0 THEN "reset" ELSE "closed"]
               /\ unread' = [unread EXCEPT ![sock] = 0]
               /\ UNCHANGED <<serverVars, made, clientVars, replies, dead>>

---------------------------------------------------------------------------
\* RconServer.
ServerOnly == UNCHANGED <<peer, made, clientVars, replies, dead>>

Start == /\ peer = "RconServer" /\ owner = "idle" /\ thread = "none"
         /\ running' = TRUE /\ thread' = "loopTest"
         /\ UNCHANGED <<serving, owner, served, conn, unread>> /\ ServerOnly

\* Stop stores running_ and closes the listener, which resets what waits
\* in its backlog, and joins.
StopCloses == /\ owner = "idle" /\ thread # "none"
              /\ running' = FALSE /\ owner' = "joining"
              /\ conn' = [c \in Conn |-> IF conn[c] = "pending" THEN "reset" ELSE conn[c]]
              /\ UNCHANGED <<thread, serving, served, unread>> /\ ServerOnly

StopJoins == /\ owner = "joining" /\ thread = "exited"
             /\ thread' = "none" /\ owner' = "idle"
             /\ UNCHANGED <<running, serving, served, conn, unread>> /\ ServerOnly

LoopTests == /\ thread = "loopTest"
             /\ thread' = IF running THEN "select" ELSE "exited"
             /\ UNCHANGED <<running, serving, owner, served, conn, unread>> /\ ServerOnly

\* The oldest connection of the backlog that its client has not closed.
Oldest == {c \in Conn : conn[c] = "pending" /\ \A d \in 1..(c - 1) : conn[d] # "pending"}

\* select and accept, or a timeout of select.
Accepts == /\ thread = "select"
           /\ IF Oldest = {} THEN thread' = "loopTest" /\ UNCHANGED <<serving, conn>>
              ELSE /\ serving' \in Oldest
                   /\ conn' = [conn EXCEPT ![serving'] = "accepted"]
                   /\ thread' = "recv"
           /\ UNCHANGED <<running, owner, served, unread>> /\ ServerOnly

HasSent == {c \in {serving} : unread[c] > 0}
Closed == [conn EXCEPT ![serving] = IF @ = "gone" THEN "gone" ELSE "closed"]

\* HandleClient's one recv, which blocks until there is data or the client
\* has closed, the handler, and close of the connection.
Handles == /\ thread = "recv"
           /\ unread[serving] > 0 \/ conn[serving] = "gone"
           /\ served' = served \cup HasSent
           /\ conn' = Closed
           /\ unread' = [unread EXCEPT ![serving] = 0]
           /\ thread' = "loopTest"
           /\ UNCHANGED <<running, serving, owner>> /\ ServerOnly

ThreadStep == LoopTests \/ Accepts \/ Handles
ClientStep == \/ Connect \/ ConnectFails \/ Disconnect
              \/ \E kind \in {"authenticate", "command"} : Sends(kind)
Receive == ReceivesNothing \/ ReceivesReply \/ ReceivesGarbage
Next == ~dead /\ (ClientStep \/ Receive \/ OtherReplies \/ OtherCloses
                  \/ Start \/ StopCloses \/ StopJoins \/ ThreadStep)

\* Threads run, other servers answer or close; nothing makes a client act.
Fairness == WF_vars(~dead /\ ThreadStep) /\ WF_vars(~dead /\ StopJoins)
            /\ WF_vars(~dead /\ Receive) /\ WF_vars(~dead /\ (OtherReplies \/ OtherCloses))
FairSpec == Init /\ [][Next]_vars /\ Fairness

---------------------------------------------------------------------------
TypeOK == /\ conn \in [Conn -> Link] /\ unread \in [Conn -> Nat] /\ made \in 0..MaxConn
          /\ thread \in {"none", "loopTest", "select", "recv", "exited"}
          /\ serving \in 0..MaxConn /\ sock \in 0..MaxConn /\ served \subseteq Conn
          /\ op \in {"none", "authenticate", "command"} /\ request \in 0..MaxRequest
          /\ op # "none" => sock # 0
          /\ replies \in Seq(Int) /\ owner \in {"idle", "joining"}
          /\ running \in BOOLEAN /\ connected \in BOOLEAN /\ garbled \in BOOLEAN

\* As long as replies arrive in one piece, the client that waits for each
\* reply gets the one to its own request, although nothing compares the ids;
\* a new Connect gets rid of what a cut reply left behind.
InStep == last.how = "reply" /\ op = "none" => last.id \in {-1, request}

\* RconServer never lets an Authenticate fail that it could be sent: its
\* closing without an answer reads as consent, whatever the passwords.
NeverRefused == peer = "RconServer" /\ last.by = "authenticate" /\ ~ReturnsTrue
                   => last.how = "unsent"

\* The handler runs only for a connection the client sent something on, if
\* it has left since or not, and never for one that Stop reset.
HandledIfSent == [][\A c \in Conn : c \in served' \ served =>
                       conn[c] \in {"accepted", "gone"} /\ unread[c] > 0]_vars

\* A client that waits for RconServer is let go, unless a Connect without
\* Disconnect before it left a socket open that the server's one thread
\* reads from for ever.
CallsReturn == (op # "none" /\ \A c \in Conn \ {sock} : conn[c] \notin {"pending", "accepted"})
                  ~> (op = "none" \/ dead)

\* Stop returns unless a client that says nothing is being served.
StopReturns == owner = "joining" ~> (owner = "idle" \/ dead \/ thread = "recv")
=============================================================================
