---------------------------- MODULE PaperBridge ----------------------------
(***************************************************************************)
(* src/integration/paper_bridge.cpp: one thread that listens, takes one    *)
(* client at a time, reads once and hands what it read to the callback,    *)
(* which was set before Start.  socket, bind and listen are called on the  *)
(* thread, after Start has returned.                                       *)
(***************************************************************************)
EXTENDS Naturals, Sequences, SequencesExt

CONSTANTS Clients,   \* the programs that connect to the port
          MaxStarts  \* bound on calls of Start
ClientsAssumption == "none" \notin Clients /\ MaxStarts \in Nat

VARIABLES
  running, \* running_
  thread,  \* listenerThread_: the statement it is at
  owner,   \* the thread that calls Start and Stop
  foreign, \* another socket is bound to the port
  backlog, \* clients that have connected and wait for accept
  serving, \* the client the thread has accepted
  said,    \* clients that have sent something, or closed
  seen,    \* history: clients the callback was called for, in order
  lost,    \* history: clients whose connection was reset before they were accepted
  starts,  \* calls of Start so far
  failed,  \* history: socket, bind or listen failed in this run
  dead     \* the process has been terminated
clientVars == <<backlog, serving, said, seen, lost>>
vars == <<running, thread, owner, foreign, clientVars, starts, failed, dead>>

None == "none"
Known == lost \cup ToSet(seen) \cup ToSet(backlog) \cup {serving}
Listening == thread \in {"test", "select", "recv", "callback"}

Init == /\ running = FALSE /\ thread = None /\ owner = "idle" /\ foreign \in BOOLEAN
        /\ backlog = <<>> /\ serving = None /\ said = {} /\ seen = <<>> /\ lost = {}
        /\ starts = 0 /\ failed = FALSE /\ dead = FALSE

---------------------------------------------------------------------------
Start == /\ owner = "idle" /\ starts < MaxStarts
         /\ running' = TRUE /\ starts' = starts + 1
         /\ dead' = (thread # None)   \* a joinable thread is assigned to
         /\ failed' = (failed /\ dead')
         /\ thread' = IF dead' THEN thread ELSE "socket"
         /\ UNCHANGED <<owner, foreign, clientVars>>

StopStores == /\ owner = "idle" /\ running' = FALSE /\ owner' = "join"
              /\ UNCHANGED <<thread, foreign, clientVars, starts, failed, dead>>

StopJoins == /\ owner = "join" /\ thread \in {None, "ended"}
             /\ thread' = None /\ owner' = "idle"
             /\ UNCHANGED <<running, foreign, clientVars, starts, failed, dead>>

---------------------------------------------------------------------------
Goes(to) == thread' = to /\ UNCHANGED <<running, owner, foreign, starts, dead>>

\* Faulty variant: the thread ends after one client.
EndsAfterOne == /\ thread = "test" /\ UNCHANGED <<clientVars, failed>>
                /\ Goes(IF running /\ seen = <<>> THEN "select" ELSE "ended")

\* No descriptor is left, the port is taken or not permitted, or another
\* socket bound to it was the first to listen.
SetUp == {"socket", "bind", "listen"}
SetUpFails == /\ thread \in SetUp
              /\ Goes("ended") /\ failed' = TRUE /\ UNCHANGED clientVars

SetsUp == /\ thread \in SetUp /\ (foreign => thread = "socket")
          /\ Goes(CASE thread = "socket" -> "bind" [] thread = "bind" -> "listen"
                    [] thread = "listen" -> "test")
          /\ UNCHANGED <<clientVars, failed>>

\* Closing the listener resets the clients that nobody has accepted.
LoopTests == /\ thread = "test"
             /\ IF running THEN Goes("select") /\ UNCHANGED <<clientVars, failed>>
                ELSE /\ Goes("ended") /\ backlog' = <<>> /\ lost' = lost \cup ToSet(backlog)
                     /\ UNCHANGED <<serving, said, seen, failed>>

TimesOut == thread = "select" /\ backlog = <<>> /\ Goes("test") /\ UNCHANGED <<clientVars, failed>>

Accepts == /\ thread = "select" /\ backlog # <<>>
           /\ serving' = Head(backlog) /\ backlog' = Tail(backlog)
           /\ Goes("recv") /\ UNCHANGED <<said, seen, lost, failed>>

\* The client has given up and is gone, or there is no descriptor for it and
\* it stays where it is.
AcceptFails == /\ thread = "select" /\ backlog # <<>>
               /\ \/ UNCHANGED <<backlog, lost>>
                  \/ backlog' = Tail(backlog) /\ lost' = lost \cup {Head(backlog)}
               /\ Goes("test") /\ UNCHANGED <<serving, said, seen, failed>>

\* recv blocks; the callback is called whatever it returned.
Receives == /\ thread = "recv" /\ serving \in said
            /\ Goes("callback") /\ UNCHANGED <<clientVars, failed>>

CallbackReturns == /\ thread = "callback"
                   /\ seen' = Append(seen, serving) /\ serving' = None
                   /\ Goes("test") /\ UNCHANGED <<backlog, said, lost, failed>>

\* The callback throws, or calls Stop or Start, which join or assign to the
\* thread they run on: an exception leaves the thread's function.
CallbackKills == /\ thread = "callback" /\ dead' = TRUE
                 /\ UNCHANGED <<running, thread, owner, foreign, clientVars, starts, failed>>

\* A client connects while the port listens, and later sends or closes.
ClientConnects(c) == /\ Listening /\ c \notin Known
                     /\ backlog' = Append(backlog, c)
                     /\ UNCHANGED <<running, thread, owner, foreign, serving, said, seen, lost, starts, failed, dead>>
ClientSpeaks(c) == /\ c \in Known \ said /\ said' = said \cup {c}
                   /\ UNCHANGED <<running, thread, owner, foreign, backlog, serving, seen, lost, starts, failed, dead>>
ForeignTurns == /\ ~Listening /\ foreign' = ~foreign
                /\ UNCHANGED <<running, thread, owner, clientVars, starts, failed, dead>>

ThreadStep == \/ SetUpFails \/ SetsUp \/ LoopTests \/ TimesOut \/ Accepts \/ AcceptFails
              \/ Receives \/ CallbackReturns \/ CallbackKills
Next == /\ ~dead
        /\ \/ Start \/ StopStores \/ StopJoins \/ ThreadStep \/ ForeignTurns
           \/ \E c \in Clients : ClientConnects(c) \/ ClientSpeaks(c)
\* The thread is scheduled and the callback comes to an end; a Stop that has
\* begun goes on; accept does not fail for ever.  Nothing makes a client speak.
Fairness == /\ WF_vars(~dead /\ ThreadStep) /\ WF_vars(~dead /\ StopJoins)
            /\ SF_vars(~dead /\ Accepts)
Spec == Init /\ [][Next]_vars /\ Fairness

---------------------------------------------------------------------------
(* Every variable has a value of its type, and an accepted client's        *)
(* descriptor is open exactly while the client is served.                  *)
TypeOK == /\ {running, foreign, failed, dead} \subseteq BOOLEAN
          /\ thread \in SetUp \cup {None, "test", "select", "recv", "callback", "ended"}
          /\ owner \in {"idle", "join"} /\ starts \in 0..MaxStarts
          /\ serving \in Clients \cup {None} /\ {said, lost} \subseteq SUBSET Clients
          /\ serving # None <=> thread \in {"recv", "callback"}
          /\ backlog \in Seq(Clients) /\ seen \in Seq(Clients)

(* A client is waiting, being served, reported or reset, never two of them *)
(* and never reported twice, over any number of stops and restarts.        *)
OneFate == /\ IsInjective(backlog \o seen)
           /\ lost \cap (ToSet(backlog \o seen) \cup {serving}) = {}
           /\ serving \notin ToSet(backlog \o seen)

(* Clients are reported in the order they connected: one that waits now is *)
(* not overtaken by one that comes later.                                  *)
ServedInOrder == [][\A c \in ToSet(backlog) :
                      serving' # serving /\ serving' # None => serving' = Head(backlog)]_vars

(* Start reports nothing when its thread cannot listen.  A bridge that is  *)
(* started and whose thread is over is one whose socket, bind or listen    *)
(* failed: an accept that fails, or a silent client, does not end it.      *)
DeafOnlyIfFailed == running /\ thread = "ended" => failed

(* Stop returns unless the client that is being served never speaks. *)
StopReturns == owner = "join" ~> \/ owner = "idle" \/ dead
                                 \/ thread = "recv" /\ serving \notin said

(* A client that waits is reported or reset, unless the one before it, or  *)
(* itself, never speaks.                                                   *)
WaitingServed == \A c \in Clients :
  c \in ToSet(backlog) ~> \/ c \in ToSet(seen) \cup lost \/ dead
                          \/ thread = "recv" /\ serving \notin said
=============================================================================
