----------------------------- MODULE HttpClient -----------------------------
(***************************************************************************)
(* src/core/http_client.cpp: requests queued by any thread and performed   *)
(* one after the other by a worker thread.  Stop may be followed by        *)
(* another Start.  mutex_ is held between two actions only while the       *)
(* worker is at "block": it has evaluated wait's predicate and is about to *)
(* sleep.  Stop takes no mutex.                                            *)
(***************************************************************************)
EXTENDS Naturals, Sequences

CONSTANTS Call,      \* the calls of Get, Post and Request
          Url,       \* [scheme : it has "://", port : "none", "number", "text"]
          Status,    \* the codes a status line may carry
          MaxStarts  \* bound on the calls of Start

StatusAssumption == Status \subseteq Nat /\ MaxStarts \in Nat

VARIABLES running,   \* running_
          queue,     \* queue_: the calls not yet taken
          worker,    \* where WorkerLoop is; "none" before the first Start
          owner,     \* where the thread that starts and stops the client is
          url,       \* the URL of each call
          response,  \* what PerformRequest returned last
          dead,      \* std::terminate or SIGPIPE ended the process
          starts,    \* number of Starts so far
          asked,     \* history: the calls in the order they were queued
          answered   \* history: the calls whose callback has run

vars == <<running, queue, worker, owner, url, response, dead, starts, asked, answered>>
requestVars == <<queue, url, asked>>
workerVars == <<worker, response, answered>>

MutexFree == worker # "block"
NoResponse == [statusCode |-> 0, success |-> FALSE]

Init == /\ running = FALSE /\ queue = <<>> /\ worker = "none" /\ owner = "idle"
        /\ url \in [Call -> Url]
        /\ response = NoResponse /\ dead = FALSE /\ starts = 0
        /\ asked = <<>> /\ answered = <<>>

\* Faulty variant: nobody is notified.
NotifiedNobody == worker
\* A notified wait evaluates its predicate again.
Notified == IF worker = "wait" THEN "check" ELSE worker

Terminate == dead' = TRUE /\ UNCHANGED <<running, requestVars, workerVars, owner, starts>>

---------------------------------------------------------------------------
\* The owner.  Start on a client whose worker was not joined assigns to a
\* joinable std::thread, which terminates the process.
Start == /\ owner = "idle"
         /\ starts < MaxStarts
         /\ running' = TRUE
         /\ starts' = starts + 1
         /\ IF worker = "none" THEN worker' = "test" /\ dead' = FALSE
                               ELSE worker' = worker /\ dead' = TRUE
         /\ UNCHANGED <<requestVars, owner, response, answered>>

\* Stop, also the destructor's: a store, a notify_all and a join, none of
\* them under the mutex.
StopStores == /\ owner = "idle"
              /\ running' = FALSE
              /\ owner' = "stopping"
              /\ UNCHANGED <<requestVars, workerVars, dead, starts>>

StopNotifies == /\ owner = "stopping"
                /\ worker' = Notified
                /\ owner' = "joining"
                /\ UNCHANGED <<running, requestVars, response, dead, starts, answered>>

\* Faulty variant: the worker is left to itself.
StopDetaches == /\ owner = "joining" /\ owner' = "idle" /\ worker' = worker
                /\ UNCHANGED <<running, requestVars, response, dead, starts, answered>>

StopJoins == /\ owner = "joining"
             /\ worker \in {"none", "exited"}
             /\ worker' = "none"
             /\ owner' = "idle"
             /\ UNCHANGED <<running, requestVars, response, dead, starts, answered>>

\* Get, Post and Request: from any thread, a callback included, at any time.
Request(c) == /\ MutexFree
              /\ \A i \in DOMAIN asked : asked[i] # c
              /\ queue' = Append(queue, c)
              /\ asked' = Append(asked, c)
              /\ worker' = Notified
              /\ UNCHANGED <<running, owner, url, response, dead, starts, answered>>

---------------------------------------------------------------------------
\* The worker.
WorkerTests == /\ worker = "test"
               /\ worker' = IF running THEN "check" ELSE "exited"
               /\ UNCHANGED <<running, requestVars, owner, response, dead, starts, answered>>

\* Faulty variant: the request is copied, not popped.
TakesACopy == queue
Rest == Tail(queue)

\* Under the mutex: wait's predicate, the test of running_ and the pop.
WorkerChecks == /\ worker = "check"
                /\ worker' = IF ~running THEN "exited"
                             ELSE IF queue = <<>> THEN "block" ELSE "perform"
                /\ queue' = IF worker' = "perform" THEN Rest ELSE queue
                /\ UNCHANGED <<running, url, asked, owner, response, dead, starts, answered>>

WorkerBlocks == /\ worker = "block"
                /\ worker' = "wait"
                /\ UNCHANGED <<running, requestVars, owner, response, dead, starts, answered>>

SpuriousWakeup == /\ worker = "wait"
                  /\ worker' = "check"
                  /\ UNCHANGED <<running, requestVars, owner, response, dead, starts, answered>>

\* The call being performed is the last one taken from the queue.
Taken == Len(asked) - Len(queue)
Current == asked[Taken]

\* PerformRequest: no "://" gives the empty response, and so do an unknown
\* host, a failing socket or connect, and a reply without a complete status
\* line; a status line without a number leaves statusCode 0.
Responses(u) == IF ~u.scheme THEN {NoResponse}
                ELSE {NoResponse} \cup
                     {[statusCode |-> s, success |-> s \in 200..299] : s \in Status}

PerformReturns == /\ worker = "perform"
                  /\ url[Current].scheme => url[Current].port # "text"
                  /\ response' \in Responses(url[Current])
                  /\ worker' = "callback"
                  /\ UNCHANGED <<running, requestVars, owner, dead, starts, answered>>

\* std::stoi throws for a port that is no number, which nobody catches in
\* the thread; send on a connection the peer has reset raises SIGPIPE.
PerformKills == worker = "perform" /\ url[Current].scheme /\ Terminate

CallbackReturns == /\ worker = "callback"
                   /\ answered' = Append(answered, Current)
                   /\ worker' = "test"
                   /\ UNCHANGED <<running, requestVars, owner, response, dead, starts>>

\* A callback that throws, or that calls Stop and so joins its own thread.
CallbackKills == worker = "callback" /\ Terminate

---------------------------------------------------------------------------
WorkerStep == WorkerTests \/ WorkerChecks \/ WorkerBlocks
OwnerStep == StopNotifies \/ StopJoins
Next == /\ ~dead
        /\ \/ Start \/ StopStores \/ OwnerStep
           \/ \E c \in Call : Request(c)
           \/ WorkerStep \/ SpuriousWakeup
           \/ PerformReturns \/ PerformKills \/ CallbackReturns \/ CallbackKills

\* Threads run, and the peers of connections end them; callbacks return.
Fairness == /\ WF_vars(~dead /\ OwnerStep)
            /\ WF_vars(~dead /\ WorkerStep)
            /\ WF_vars(~dead /\ (PerformReturns \/ PerformKills))
            /\ WF_vars(~dead /\ (CallbackReturns \/ CallbackKills))

Spec == Init /\ [][Next]_vars
FairSpec == Spec /\ Fairness

---------------------------------------------------------------------------
TypeOK == /\ running \in BOOLEAN /\ dead \in BOOLEAN
          /\ queue \in Seq(Call) /\ asked \in Seq(Call) /\ answered \in Seq(Call)
          /\ worker \in {"none", "test", "check", "block", "wait", "perform", "callback", "exited"}
          /\ owner \in {"idle", "stopping", "joining"}
          /\ url \in [Call -> Url]
          /\ response \in [statusCode : Nat, success : BOOLEAN]
          /\ starts \in 0..MaxStarts

\* Over any number of stops and restarts, requests from any thread and from
\* callbacks: the calls answered, the one in flight and the ones queued are,
\* in this order, all the calls ever made.  None is lost or answered twice.
InFlight == IF worker \in {"perform", "callback"} THEN 1 ELSE 0
NothingLost == /\ Taken = Len(answered) + InFlight
               /\ answered = SubSeq(asked, 1, Len(answered))
               /\ queue = SubSeq(asked, Taken + 1, Len(asked))

\* Once Stop has returned no callback runs before the next Start: the join
\* covers the request in flight.
QuietWhenStopped == [][answered' # answered => worker # "none" /\ (owner = "idle" => running)]_vars

\* Stop returns if the peer ends the connection, unless its two steps both
\* fall between the worker's evaluation of the predicate and its sleep: the
\* notify is then lost and the join waits for good.
StopReturns == (owner = "stopping" /\ worker # "block") ~> (owner = "idle" \/ dead)

\* A queued call is answered unless Stop comes in between (its callback then
\* waits for a Start that may never come).
CallsAnswered == \A c \in Call :
   (running /\ \E i \in DOMAIN queue : queue[i] = c)
      ~> (dead \/ ~running \/ \E i \in DOMAIN answered : answered[i] = c)

\* The contract of RequestQueue: a client is open from Start until Stop has
\* returned.
Contract == INSTANCE RequestQueue WITH
   made <- asked, given <- Len(answered), open <- (running \/ owner # "idle")
ImplementsContract == Contract!AbsSpec
=============================================================================
