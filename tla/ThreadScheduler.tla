-------------------------- MODULE ThreadScheduler --------------------------
(***************************************************************************)
(* src/core/thread_scheduler.cpp: tasks with a delay, run in due order by  *)
(* one worker thread.                                                      *)
(*                                                                         *)
(* mutex_ is not a variable of its own.  Every critical section of the     *)
(* code is one action, except the worker's, which is cut between the test  *)
(* that makes it decide to sleep and the sleep itself: the mutex is held   *)
(* between two actions exactly when the worker is at "idleBlock" or        *)
(* "timedBlock" (MutexFree).  Stop takes no mutex, so its store to         *)
(* running_ and its notify_all fall between any two steps of the worker,   *)
(* the two above included.                                                 *)
(***************************************************************************)
EXTENDS Naturals

CONSTANTS Task,     \* the callables handed to Schedule, one per call
          Delay,    \* the delays they are scheduled with, in clock ticks
          MaxTime,  \* bound on the clock
          NoTask    \* no task is being run

ASSUME TaskAssumption == NoTask \notin Task
ASSUME TimeAssumption == Delay \subseteq Nat /\ MaxTime \in Nat

VARIABLES now,        \* steady_clock::now()
          running,    \* running_
          tasks,      \* the tasks in the priority queue tasks_
          when,       \* TimedTask::when of each scheduled task
          worker,     \* where the worker thread is in WorkerThread
          current,    \* the task moved out of the queue and being run
          deadline,   \* the argument of the last wait_until
          owner,      \* where the owning thread is: constructor, Stop
          scheduled,  \* history: the tasks Schedule was called with
          starts      \* history: how often each task was begun

queueVars == <<tasks, when, scheduled>>
workerVars == <<worker, current, deadline, starts>>
vars == <<now, running, tasks, when, worker, current, deadline, owner,
          scheduled, starts>>

WorkerPlace == {"test", "lock", "idleBlock", "idleWait", "recheck",
                "timedBlock", "timedWait", "run", "exited"}
OwnerPlace == {"constructing", "live", "stopping", "joining", "stopped"}

\* Faulty variant: Schedule forgets the lock_guard.
MutexIgnored == TRUE

MutexFree == worker \notin {"idleBlock", "timedBlock"}

\* Faulty variant: the queue is ordered by < instead of >.
TopLatest == {t \in tasks : \A u \in tasks : when[u] <= when[t]}

\* tasks_.top(): greatest priority is the smallest `when'; the heap leaves
\* the order of equal ones open.
Top == {t \in tasks : \A u \in tasks : when[t] <= when[u]}

\* The worker thread is started by the initialiser of worker_, which is
\* declared before running_: until the constructor goes on to running_ the
\* worker reads whatever the storage held.
Init == /\ now = 0
        /\ running \in BOOLEAN
        /\ tasks = {}
        /\ when = [t \in Task |-> 0]
        /\ worker = "test"
        /\ current = NoTask
        /\ deadline = 0
        /\ owner = "constructing"
        /\ scheduled = {}
        /\ starts = [t \in Task |-> 0]

Tick == /\ now < MaxTime
        /\ now' = now + 1
        /\ UNCHANGED <<running, queueVars, workerVars, owner>>

---------------------------------------------------------------------------
\* Faulty variant: nobody calls notify_one or notify_all.
NotifiedNobody == worker

\* The condition variable.  A notified idle worker has to test the predicate
\* of wait again; wait_until has no predicate, so the iteration just ends.
Notified == CASE worker = "idleWait"  -> "recheck"
              [] worker = "timedWait" -> "test"
              [] OTHER                -> worker

---------------------------------------------------------------------------
\* The owning thread and the callers of Schedule.

ConstructorReturns == /\ owner = "constructing"
                      /\ running' = TRUE
                      /\ owner' = "live"
                      /\ UNCHANGED <<now, queueVars, workerVars>>

\* Schedule: any thread, a task on the worker thread included, as long as
\* the object exists; also after Stop, which nothing refuses.  Tasks whose
\* due time lies beyond the bounded clock are not scheduled.
Schedule(t, d) == /\ owner # "constructing"
                  /\ MutexFree
                  /\ t \notin scheduled
                  /\ now + d <= MaxTime
                  /\ tasks' = tasks \cup {t}
                  /\ when' = [when EXCEPT ![t] = now + d]
                  /\ scheduled' = scheduled \cup {t}
                  /\ worker' = Notified
                  /\ UNCHANGED <<now, running, current, deadline, owner, starts>>

\* Stop: running_ = false; notify_all(); join(), neither under the mutex.
\* A second Stop (the destructor's) finds nothing to join and changes nothing.
StopStores == /\ owner = "live"
              /\ running' = FALSE
              /\ owner' = "stopping"
              /\ UNCHANGED <<now, queueVars, workerVars>>

StopNotifies == /\ owner = "stopping"
                /\ worker' = Notified
                /\ owner' = "joining"
                /\ UNCHANGED <<now, running, queueVars, current, deadline, starts>>

StopJoins == /\ owner = "joining"
             /\ worker = "exited"
             /\ owner' = "stopped"
             /\ UNCHANGED <<now, running, queueVars, workerVars>>

---------------------------------------------------------------------------
\* The worker thread.

\* while (running_)
WorkerTests == /\ worker = "test"
               /\ worker' = IF running THEN "lock" ELSE "exited"
               /\ UNCHANGED <<now, running, queueVars, current, deadline, owner, starts>>

\* Holding the mutex with nothing queued, wait evaluates its predicate
\* !tasks_.empty() || !running_, on entry and after every wake-up.
WorkerFindsEmpty == /\ worker \in {"lock", "recheck"}
                    /\ tasks = {}
                    /\ worker' = IF running THEN "idleBlock" ELSE "test"
                    /\ UNCHANGED <<now, running, queueVars, current, deadline, owner, starts>>

\* The predicate found a task: continue.
WorkerFindsTask == /\ worker = "recheck"
                   /\ tasks # {}
                   /\ worker' = "test"
                   /\ UNCHANGED <<now, running, queueVars, current, deadline, owner, starts>>

\* Faulty variant: the task is moved out of the top entry, which stays queued.
WorkerCopiesTop(t) == /\ worker = "lock"
                      /\ t \in Top
                      /\ when[t] <= now
                      /\ current' = t
                      /\ starts' = [starts EXCEPT ![t] = @ + 1]
                      /\ worker' = "run"
                      /\ UNCHANGED <<now, running, queueVars, deadline, owner>>

WorkerPops(t) == /\ worker = "lock"
                 /\ t \in Top
                 /\ when[t] <= now
                 /\ tasks' = tasks \ {t}
                 /\ current' = t
                 /\ starts' = [starts EXCEPT ![t] = @ + 1]
                 /\ worker' = "run"
                 /\ UNCHANGED <<now, running, when, deadline, owner, scheduled>>

WorkerFindsNoneDue(t) == /\ worker = "lock"
                         /\ t \in Top
                         /\ when[t] > now
                         /\ deadline' = when[t]
                         /\ worker' = "timedBlock"
                         /\ UNCHANGED <<now, running, queueVars, current, owner, starts>>

\* wait and wait_until: release the mutex and sleep, in one step.
WorkerBlocks == /\ worker \in {"idleBlock", "timedBlock"}
                /\ worker' = IF worker = "idleBlock" THEN "idleWait" ELSE "timedWait"
                /\ UNCHANGED <<now, running, queueVars, current, deadline, owner, starts>>

WorkerTimesOut == /\ worker = "timedWait"
                  /\ deadline <= now
                  /\ worker' = "test"
                  /\ UNCHANGED <<now, running, queueVars, current, deadline, owner, starts>>

\* A wait may return with no notification at all.
SpuriousWakeup == /\ worker \in {"idleWait", "timedWait"}
                  /\ worker' = Notified
                  /\ UNCHANGED <<now, running, queueVars, current, deadline, owner, starts>>

\* The task returns, or throws a std::exception, which is caught and logged.
TaskEnds == /\ worker = "run"
            /\ worker' = "test"
            /\ current' = NoTask
            /\ UNCHANGED <<now, running, queueVars, deadline, owner, starts>>

\* The task calls Stop: the join of the worker by itself throws
\* std::system_error, which ends the task and is caught like any other.
TaskStops == /\ worker = "run"
             /\ running' = FALSE
             /\ worker' = "test"
             /\ current' = NoTask
             /\ UNCHANGED <<now, queueVars, deadline, owner, starts>>

---------------------------------------------------------------------------
WorkerStep == \/ WorkerTests
              \/ WorkerFindsEmpty
              \/ WorkerFindsTask
              \/ \E t \in Task : WorkerPops(t) \/ WorkerFindsNoneDue(t)
              \/ WorkerBlocks
              \/ WorkerTimesOut

Next == \/ Tick
        \/ ConstructorReturns
        \/ \E t \in Task, d \in Delay : Schedule(t, d)
        \/ StopStores
        \/ StopNotifies
        \/ StopJoins
        \/ WorkerStep
        \/ SpuriousWakeup
        \/ TaskEnds
        \/ TaskStops

\* Threads that can run do run, time passes, and tasks return: nothing
\* makes a caller schedule, an owner stop, or a wait return spuriously.
Fairness == /\ WF_vars(Tick)
            /\ WF_vars(ConstructorReturns \/ StopNotifies \/ StopJoins)
            /\ WF_vars(WorkerStep)
            /\ WF_vars(TaskEnds)

Spec == Init /\ [][Next]_vars
FairSpec == Spec /\ Fairness

---------------------------------------------------------------------------
\* Properties.

TypeOK == /\ now \in Nat
          /\ running \in BOOLEAN
          /\ tasks \subseteq Task
          /\ when \in [Task -> Nat]
          /\ worker \in WorkerPlace
          /\ current \in Task \cup {NoTask}
          /\ deadline \in Nat
          /\ owner \in OwnerPlace
          /\ scheduled \subseteq Task
          /\ starts \in [Task -> Nat]

\* The worker never oversleeps: when it has decided to sleep, or sleeps,
\* without a limit the queue is empty, and when it sleeps until a deadline no
\* queued task falls due before it, however many calls of Schedule came in
\* between (the notify in Schedule and the mutex around both decide this).
NoOversleep == /\ worker \in {"idleBlock", "idleWait"} => tasks = {}
               /\ worker \in {"timedBlock", "timedWait"} =>
                     \A t \in tasks : deadline <= when[t]

\* No task is lost or run twice: what was scheduled is either still queued
\* and never begun, or begun exactly once and no longer queued.
EachTaskOnce == \A t \in Task :
                   /\ starts[t] = IF t \in scheduled \ tasks THEN 1 ELSE 0
                   /\ t \in tasks => t \in scheduled

\* A task begins when it is due, and before every task that falls due later,
\* in whatever order they were scheduled; DelayedTasks asks for it too.
EarliestFirst == [][\A t \in Task : starts'[t] # starts[t] =>
                       /\ when[t] <= now
                       /\ \A u \in tasks : when[t] <= when[u]]_vars

\* A queued task is begun unless Stop is called, provided the worker did not
\* leave its loop on the value running_ had before it was initialised.
QueuedTasksBegin == \A t \in Task :
                       (t \in tasks /\ worker # "exited") ~> (starts[t] > 0 \/ ~running)

\* Stop returns, unless its store to running_ hits the worker between the
\* test of wait's predicate and the sleep ("idleBlock"): the notify_all can
\* then come before the sleep and is lost, and the join waits for good.
StopReturns == (owner = "stopping" /\ worker # "idleBlock") ~> (owner = "stopped")

\* The contract of DelayedTasks.
Contract == INSTANCE DelayedTasks WITH
              clock   <- now,
              pending <- tasks,
              due     <- when,
              begun   <- {t \in Task : starts[t] > 0},
              busy    <- IF current = NoTask THEN {} ELSE {current},
              closed  <- (owner = "stopped")

\* Every behaviour of the worker, the callers and Stop is one the contract
\* allows; the join is what makes Stop a barrier after which nothing begins.
ImplementsContract == Contract!AbsSpec
=============================================================================
