----------------------------- MODULE AsyncWorker -----------------------------
(***************************************************************************)
(* src/core/async_worker.cpp: a pool of threads that poll one queue of     *)
(* tasks, each a work and an optional callback to run after it.  The pool  *)
(* can be stopped and started again.                                       *)
(***************************************************************************)
EXTENDS Naturals, SequencesExt, FiniteSetsExt

CONSTANTS Task,         \* the tasks, one per call of Submit
          Null,         \* those submitted with an empty work
          Throwing,     \* those whose work throws a std::exception
          ThreadCount,  \* the constructor's argument
          MaxThreads,   \* the threads the system grants the process
          NoTask        \* a worker has no task

TaskAssumption == Null \cup Throwing \subseteq Task /\ NoTask \notin Task
CountAssumption == ThreadCount \in Nat /\ MaxThreads \in Nat /\ ThreadCount < MaxThreads

Worker == 1..MaxThreads   \* positions in workers_

VARIABLES running,    \* running_
          tasks,      \* tasks_
          active,     \* activeThreads_
          size,       \* workers_.size()
          capacity,   \* workers_.capacity()
          index,      \* i in the loop of Start
          owner,      \* the owning thread: "idle", "starting", "joining"
          place,      \* where each worker is, "none" if there is no thread
          task,       \* what GetNextTask returned to each worker
          submitted, begun, called,  \* history: tasks handed over, works begun,
                                     \* callbacks begun
          failed,     \* history: tasks whose work threw
          overlap     \* history: Start was called while the pool had threads

poolVars == <<size, capacity, index, owner, overlap>>
histVars == <<submitted, begun, called, failed>>
vars == <<running, tasks, active, poolVars, place, task, histVars>>

Place == {"none", "test", "take", "took", "work", "callback", "exited"}

Init == /\ running = FALSE
        /\ tasks = <<>>
        /\ active = 0
        /\ size = 0
        /\ capacity = ThreadCount
        /\ index = 0
        /\ owner = "idle"
        /\ place = [w \in Worker |-> "none"]
        /\ task = [w \in Worker |-> NoTask]
        /\ submitted = {} /\ begun = {} /\ called = {} /\ failed = {}
        /\ overlap = FALSE

Goto(w, where) == place' = [place EXCEPT ![w] = where]

---------------------------------------------------------------------------
\* The owning thread.

Start == /\ owner = "idle"
         /\ running' = TRUE
         /\ index' = 0
         /\ owner' = "starting"
         /\ overlap' = (overlap \/ size > 0)
         /\ UNCHANGED <<tasks, active, size, capacity, place, task, histVars>>

\* One turn of the loop of Start: emplace_back on a full vector doubles its
\* capacity, the very bound of the loop.
StartSpawns == /\ owner = "starting"
               /\ index < capacity
               /\ size < MaxThreads
               /\ index' = index + 1
               /\ size' = size + 1
               /\ capacity' = IF size = capacity THEN 2 * capacity ELSE capacity
               /\ Goto(size + 1, "test")
               /\ UNCHANGED <<running, tasks, active, owner, overlap, task, histVars>>

\* The system refuses one thread more: std::system_error leaves Start.
StartExhausted == /\ owner = "starting"
                  /\ index < capacity
                  /\ size = MaxThreads
                  /\ owner' = "idle"
                  /\ UNCHANGED <<running, tasks, active, size, capacity, index, overlap,
                                 place, task, histVars>>

StartReturns == /\ owner = "starting"
                /\ index >= capacity
                /\ owner' = "idle"
                /\ UNCHANGED <<running, tasks, active, size, capacity, index, overlap,
                               place, task, histVars>>

\* Stop, and the destructor's: the flag, then one join after the other.
Stop == /\ owner = "idle"
        /\ running' = FALSE
        /\ owner' = "joining"
        /\ UNCHANGED <<tasks, active, size, capacity, index, overlap, place, task, histVars>>

\* All threads joined: clear() keeps the capacity, and what is still queued
\* stays queued, for the next Start or for nobody.
StopJoins == /\ owner = "joining"
             /\ \A w \in Worker : place[w] \in {"none", "exited"}
             /\ place' = [w \in Worker |-> "none"]
             /\ size' = 0
             /\ owner' = "idle"
             /\ UNCHANGED <<running, tasks, active, capacity, index, overlap, task, histVars>>

\* Submit, by any thread and at any time.
Submit(t) == /\ t \notin submitted
             /\ tasks' = Append(tasks, t)
             /\ submitted' = submitted \cup {t}
             /\ UNCHANGED <<running, active, poolVars, place, task, begun, called, failed>>

---------------------------------------------------------------------------
\* WorkerLoop

WorkerTests(w) == /\ place[w] = "test"
                  /\ Goto(w, IF running THEN "take" ELSE "exited")
                  /\ UNCHANGED <<running, tasks, active, poolVars, task, histVars>>

\* Faulty variant: an idle worker leaves the loop.
WorkerFindsNoneAndExits(w) == /\ place[w] = "take"
                              /\ tasks = <<>>
                              /\ Goto(w, "exited")
                              /\ UNCHANGED <<running, tasks, active, poolVars, task, histVars>>

\* GetNextTask on an empty queue; the worker sleeps and tries again.
WorkerFindsNone(w) == /\ place[w] = "take"
                      /\ tasks = <<>>
                      /\ Goto(w, "test")
                      /\ UNCHANGED <<running, tasks, active, poolVars, task, histVars>>

\* Faulty variant: the front is copied and not popped.
WorkerPeeks(w) == /\ place[w] = "take"
                  /\ tasks # <<>>
                  /\ task' = [task EXCEPT ![w] = Head(tasks)]
                  /\ Goto(w, "took")
                  /\ UNCHANGED <<running, tasks, active, poolVars, histVars>>

\* GetNextTask pops the front, in the order of submission: the priority of
\* a task is not looked at.
WorkerTakes(w) == /\ place[w] = "take"
                  /\ tasks # <<>>
                  /\ task' = [task EXCEPT ![w] = Head(tasks)]
                  /\ tasks' = Tail(tasks)
                  /\ Goto(w, "took")
                  /\ UNCHANGED <<running, active, poolVars, histVars>>

\* A task without work is dropped like an empty queue, its callback too.
WorkerDrops(w) == /\ place[w] = "took"
                  /\ task[w] \in Null
                  /\ task' = [task EXCEPT ![w] = NoTask]
                  /\ Goto(w, "test")
                  /\ UNCHANGED <<running, tasks, active, poolVars, histVars>>

WorkerBegins(w) == /\ place[w] = "took"
                   /\ task[w] \notin Null
                   /\ active' = active + 1
                   /\ begun' = begun \cup {task[w]}
                   /\ Goto(w, "work")
                   /\ UNCHANGED <<running, tasks, poolVars, task, submitted, called, failed>>

WorkerCallsBack(w) == /\ place[w] = "work"
                      /\ task[w] \notin Throwing
                      /\ called' = called \cup {task[w]}
                      /\ Goto(w, "callback")
                      /\ UNCHANGED <<running, tasks, active, poolVars, task, submitted, begun, failed>>

\* The task is over: its work threw, it has no callback, or the callback
\* returned or threw.
Over(w) == \/ place[w] = "work"
           \/ place[w] = "callback"

WorkerEnds(w) == /\ Over(w)
                 /\ failed' = IF task[w] \in Throwing THEN failed \cup {task[w]} ELSE failed
                 /\ active' = active - 1
                 /\ task' = [task EXCEPT ![w] = NoTask]
                 /\ Goto(w, "test")
                 /\ UNCHANGED <<running, tasks, poolVars, submitted, begun, called>>

---------------------------------------------------------------------------
WorkerStep(w) == \/ WorkerTests(w) \/ WorkerFindsNone(w) \/ WorkerTakes(w)
                 \/ WorkerDrops(w) \/ WorkerBegins(w) \/ WorkerCallsBack(w)
                 \/ WorkerEnds(w)

OwnerStep == StartSpawns \/ StartExhausted \/ StartReturns \/ StopJoins

Next == \/ Start
        \/ Stop
        \/ OwnerStep
        \/ \E t \in Task : Submit(t)
        \/ \E w \in Worker : WorkerStep(w)

\* Every thread that can go on does; works and callbacks return or throw.
Fairness == WF_vars(OwnerStep) /\ \A w \in Worker : WF_vars(WorkerStep(w))

Spec == Init /\ [][Next]_vars
FairSpec == Spec /\ Fairness

---------------------------------------------------------------------------
\* Properties.

TypeOK == /\ running \in BOOLEAN
          /\ tasks \in Seq(Task)
          /\ active \in 0..MaxThreads
          /\ size \in 0..MaxThreads /\ size <= capacity
          /\ capacity \in Nat /\ index \in Nat
          /\ owner \in {"idle", "starting", "joining"}
          /\ place \in [Worker -> Place]
          /\ task \in [Worker -> Task \cup {NoTask}]
          /\ \A h \in {submitted, begun, called, failed} : h \subseteq Task
          /\ overlap \in BOOLEAN

Holds(w) == task[w] # NoTask

\* A task is queued, or with one worker, or behind it, never two of these:
\* no work runs twice, not even over a Stop and a Start that takes up what
\* the Stop left in the queue.
TaskInOnePlace ==
  /\ IsInjective(tasks)
  /\ ToSet(tasks) \subseteq submitted \ begun
  /\ \A w \in Worker : Holds(w) => task[w] \notin ToSet(tasks)
  /\ \A w, v \in Worker : w # v /\ Holds(w) => task[w] # task[v]
  /\ \A w \in Worker : place[w] = "took" => task[w] \notin begun

\* A callback is called only for a work that ran and did not throw.
CallbackAfterWork == called \subseteq begun \ (failed \cup Throwing \cup Null)

\* GetActiveThreads is the number of threads inside a work or a callback,
\* whatever throws; when Stop has returned it is zero and no thread is left.
ActiveCount ==
  /\ active = Cardinality({w \in Worker : place[w] \in {"work", "callback"}})
  /\ owner = "idle" /\ size = 0 => active = 0 /\ \A w \in Worker : place[w] = "none"

\* The pool never has more threads than the constructor asked for, over any
\* number of stops and starts, as long as no Start finds the pool running;
\* one that does chases the capacity it doubles itself.
ThreadsBounded == ~overlap => size <= ThreadCount /\ capacity = ThreadCount

\* Stop returns: the workers poll, so that there is no wake-up to lose.
StopReturns == (owner = "joining") ~> (owner = "idle")

\* A queued task is taken by a worker of a running pool that is not stopped.
QueuedTasksTaken == \A t \in Task :
  (t \in ToSet(tasks) /\ running /\ size > 0) ~> (t \notin ToSet(tasks) \/ ~running)
=============================================================================
