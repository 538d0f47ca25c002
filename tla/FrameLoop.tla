------------------------------ MODULE FrameLoop ------------------------------
(***************************************************************************)
(* src/core/server.cpp (Run, Stop, MainLoop, Update) with the Scheduler of *)
(* src/core/scheduler.cpp and the signal handler of                        *)
(* src/core/signal_handler.cpp: the frame loop of the main thread, the     *)
(* vector of delayed tasks it scans every frame, and what ends it.         *)
(*                                                                         *)
(* The Scheduler has no lock and belongs to the main thread; the only code *)
(* that runs there during Run is the tasks, so a call of Schedule or Clear *)
(* made while the loop runs is made by a task, in the middle of the scan.  *)
(* Stop comes from any thread and a signal at any point.                   *)
(***************************************************************************)
EXTENDS Naturals, SequencesExt

CONSTANTS Task,      \* the callables handed to Schedule, one per call
          Throwing,  \* those that throw a std::exception whenever they run
          Delay,     \* the delays they are scheduled with, in clock ticks
          MaxTime    \* bound on the clock

ASSUME TaskAssumption == Throwing \subseteq Task
ASSUME TimeAssumption == Delay \subseteq Nat /\ MaxTime \in Nat

VARIABLES now,        \* Clock::now()
          tasks,      \* Scheduler::tasks_, in the order of the vector
          when,       \* ScheduledTask::when of each scheduled task
          capacity,   \* the capacity of the vector
          frameNow,   \* the time Update read when it began
          it,         \* the iterator of Update, as an index
          itValid,    \* nothing has invalidated the iterator
          back,       \* where the main thread goes on after Update
          running,    \* Server::running_
          shutdown,   \* g_shutdownRequested
          loop,       \* where the main thread is
          scheduled,  \* history: the tasks handed to Schedule and not cleared
          ran,        \* history: the tasks run at least once
          thisFrame   \* history: the tasks run in this frame

vecVars == <<tasks, when, capacity, scheduled>>
scanVars == <<frameNow, it, itValid, back>>
histVars == <<ran, thisFrame>>
vars == <<now, vecVars, scanVars, running, shutdown, loop, histVars>>

LoopPlace == {"new", "starting", "test", "scan", "task", "returned", "failed",
              "undefined"}

\* The main thread is neither in Run nor in an Update of its own.
OutsidePlace == {"new", "returned", "failed"}
Outside == loop \in OutsidePlace

Init == /\ now = 0
        /\ tasks = <<>>
        /\ when = [t \in Task |-> 0]
        /\ capacity = 0
        /\ frameNow = 0
        /\ it = 1
        /\ itValid = TRUE
        /\ back = "new"
        /\ running = FALSE
        /\ shutdown = FALSE
        /\ loop = "new"
        /\ scheduled = {}
        /\ ran = {}
        /\ thisFrame = {}

Tick == /\ now < MaxTime
        /\ now' = now + 1
        /\ UNCHANGED <<vecVars, scanVars, running, shutdown, loop, histVars>>

---------------------------------------------------------------------------
\* Scheduler::Schedule and Clear.

\* Growth of a full vector (external): double, from 1.
Grown == IF capacity = 0 THEN 1 ELSE 2 * capacity

\* push_back on a full vector moves every element to new storage, which
\* leaves the iterator of an Update in progress dangling.
Schedule(t, d) == /\ Outside \/ loop = "task"
                  /\ t \notin scheduled
                  /\ now + d <= MaxTime
                  /\ tasks' = Append(tasks, t)
                  /\ when' = [when EXCEPT ![t] = now + d]
                  /\ scheduled' = scheduled \cup {t}
                  /\ IF Len(tasks) = capacity
                       THEN capacity' = Grown /\ itValid' = (loop # "task")
                       ELSE UNCHANGED <<capacity, itValid>>
                  /\ UNCHANGED <<now, frameNow, it, back, running, shutdown, loop, histVars>>

Clear == /\ Outside \/ loop = "task"
         /\ tasks # <<>>
         /\ tasks' = <<>>
         /\ scheduled' = scheduled \ ToSet(tasks)
         /\ itValid' = (loop # "task")
         /\ UNCHANGED <<now, when, capacity, frameNow, it, back, running, shutdown, loop,
                        histVars>>

---------------------------------------------------------------------------
\* Server::Run.

\* running_ = true, whatever a Stop before it stored; RegisterSignalHandler.
Run == /\ loop \in {"new", "returned"}
       /\ running' = TRUE
       /\ loop' = "starting"
       /\ UNCHANGED <<now, vecVars, scanVars, shutdown, histVars>>

\* LoadScripts and LoadModules, outside the try block of Run: an exception
\* of either leaves Run with running_ still set.
Load == /\ loop = "starting"
        /\ loop' \in {"test", "failed"}
        /\ UNCHANGED <<now, vecVars, scanVars, running, shutdown, histVars>>

\* Faulty variant: the loop does not look at the flag of the signal handler.
ContinueUnlessStopped == running

\* running_ && !ShouldShutdown()
Continue == running /\ ~shutdown

\* Update reads the clock and begins its scan.
Update == /\ frameNow' = now
          /\ it' = 1
          /\ itValid' = TRUE
          /\ thisFrame' = {}
          /\ back' = loop
          /\ loop' = "scan"
          /\ UNCHANGED <<now, vecVars, running, shutdown, ran>>

\* The next frame of the loop.
FrameBegins == /\ loop = "test"
               /\ Continue
               /\ Update

\* A program that does not use Run calls Update itself, as the demo does.
UpdateCalled == Outside /\ Update

LoopEnds == /\ loop = "test"
            /\ ~Continue
            /\ loop' = "returned"
            /\ UNCHANGED <<now, vecVars, scanVars, running, shutdown, histVars>>

\* Faulty variant: the comparison is the wrong way round.
NotYet(t) == frameNow < when[t]

\* it->when <= now
Due(t) == when[t] <= frameNow

\* it->what()
TaskBegins == /\ loop = "scan"
              /\ it <= Len(tasks)
              /\ Due(tasks[it])
              /\ ran' = ran \cup {tasks[it]}
              /\ thisFrame' = thisFrame \cup {tasks[it]}
              /\ loop' = "task"
              /\ UNCHANGED <<now, vecVars, scanVars, running, shutdown>>

\* ++it
TaskSkipped == /\ loop = "scan"
               /\ it <= Len(tasks)
               /\ ~Due(tasks[it])
               /\ it' = it + 1
               /\ UNCHANGED <<now, vecVars, frameNow, itValid, back, running, shutdown, loop,
                              histVars>>

\* Faulty variants: ++it after the erase; the task stays in the vector; the
\* front is erased instead of the task that ran.
TaskReturnsAndSkips == /\ loop = "task" /\ itValid /\ tasks[it] \notin Throwing
                       /\ tasks' = RemoveAt(tasks, it)
                       /\ it' = it + 1
                       /\ loop' = "scan"
                       /\ UNCHANGED <<now, when, capacity, scheduled, frameNow, itValid, back,
                                      running, shutdown, histVars>>
TaskReturnsAndStays == /\ loop = "task" /\ itValid /\ tasks[it] \notin Throwing
                       /\ loop' = "scan"
                       /\ UNCHANGED <<now, vecVars, scanVars, running, shutdown, histVars>>
TaskReturnsAndPopsFront == /\ loop = "task" /\ itValid /\ tasks[it] \notin Throwing
                           /\ tasks' = Tail(tasks)
                           /\ loop' = "scan"
                           /\ UNCHANGED <<now, when, capacity, scheduled, scanVars,
                                          running, shutdown, histVars>>

\* it = tasks_.erase(it); the next element moves to the place of this one.
TaskReturns == /\ loop = "task"
               /\ itValid
               /\ tasks[it] \notin Throwing
               /\ tasks' = RemoveAt(tasks, it)
               /\ loop' = "scan"
               /\ UNCHANGED <<now, when, capacity, scheduled, scanVars, running, shutdown, histVars>>

\* The exception passes erase and the rest of the scan; MainLoop logs it as
\* a frame error and sleeps until the next frame, another caller gets it.
TaskThrows == /\ loop = "task"
              /\ itValid
              /\ tasks[it] \in Throwing
              /\ loop' = back
              /\ UNCHANGED <<now, vecVars, scanVars, running, shutdown, histVars>>

\* Back from a task that invalidated the iterator: the call and the erase
\* go through storage that is no longer the vector's, and nothing that
\* follows is defined.
TaskReturnsToFreedVector == /\ loop = "task"
                            /\ ~itValid
                            /\ loop' = "undefined"
                            /\ UNCHANGED <<now, vecVars, scanVars, running, shutdown, histVars>>

\* it == tasks_.end(): Update returns.
FrameEnds == /\ loop = "scan"
             /\ it > Len(tasks)
             /\ loop' = back
             /\ UNCHANGED <<now, vecVars, scanVars, running, shutdown, histVars>>

---------------------------------------------------------------------------
\* Server::Stop, by any thread or by a task.
Stop == /\ running' = FALSE
        /\ UNCHANGED <<now, vecVars, scanVars, shutdown, loop, histVars>>

\* Run has not been called.
BeforeRun == loop = "new" \/ (loop \in {"scan", "task", "undefined"} /\ back = "new")

\* SignalHandler, once Run has registered it: the flag is never reset, and
\* the registered callback calls Stop.
Signal == /\ ~BeforeRun
          /\ shutdown' = TRUE
          /\ running' = FALSE
          /\ UNCHANGED <<now, vecVars, scanVars, loop, histVars>>

---------------------------------------------------------------------------
LoopStep == \/ Load
            \/ FrameBegins
            \/ LoopEnds
            \/ TaskBegins
            \/ TaskSkipped
            \/ FrameEnds

TaskEnds == TaskReturns \/ TaskThrows \/ TaskReturnsToFreedVector

Next == \/ Tick
        \/ \E t \in Task, d \in Delay : Schedule(t, d)
        \/ Clear
        \/ Run
        \/ UpdateCalled
        \/ LoopStep
        \/ TaskEnds
        \/ Stop
        \/ Signal

\* The main thread keeps running and its tasks return or throw.
Fairness == WF_vars(Tick) /\ WF_vars(LoopStep) /\ WF_vars(TaskEnds)

Spec == Init /\ [][Next]_vars
FairSpec == Spec /\ Fairness

---------------------------------------------------------------------------
\* Properties.

Scanning == loop \in {"scan", "task"} /\ itValid

\* Types; and while Update scans, its iterator is one of the vector or end,
\* and dereferenceable while a task runs.
TypeOK == /\ now \in Nat
          /\ tasks \in Seq(Task)
          /\ when \in [Task -> Nat]
          /\ capacity \in Nat /\ Len(tasks) <= capacity
          /\ frameNow \in Nat
          /\ it \in Nat \ {0}
          /\ itValid \in BOOLEAN
          /\ back \in OutsidePlace \cup {"test"}
          /\ running \in BOOLEAN /\ shutdown \in BOOLEAN
          /\ loop \in LoopPlace
          /\ scheduled \subseteq Task /\ ran \subseteq Task /\ thisFrame \subseteq Task
          /\ Scanning => it <= Len(tasks) + 1
          /\ Scanning /\ loop = "task" => it <= Len(tasks)

\* Whatever the tasks schedule and throw in the middle of a scan, a task that
\* was handed over is in the vector once or was run; only one that threw, or
\* is still running, is both.
NothingLost ==
  loop # "undefined" =>
    /\ IsInjective(tasks)
    /\ scheduled = ToSet(tasks) \cup {t \in scheduled : t \in ran}
    /\ ToSet(tasks) \subseteq scheduled
    /\ Scanning => \A i \in 1..Len(tasks) :
         tasks[i] \in ran => tasks[i] \in Throwing \/ (loop = "task" /\ i = it)

\* No task runs twice in a frame, however erase and push_back shift the
\* vector under the iterator.
OnceAFrame == [][loop = "scan" /\ loop' = "task" => tasks[it] \notin thisFrame]_vars

\* A frame that no exception cut short leaves nothing behind that was due
\* when it began, and ran nothing that was not.
FrameServesDue ==
  [][/\ loop = "scan" /\ loop' \notin {"scan", "task"} =>
          \A i \in 1..Len(tasks) : when[tasks[i]] > frameNow
     /\ loop = "scan" /\ loop' = "task" => when[tasks[it]] <= frameNow]_vars

\* A frame of the loop of Run is in progress.
InFrame == loop \in {"scan", "task"} /\ back = "test"

\* A signal is final: the frame it finds in progress is completed, and no
\* Run, not even a later one, begins another.
SignalIsFinal == [](shutdown /\ ~InFrame => []~InFrame)

Ended == Outside \/ loop = "undefined"

\* A Stop after Run's own store to running_ ends Run (one before it does not).
StopEndsRun == (~running /\ loop \in {"starting", "test", "scan", "task"}) ~> Ended

\* A task is run unless the loop ends, the task is cleared, or it stands
\* behind a task that throws, which is kept and retried ahead of it for good.
BehindThrower(t) == \E i, j \in 1..Len(tasks) :
                       i < j /\ tasks[i] \in Throwing /\ tasks[j] = t
TasksRun == \A t \in Task :
               (t \in ToSet(tasks) /\ ~Outside) ~>
                  (t \in ran \/ t \notin scheduled \/ BehindThrower(t) \/ Ended)
=============================================================================
