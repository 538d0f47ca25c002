--------------------------- MODULE MCConcurrency ---------------------------
(***************************************************************************)
(* The module loader, the worker pool and the event bus, one at a time:    *)
(* they share nothing.                                                     *)
(*                                                                         *)
(* TLC is given, for ModuleLoader, two threads and two objects, one of     *)
(* which throws when it is unloaded, and three loads, so that one object   *)
(* is loaded twice while the other is unloaded; for AsyncWorker a plain    *)
(* task, an empty one and one that throws, on two workers, and a third     *)
(* thread for a Start that finds the pool running; for EventBus two types  *)
(* of event, so that a handler of one may publish the other or its own,    *)
(* and five handlers, so that a vector grows with room to spare and        *)
(* without.                                                                *)
(***************************************************************************)
EXTENDS Naturals, FiniteSets

CONSTANTS
  Thread, Path, Bad, MaxLoads,                             \* ModuleLoader
  Task, Null, Throwing, ThreadCount, MaxThreads, NoTask,   \* AsyncWorker
  Types, MaxHandlers, MaxDepth                             \* EventBus

VARIABLES
  part,
  modules, refs, modulePlace, subject, pos, loads, leaked, broken, crashed,
  running, tasks, active, size, capacity, index, owner, place, task, submitted, begun, called,
  failed, overlap,
  handlers, vectorCapacity, publishing, made, undefined

loaderVars == <<modules, refs, modulePlace, subject, pos, loads, leaked, broken, crashed>>
poolVars == <<running, tasks, active, size, capacity, index, owner, place, task, submitted, begun,
              called, failed, overlap>>
busVars == <<handlers, vectorCapacity, publishing, made, undefined>>
vars == <<part, loaderVars, poolVars, busVars>>

Loader == INSTANCE ModuleLoader WITH place <- modulePlace
Pool == INSTANCE AsyncWorker
Bus == INSTANCE EventBus WITH capacity <- vectorCapacity

ASSUME LoaderAssumption == Loader!PathAssumption /\ Loader!LoadsAssumption /\ IsFiniteSet(Thread)
ASSUME PoolAssumption == Pool!TaskAssumption /\ Pool!CountAssumption

\* A part the behaviour is not about needs one initial state only.
Init == /\ part \in {"loader", "pool", "bus"}
        /\ Loader!Init
        /\ part = "loader" \/ \A th \in Thread : subject[th] = CHOOSE p \in Path : TRUE
        /\ Pool!Init /\ Bus!Init

Next == /\ UNCHANGED part
        /\ \/ part = "loader" /\ Loader!Next /\ UNCHANGED <<poolVars, busVars>>
           \/ part = "pool" /\ Pool!Next /\ UNCHANGED <<loaderVars, busVars>>
           \/ part = "bus" /\ Bus!Next /\ UNCHANGED <<loaderVars, poolVars>>

\* The fairness of each component, for the one that runs.
Fairness == /\ \A th \in Thread : WF_loaderVars(part = "loader" /\ Loader!Working(th))
            /\ WF_poolVars(part = "pool" /\ Pool!OwnerStep)
            /\ \A w \in Pool!Worker : WF_poolVars(part = "pool" /\ Pool!WorkerStep(w))

Spec == Init /\ [][Next]_vars /\ Fairness

---------------------------------------------------------------------------
\* ModuleLoader.  However loads, dispatches and unloads interleave, no call
\* goes into an object that is no longer mapped and every open handle belongs
\* to an entry, to a load in progress or to a load that threw, unless an
\* OnUnload threw in the middle of UnloadAll.
ModulesStayMapped == Loader!TypeOK /\ Loader!CallsAreMapped /\ Loader!HandlesBalance

\* ModuleLoader: a dispatch is undisturbed by a LoadModule that works outside
\* the mutex.  EventBus: Publish calls the handlers that its type had when it
\* began, once and in order, and unless one throws all of them, whatever else
\* its handlers do to the bus.
DispatchesComplete == /\ Loader!DispatchUndisturbed
                      /\ [](Bus!TypeOK /\ Bus!CalledAsSubscribed) /\ Bus!AllCalled

\* AsyncWorker.  Over stops and starts a task is queued, with one worker, or
\* behind it; a callback follows only a work that did not throw; the counter
\* counts the busy threads; and there are never more threads than asked for,
\* unless a Start found the pool running.
PoolKeepsTasks == /\ Pool!TypeOK /\ Pool!TaskInOnePlace /\ Pool!CallbackAfterWork
                  /\ Pool!ActiveCount /\ Pool!ThreadsBounded

\* A dispatch to the modules comes to its end, whatever throws.  The pool's
\* Stop returns, the workers poll and lose no wake-up; a task queued in a
\* running pool is taken, or the pool is stopped.
WorkProgresses == /\ Loader!DispatchTerminates
                  /\ Pool!StopReturns /\ Pool!QueuedTasksTaken
=============================================================================
