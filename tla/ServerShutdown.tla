--------------------------- MODULE ServerShutdown ---------------------------
(***************************************************************************)
(* src/core/server.cpp and include/mcx/server.hpp: the destruction of a    *)
(* Server, composed with ThreadScheduler, whose worker thread goes on      *)
(* running tasks until its own destructor joins it.  A task reaches the    *)
(* members of the server through its getters.                              *)
(***************************************************************************)
EXTENDS ThreadScheduler, Sequences

CONSTANT Uses   \* the members each task reaches when it runs

\* Faulty variant: the thread scheduler is declared first, destroyed last.
DeclaredFirst == <<"threadScheduler_", "scriptRuntime_", "sceneManager_", "playerRegistry_",
                   "scheduler_", "metrics_", "permissions_", "moduleLoader_">>

\* The members of Server in the order of their declaration.
Declared == <<"scriptRuntime_", "sceneManager_", "playerRegistry_", "scheduler_",
              "threadScheduler_", "metrics_", "permissions_", "moduleLoader_">>

Member == {Declared[i] : i \in 1..Len(Declared)}

ASSUME UsesAssumption == Uses \in [Task -> SUBSET Member]

VARIABLES alive,        \* the members that exist are the first `alive' ones
          stoppedFirst  \* history: the owner called Stop before destroying

serverVars == <<alive, stoppedFirst>>
allVars == <<vars, serverVars>>

Exists(m) == \E i \in 1..alive : Declared[i] = m

\* Number of members that exist while the thread scheduler is the last.
Pos == CHOOSE i \in 1..Len(Declared) : Declared[i] = "threadScheduler_"

InitServer == Init /\ alive = Len(Declared) /\ stoppedFirst = FALSE

---------------------------------------------------------------------------
\* ~Server is the default one: it destroys the members from the last declared
\* to the first.  It waits at the thread scheduler, whose destructor is Stop.
DestroyMember == /\ alive > 0
                 /\ alive # Pos
                 /\ owner \in {"live", "stopped"}
                 /\ alive' = alive - 1
                 /\ UNCHANGED <<vars, stoppedFirst>>

DestructorStops == /\ alive = Pos
                   /\ StopStores
                   /\ UNCHANGED serverVars

\* Faulty variant: the thread scheduler is given up without waiting for it.
SchedulerAbandoned == /\ alive = Pos
                      /\ owner = "joining"
                      /\ alive' = alive - 1
                      /\ UNCHANGED <<vars, stoppedFirst>>

SchedulerDestroyed == /\ alive = Pos
                      /\ owner = "stopped"
                      /\ alive' = alive - 1
                      /\ UNCHANGED <<vars, stoppedFirst>>

\* GetThreadScheduler().Stop() while the server is whole; the destructor then
\* finds nothing left to stop.
OwnerStops == /\ alive = Len(Declared)
              /\ StopStores
              /\ stoppedFirst' = TRUE
              /\ UNCHANGED alive

\* Tasks come from users of the whole server, and from running tasks.
TaskScheduled(t, d) == /\ alive = Len(Declared) \/ worker = "run"
                       /\ Schedule(t, d)
                       /\ UNCHANGED serverVars

SchedulerStep == /\ \/ Tick
                    \/ ConstructorReturns
                    \/ StopNotifies
                    \/ StopJoins
                    \/ WorkerStep
                    \/ SpuriousWakeup
                    \/ TaskEnds
                    \/ TaskStops
                 /\ UNCHANGED serverVars

NextServer == \/ DestroyMember
              \/ DestructorStops
              \/ SchedulerDestroyed
              \/ OwnerStops
              \/ \E t \in Task, d \in Delay : TaskScheduled(t, d)
              \/ SchedulerStep

ServerSpec == InitServer /\ [][NextServer]_allVars

---------------------------------------------------------------------------
\* Properties.

\* A running task never reaches a destroyed member that is declared before
\* the thread scheduler: those are destroyed after the join.  (It does reach
\* destroyed metrics_, permissions_ and module code, declared after it.)
EarlierMembersAlive ==
  worker = "run" =>
    \A m \in Uses[current] \ {"metrics_", "permissions_", "moduleLoader_"} : Exists(m)

\* An owner that stops the thread scheduler before it destroys the server has
\* no task reach any destroyed member.
StopFirstIsSafe ==
  stoppedFirst /\ worker = "run" => \A m \in Uses[current] : Exists(m)

\* A running task never reaches a destroyed member that is declared before the
\* thread scheduler, and none at all once the owner has stopped it first.
TasksReachLiveMembers == EarlierMembersAlive /\ StopFirstIsSafe

\* Once the thread scheduler is gone its thread is, and tasks_ with it is
\* released with no lock needed: the mutex and the condition variable are
\* never destroyed under a thread that waits or runs.
NoThreadLeft == alive < Pos => worker = "exited" /\ current = NoTask
=============================================================================
