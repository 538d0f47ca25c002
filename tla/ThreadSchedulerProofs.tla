----------------------- MODULE ThreadSchedulerProofs -----------------------
(***************************************************************************)
(* Proofs about ThreadScheduler for every set of tasks, every set of       *)
(* delays and every bound on the clock: it is type correct, the worker     *)
(* never oversleeps, every task is begun at most once and none is lost,    *)
(* tasks begin in due order, and the worker, its callers and Stop together *)
(* implement the contract of DelayedTasks.                                 *)
(***************************************************************************)
EXTENDS ThreadScheduler, TLAPS

\* Where the threads can be together: a task is at hand exactly while the
\* worker runs it, and Stop has returned only to find the worker gone.
Placement == /\ current # NoTask <=> worker = "run"
             /\ owner = "stopped" => worker = "exited"

\* NoOversleep is not inductive without Placement's companions: that a
\* queued task was never begun needs EachTaskOnce, which needs the types.
IInv == TypeOK /\ NoOversleep /\ EachTaskOnce /\ Placement

\* A notification moves the worker at most out of a sleep, and is the only
\* thing that happens to a sleeping worker's place when a task is queued.
LEMMA NotifiedPlace ==
  ASSUME worker \in WorkerPlace
  PROVE  /\ Notified \in WorkerPlace
         /\ Notified = worker \/ (worker = "idleWait" /\ Notified = "recheck")
                              \/ (worker = "timedWait" /\ Notified = "test")
         /\ Notified \notin {"idleWait", "timedWait"}
BY DEF Notified, WorkerPlace

\* In the initial state no task is scheduled and the worker is at its loop.
LEMMA InitIInv == Init => IInv
BY TaskAssumption
   DEF Init, IInv, TypeOK, NoOversleep, EachTaskOnce, Placement, WorkerPlace, OwnerPlace

\* One step of the type invariant.
LEMMA NextTypeOK == TypeOK /\ [Next]_vars => TypeOK'
<1> SUFFICES ASSUME TypeOK, [Next]_vars PROVE TypeOK'
  OBVIOUS
<1> USE DEF TypeOK, queueVars, workerVars
<1>1. CASE Tick
  BY <1>1 DEF Tick
<1>2. CASE ConstructorReturns
  BY <1>2 DEF ConstructorReturns, OwnerPlace
<1>3. ASSUME NEW t \in Task, NEW d \in Delay, Schedule(t, d)
      PROVE  TypeOK'
  <2>1. now + d \in Nat
    BY TimeAssumption
  <2>2. when' \in [Task -> Nat]
    BY <1>3, <2>1 DEF Schedule
  <2>3. worker' \in WorkerPlace
    BY <1>3, NotifiedPlace DEF Schedule
  <2> QED
    BY <1>3, <2>2, <2>3 DEF Schedule
<1>4. CASE StopStores
  BY <1>4 DEF StopStores, OwnerPlace
<1>5. CASE StopNotifies
  <2>1. worker' \in WorkerPlace
    BY <1>5, NotifiedPlace DEF StopNotifies
  <2> QED
    BY <1>5, <2>1 DEF StopNotifies, OwnerPlace
<1>6. CASE StopJoins
  BY <1>6 DEF StopJoins, OwnerPlace
<1>7. CASE WorkerTests
  BY <1>7 DEF WorkerTests, WorkerPlace
<1>8. CASE WorkerFindsEmpty
  BY <1>8 DEF WorkerFindsEmpty, WorkerPlace
<1>9. CASE WorkerFindsTask
  BY <1>9 DEF WorkerFindsTask, WorkerPlace
<1>10. ASSUME NEW t \in Task, WorkerPops(t)
       PROVE  TypeOK'
  BY <1>10 DEF WorkerPops, WorkerPlace
<1>11. ASSUME NEW t \in Task, WorkerFindsNoneDue(t)
       PROVE  TypeOK'
  BY <1>11 DEF WorkerFindsNoneDue, WorkerPlace
<1>12. CASE WorkerBlocks
  BY <1>12 DEF WorkerBlocks, WorkerPlace
<1>13. CASE WorkerTimesOut
  BY <1>13 DEF WorkerTimesOut, WorkerPlace
<1>14. CASE SpuriousWakeup
  <2>1. worker' \in WorkerPlace
    BY <1>14, NotifiedPlace DEF SpuriousWakeup
  <2> QED
    BY <1>14, <2>1 DEF SpuriousWakeup
<1>15. CASE TaskEnds
  BY <1>15 DEF TaskEnds, WorkerPlace
<1>16. CASE TaskStops
  BY <1>16 DEF TaskStops, WorkerPlace
<1>17. CASE UNCHANGED vars
  BY <1>17 DEF vars
<1> QED
  BY <1>1, <1>2, <1>3, <1>4, <1>5, <1>6, <1>7, <1>8, <1>9, <1>10, <1>11, <1>12,
     <1>13, <1>14, <1>15, <1>16, <1>17 DEF Next, WorkerStep

\* One step of NoOversleep.  Only a call of Schedule adds to the queue, and
\* it wakes a sleeping worker or is kept out by the mutex; every other step
\* that leads to a sleep looks at the queue first.
LEMMA NextNoOversleep == IInv /\ [Next]_vars => NoOversleep'
<1> SUFFICES ASSUME IInv, [Next]_vars PROVE NoOversleep'
  OBVIOUS
<1> USE DEF IInv, NoOversleep, queueVars, workerVars
<1>0. TypeOK
  OBVIOUS
<1>1. CASE Tick \/ ConstructorReturns \/ StopStores \/ StopJoins
  BY <1>1 DEF Tick, ConstructorReturns, StopStores, StopJoins
<1>2. ASSUME NEW t \in Task, NEW d \in Delay, Schedule(t, d)
      PROVE  NoOversleep'
  <2>1. worker' \notin {"idleWait", "timedWait"}
    BY <1>0, <1>2, NotifiedPlace DEF Schedule, TypeOK
  <2>2. worker' \notin {"idleBlock", "timedBlock"}
    BY <1>0, <1>2, NotifiedPlace DEF Schedule, MutexFree, TypeOK
  <2> QED
    BY <2>1, <2>2
<1>3. CASE StopNotifies \/ SpuriousWakeup
  <2>1. worker' = worker \/ worker' \in {"recheck", "test"}
    BY <1>0, <1>3, NotifiedPlace DEF StopNotifies, SpuriousWakeup, TypeOK
  <2> QED
    BY <1>3, <2>1 DEF StopNotifies, SpuriousWakeup
<1>4. CASE WorkerTests \/ WorkerFindsEmpty \/ WorkerFindsTask \/ WorkerBlocks
           \/ WorkerTimesOut \/ TaskEnds \/ TaskStops
  BY <1>4 DEF WorkerTests, WorkerFindsEmpty, WorkerFindsTask, WorkerBlocks,
              WorkerTimesOut, TaskEnds, TaskStops
<1>5. ASSUME NEW t \in Task, WorkerPops(t)
      PROVE  NoOversleep'
  BY <1>5 DEF WorkerPops
<1>6. ASSUME NEW t \in Task, WorkerFindsNoneDue(t)
      PROVE  NoOversleep'
  BY <1>0, <1>6 DEF WorkerFindsNoneDue, Top, TypeOK
<1>7. CASE UNCHANGED vars
  BY <1>7 DEF vars
<1> QED
  BY <1>1, <1>2, <1>3, <1>4, <1>5, <1>6, <1>7 DEF Next, WorkerStep

\* One step of EachTaskOnce: only Schedule and the pop move a task.
LEMMA NextEachTaskOnce == IInv /\ [Next]_vars => EachTaskOnce'
<1> SUFFICES ASSUME IInv, [Next]_vars PROVE EachTaskOnce'
  OBVIOUS
<1> USE DEF IInv, EachTaskOnce, queueVars, workerVars
<1>1. ASSUME NEW t \in Task, NEW d \in Delay, Schedule(t, d)
      PROVE  EachTaskOnce'
  BY <1>1 DEF Schedule
<1>2. ASSUME NEW t \in Task, WorkerPops(t)
      PROVE  EachTaskOnce'
  <2>1. t \in tasks /\ tasks' = tasks \ {t} /\ scheduled' = scheduled
    BY <1>2 DEF WorkerPops, Top
  <2>2. starts[t] = 0 /\ starts' = [starts EXCEPT ![t] = starts[t] + 1]
    BY <1>2, <2>1 DEF WorkerPops
  <2> QED
    BY <2>1, <2>2 DEF TypeOK
<1>3. ASSUME UNCHANGED <<tasks, scheduled, starts>>
      PROVE  EachTaskOnce'
  BY <1>3
<1>4. ASSUME NEW t \in Task, WorkerFindsNoneDue(t)
      PROVE  EachTaskOnce'
  BY <1>3, <1>4 DEF WorkerFindsNoneDue
<1> QED
  BY <1>1, <1>2, <1>3, <1>4
     DEF Next, WorkerStep, vars, Tick, ConstructorReturns, StopStores, StopNotifies,
         StopJoins, WorkerTests, WorkerFindsEmpty, WorkerFindsTask, WorkerBlocks,
         WorkerTimesOut, SpuriousWakeup, TaskEnds, TaskStops

\* One step of Placement.
LEMMA NextPlacement == IInv /\ [Next]_vars => Placement'
<1> SUFFICES ASSUME IInv, [Next]_vars PROVE Placement'
  OBVIOUS
<1> USE TaskAssumption DEF IInv, Placement, queueVars, workerVars
<1>1. ASSUME NEW t \in Task, NEW d \in Delay, Schedule(t, d)
      PROVE  Placement'
  BY <1>1, NotifiedPlace DEF Schedule, TypeOK
<1>2. CASE StopNotifies \/ SpuriousWakeup
  BY <1>2, NotifiedPlace DEF StopNotifies, SpuriousWakeup, TypeOK
<1>3. CASE Tick \/ ConstructorReturns \/ StopStores \/ StopJoins
  BY <1>3 DEF Tick, ConstructorReturns, StopStores, StopJoins
<1>4. CASE WorkerTests \/ WorkerFindsEmpty \/ WorkerFindsTask \/ WorkerBlocks
           \/ WorkerTimesOut \/ TaskEnds \/ TaskStops
  BY <1>4 DEF WorkerTests, WorkerFindsEmpty, WorkerFindsTask, WorkerBlocks,
              WorkerTimesOut, TaskEnds, TaskStops
<1>5. ASSUME NEW t \in Task, WorkerPops(t) \/ WorkerFindsNoneDue(t)
      PROVE  Placement'
  BY <1>5 DEF WorkerPops, WorkerFindsNoneDue
<1>6. CASE UNCHANGED vars
  BY <1>6 DEF vars
<1> QED
  BY <1>1, <1>2, <1>3, <1>4, <1>5, <1>6 DEF Next, WorkerStep

\* IInv holds in every reachable state.
THEOREM Invariance == Spec => []IInv
<1>1. IInv /\ [Next]_vars => IInv'
  BY NextTypeOK, NextNoOversleep, NextEachTaskOnce, NextPlacement DEF IInv
<1> QED
  BY InitIInv, <1>1, PTL DEF Spec

\* The variables keep their types.
THEOREM TypeCorrect == Spec => []TypeOK
<1>1. IInv => TypeOK
  BY DEF IInv
<1> QED
  BY Invariance, <1>1, PTL

\* A sleeping worker never misses a task that falls due, whatever calls of
\* Schedule and Stop interleave with its going to sleep.
THEOREM NeverOversleeps == Spec => []NoOversleep
<1>1. IInv => NoOversleep
  BY DEF IInv
<1> QED
  BY Invariance, <1>1, PTL

\* No scheduled task is lost, and none is begun twice.
THEOREM TaskOnce == Spec => []EachTaskOnce
<1>1. IInv => EachTaskOnce
  BY DEF IInv
<1> QED
  BY Invariance, <1>1, PTL

\* Tasks begin when due and in due order: starts changes in the pop only,
\* and the pop takes a least element of the queue.
THEOREM DueOrder == Spec => EarliestFirst
<1> DEFINE InOrder == \A t \in Task : starts'[t] # starts[t] =>
                         /\ when[t] <= now
                         /\ \A u \in tasks : when[t] <= when[u]
<1>1. IInv /\ [Next]_vars => [InOrder]_vars
  <2> SUFFICES ASSUME IInv, Next PROVE InOrder
    OBVIOUS
  <2> USE DEF queueVars, workerVars
  <2>1. ASSUME NEW t \in Task, WorkerPops(t)
        PROVE  InOrder
    BY <2>1 DEF WorkerPops, Top, IInv, TypeOK
  <2>2. ASSUME starts' = starts
        PROVE  InOrder
    BY <2>2
  <2>3. ASSUME NEW t \in Task, NEW d \in Delay, Schedule(t, d)
        PROVE  InOrder
    BY <2>2, <2>3 DEF Schedule
  <2>4. ASSUME NEW t \in Task, WorkerFindsNoneDue(t)
        PROVE  InOrder
    BY <2>2, <2>4 DEF WorkerFindsNoneDue
  <2> QED
    BY <2>1, <2>2, <2>3, <2>4
       DEF Next, WorkerStep, Tick, ConstructorReturns, StopStores, StopNotifies,
           StopJoins, WorkerTests, WorkerFindsEmpty, WorkerFindsTask, WorkerBlocks,
           WorkerTimesOut, SpuriousWakeup, TaskEnds, TaskStops
<1> QED
  BY Invariance, <1>1, PTL DEF Spec, EarliestFirst

---------------------------------------------------------------------------
\* The refinement.

\* The constructed queue is an empty contract.
LEMMA InitContract == Init => Contract!AbsInit
BY TaskAssumption DEF Init, Contract!AbsInit

\* A call of Schedule is a submission.
LEMMA ScheduleSubmits ==
  ASSUME IInv, NEW t \in Task, NEW d \in Delay, Schedule(t, d)
  PROVE  Contract!Submit(t, d)
<1>1. t \notin tasks \cup {u \in Task : starts[u] > 0}
  BY DEF Schedule, IInv, EachTaskOnce
<1> QED
  BY <1>1 DEF Schedule, Contract!Submit, workerVars

\* A pop begins the task: the queue order makes it the earliest pending one,
\* and Placement says that none is being run and that Stop has not returned.
LEMMA PopBegins ==
  ASSUME IInv, NEW t \in Task, WorkerPops(t)
  PROVE  Contract!Begin(t)
<1>1. owner # "stopped" /\ current = NoTask
  BY DEF WorkerPops, IInv, Placement
<1>2. {u \in Task : starts'[u] > 0} = {u \in Task : starts[u] > 0} \cup {t}
  BY DEF WorkerPops, IInv, TypeOK
<1>3. current' = t /\ t # NoTask
  BY TaskAssumption DEF WorkerPops
<1>4. t \in tasks /\ when[t] <= now /\ \A u \in tasks : when[t] <= when[u]
  BY DEF WorkerPops, Top
<1>5. owner' = owner /\ now' = now /\ when' = when /\ tasks' = tasks \ {t}
  BY DEF WorkerPops
<1> QED
  BY <1>1, <1>2, <1>3, <1>4, <1>5 DEF Contract!Begin

\* The end of a task, by return, by an exception or by calling Stop.
LEMMA EndFinishes ==
  ASSUME IInv, TaskEnds \/ TaskStops
  PROVE  Contract!Finish
BY DEF TaskEnds, TaskStops, IInv, Placement, Contract!Finish, queueVars

\* Every other step leaves the contract's variables alone.
LEMMA OthersStutter ==
  ASSUME UNCHANGED <<now, tasks, when, starts, current>>, UNCHANGED owner
         \/ (owner' # "stopped" /\ owner # "stopped")
  PROVE  UNCHANGED Contract!absVars
BY DEF Contract!absVars

\* Each step of the worker, the callers and Stop is one the contract allows.
LEMMA NextContract == IInv /\ [Next]_vars => [Contract!AbsNext]_(Contract!absVars)
<1> SUFFICES ASSUME IInv, [Next]_vars
             PROVE  Contract!AbsNext \/ UNCHANGED Contract!absVars
  OBVIOUS
<1> USE DEF queueVars, workerVars
<1>1. CASE Tick
  BY <1>1 DEF Tick, Contract!Advance, Contract!AbsNext
<1>2. ASSUME NEW t \in Task, NEW d \in Delay, Schedule(t, d)
      PROVE  Contract!AbsNext
  BY <1>2, ScheduleSubmits DEF Contract!AbsNext
<1>3. ASSUME NEW t \in Task, WorkerPops(t)
      PROVE  Contract!AbsNext
  BY <1>3, PopBegins DEF Contract!AbsNext
<1>4. CASE TaskEnds \/ TaskStops
  BY <1>4, EndFinishes DEF Contract!AbsNext
<1>5. CASE StopJoins
  BY <1>5 DEF StopJoins, IInv, Placement, Contract!Close, Contract!AbsNext
<1>6. CASE ConstructorReturns \/ StopStores \/ StopNotifies
  BY <1>6, OthersStutter DEF ConstructorReturns, StopStores, StopNotifies
<1>7. CASE WorkerTests \/ WorkerFindsEmpty \/ WorkerFindsTask \/ WorkerBlocks
           \/ WorkerTimesOut \/ SpuriousWakeup
  BY <1>7, OthersStutter
     DEF WorkerTests, WorkerFindsEmpty, WorkerFindsTask, WorkerBlocks, WorkerTimesOut,
         SpuriousWakeup
<1>8. ASSUME NEW t \in Task, WorkerFindsNoneDue(t)
      PROVE  UNCHANGED Contract!absVars
  BY <1>8, OthersStutter DEF WorkerFindsNoneDue
<1>9. CASE UNCHANGED vars
  BY <1>9, OthersStutter DEF vars
<1> QED
  BY <1>1, <1>2, <1>3, <1>4, <1>5, <1>6, <1>7, <1>8, <1>9 DEF Next, WorkerStep

\* ThreadScheduler implements the contract: submitted tasks begin at most
\* once, in due order, one at a time, and none begins once Stop has returned.
THEOREM Implements == Spec => ImplementsContract
<1> QED
  BY InitContract, NextContract, Invariance, PTL DEF Spec, ImplementsContract, Contract!AbsSpec
=============================================================================
