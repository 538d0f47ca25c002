------------------------ MODULE ServerShutdownProofs ------------------------
(***************************************************************************)
(* Proofs about ServerShutdown for every set of tasks and every choice of  *)
(* the members they reach: a running task finds the members declared       *)
(* before the thread scheduler alive, and an owner that stops first is     *)
(* safe altogether.  The scheduler's own invariant is that of              *)
(* ThreadSchedulerProofs; every step of the composition is one of its or   *)
(* leaves it alone.                                                        *)
(***************************************************************************)
EXTENDS ServerShutdown, ThreadSchedulerProofs

\* The scheduler is the fifth of eight members.
LEMMA Place == Len(Declared) = 8 /\ Pos = 5
<1>1. Len(Declared) = 8
  BY DEF Declared
<1>2. /\ Declared[1] # "threadScheduler_" /\ Declared[2] # "threadScheduler_"
      /\ Declared[3] # "threadScheduler_" /\ Declared[4] # "threadScheduler_"
      /\ Declared[5] = "threadScheduler_" /\ Declared[6] # "threadScheduler_"
      /\ Declared[7] # "threadScheduler_" /\ Declared[8] # "threadScheduler_"
  BY DEF Declared
<1>3. \A i \in 1..8 : Declared[i] = "threadScheduler_" <=> i = 5
  BY <1>2
<1> QED
  BY <1>1, <1>3 DEF Pos

\* Members below the scheduler are destroyed only after the join, and any
\* member only then, if the owner called Stop first.
Order == /\ alive \in 0..8
         /\ alive < 5 => owner = "stopped"
         /\ stoppedFirst => owner \in {"stopping", "joining", "stopped"}
         /\ stoppedFirst /\ alive < 8 => owner = "stopped"

\* A new server is whole, and nothing has been stopped.
LEMMA InitOrder == InitServer => IInv /\ Order
BY InitIInv, Place DEF InitServer, Order

\* The scheduler takes part in every step as ThreadScheduler allows.
LEMMA StepOfScheduler == [NextServer]_allVars => [Next]_vars
<1> SUFFICES ASSUME [NextServer]_allVars PROVE Next \/ UNCHANGED vars
  OBVIOUS
<1>1. CASE DestroyMember
  BY <1>1 DEF DestroyMember
<1>2. CASE DestructorStops
  BY <1>2 DEF DestructorStops, Next
<1>3. CASE SchedulerDestroyed
  BY <1>3 DEF SchedulerDestroyed
<1>4. CASE OwnerStops
  BY <1>4 DEF OwnerStops, Next
<1>5. ASSUME NEW t \in Task, NEW d \in Delay, TaskScheduled(t, d)
      PROVE  Next
  BY <1>5 DEF TaskScheduled, Next
<1>6. CASE SchedulerStep
  BY <1>6 DEF SchedulerStep, Next
<1>7. CASE UNCHANGED allVars
  BY <1>7 DEF allVars
<1> QED
  BY <1>1, <1>2, <1>3, <1>4, <1>5, <1>6, <1>7 DEF NextServer

\* Once the scheduler is being stopped its owner goes only onwards.
LEMMA OwnerGoesOn ==
  ASSUME SchedulerStep
  PROVE  /\ UNCHANGED serverVars
         /\ owner = "stopped" => owner' = "stopped"
         /\ owner \in {"stopping", "joining"} => owner' \in {"stopping", "joining", "stopped"}
BY DEF SchedulerStep, WorkerStep, Tick, ConstructorReturns, StopNotifies, StopJoins,
       WorkerTests, WorkerFindsEmpty, WorkerFindsTask, WorkerPops, WorkerFindsNoneDue,
       WorkerBlocks, WorkerTimesOut, SpuriousWakeup, TaskEnds, TaskStops

\* Every step keeps the order of destruction.
LEMMA NextOrder == Order /\ [NextServer]_allVars => Order'
<1> SUFFICES ASSUME Order, [NextServer]_allVars PROVE Order'
  OBVIOUS
<1> USE Place DEF Order, serverVars
<1>1. CASE DestroyMember
  BY <1>1 DEF DestroyMember, vars
<1>2. CASE DestructorStops
  BY <1>2 DEF DestructorStops, StopStores
<1>3. CASE SchedulerDestroyed
  BY <1>3 DEF SchedulerDestroyed, vars
<1>4. CASE OwnerStops
  BY <1>4 DEF OwnerStops, StopStores
<1>5. ASSUME NEW t \in Task, NEW d \in Delay, TaskScheduled(t, d)
      PROVE  Order'
  BY <1>5 DEF TaskScheduled, Schedule
<1>6. CASE SchedulerStep
  BY <1>6, OwnerGoesOn
<1>7. CASE UNCHANGED allVars
  BY <1>7 DEF allVars, vars
<1> QED
  BY <1>1, <1>2, <1>3, <1>4, <1>5, <1>6, <1>7 DEF NextServer

\* Both invariants hold in every reachable state.
THEOREM OrderHolds == ServerSpec => [](IInv /\ Order)
<1>1. (IInv /\ Order) /\ [NextServer]_allVars => (IInv /\ Order)'
  BY StepOfScheduler, NextOrder, NextTypeOK, NextNoOversleep, NextEachTaskOnce, NextPlacement
     DEF IInv
<1> QED
  BY InitOrder, <1>1, PTL DEF ServerSpec

\* A task that runs keeps the scheduler, and so what is declared before it.
LEMMA RunningKeepsMembers ==
  ASSUME IInv, Order, worker = "run"
  PROVE  /\ current \in Task /\ owner # "stopped" /\ alive \in 5..8
         /\ stoppedFirst => alive = 8
BY DEF IInv, TypeOK, Placement, Order

\* Each of the members is there while its place is below `alive'.
LEMMA ExistsBelow ==
  ASSUME alive \in 5..8, NEW m \in Member
  PROVE  /\ m \notin {"metrics_", "permissions_", "moduleLoader_"} => Exists(m)
         /\ alive = 8 => Exists(m)
<1>1. PICK i \in 1..8 : Declared[i] = m
  BY Place DEF Member
<1>2. i \in {6, 7, 8} => m \in {"metrics_", "permissions_", "moduleLoader_"}
  BY <1>1 DEF Declared
<1>3. i \in 1..alive => Exists(m)
  BY <1>1 DEF Exists
<1> QED
  BY <1>2, <1>3

\* No running task reaches a destroyed member that is declared before the
\* thread scheduler, nor any once the owner has stopped it first.
THEOREM MembersAlive == ServerSpec => []TasksReachLiveMembers
<1>1. IInv /\ Order => TasksReachLiveMembers
  <2> SUFFICES ASSUME IInv, Order, worker = "run", NEW m \in Uses[current]
               PROVE  /\ m \notin {"metrics_", "permissions_", "moduleLoader_"} => Exists(m)
                      /\ stoppedFirst => Exists(m)
    BY DEF TasksReachLiveMembers, EarlierMembersAlive, StopFirstIsSafe
  <2>1. /\ current \in Task /\ alive \in 5..8
        /\ stoppedFirst => alive = 8
    BY RunningKeepsMembers
  <2>2. m \in Member
    BY <2>1, UsesAssumption
  <2> QED
    BY <2>1, <2>2, ExistsBelow
<1> QED
  BY OrderHolds, <1>1, PTL

\* When the thread scheduler is gone, so is its thread.
THEOREM ThreadGone == ServerSpec => []NoThreadLeft
<1>1. IInv /\ Order => NoThreadLeft
  BY Place DEF IInv, Placement, Order, NoThreadLeft
<1> QED
  BY OrderHolds, <1>1, PTL
=============================================================================
