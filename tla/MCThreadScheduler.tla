-------------------------- MODULE MCThreadScheduler --------------------------
(***************************************************************************)
(* Bounds for ThreadScheduler: three calls of Schedule whose delays of 0,  *)
(* 1 and 2 ticks can make a later call fall due earlier, on a clock long   *)
(* enough for the longest delay to be scheduled late.  The safety and the  *)
(* liveness properties are checked on the same, fair, specification, and   *)
(* hence without symmetry.                                                 *)
(***************************************************************************)
EXTENDS ThreadScheduler

\* A task that is queued begins, unless the scheduler is stopped, and Stop
\* returns, but for a worker that left early and for the notify that falls
\* between a worker's test and its wait.
Progresses == QueuedTasksBegin /\ StopReturns
=============================================================================
