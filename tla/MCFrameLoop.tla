----------------------------- MODULE MCFrameLoop -----------------------------
(***************************************************************************)
(* Bounds for FrameLoop: three tasks, one of which throws, so that a       *)
(* thrower can stand before and behind the others.  Two pushes fill the    *)
(* vector, so a task that schedules finds it full (the iterator dangles)   *)
(* or, after an erase or a Clear, with room (the scan goes on).  The clock *)
(* may tick once, in the middle of a frame or between two.                 *)
(***************************************************************************)
EXTENDS FrameLoop

\* A Stop after Run's own store to running_ ends Run; a task that the loop
\* finds is run, unless it is cleared, stands behind a task that throws or
\* the loop ends.
RunProgresses == StopEndsRun /\ TasksRun
=============================================================================
