---------------------------- MODULE DelayedTasks ----------------------------
(***************************************************************************)
(* What ThreadScheduler promises its callers, with no worker thread, mutex *)
(* or condition variable: a task is submitted once with a delay, begins at *)
(* most once, not before its due time and never while an earlier one is    *)
(* still pending, one task runs at a time, and after Stop has returned no  *)
(* task begins.  ThreadScheduler is shown to implement this specification. *)
(***************************************************************************)
EXTENDS Naturals

CONSTANTS Task,    \* the callables handed to Schedule
          Delay    \* the delays, in clock ticks

VARIABLES clock,   \* steady_clock
          pending, \* submitted and not begun
          due,     \* when a submitted task falls due
          begun,   \* begun, finished or not
          busy,    \* the task being executed, at most one
          closed   \* Stop has returned

absVars == <<clock, pending, due, begun, busy, closed>>

AbsInit == /\ clock = 0
           /\ pending = {}
           /\ due = [t \in Task |-> 0]
           /\ begun = {}
           /\ busy = {}
           /\ closed = FALSE

Advance == /\ clock' = clock + 1
           /\ UNCHANGED <<pending, due, begun, busy, closed>>

Submit(t, d) == /\ t \notin pending \cup begun
                /\ pending' = pending \cup {t}
                /\ due' = [due EXCEPT ![t] = clock + d]
                /\ UNCHANGED <<clock, begun, busy, closed>>

Begin(t) == /\ ~closed
            /\ busy = {}
            /\ t \in pending
            /\ due[t] <= clock
            /\ \A u \in pending : due[t] <= due[u]
            /\ pending' = pending \ {t}
            /\ begun' = begun \cup {t}
            /\ busy' = {t}
            /\ UNCHANGED <<clock, due, closed>>

Finish == /\ busy # {}
          /\ busy' = {}
          /\ UNCHANGED <<clock, pending, due, begun, closed>>

Close == /\ busy = {}
         /\ closed' = TRUE
         /\ UNCHANGED <<clock, pending, due, begun, busy>>

AbsNext == \/ Advance
           \/ \E t \in Task, d \in Delay : Submit(t, d)
           \/ \E t \in Task : Begin(t)
           \/ Finish
           \/ Close

AbsSpec == AbsInit /\ [][AbsNext]_absVars
=============================================================================
