----------------------------- MODULE QtLauncher -----------------------------
(***************************************************************************)
(* src/launcher/mcx_launcher.cpp: the window and its event loop, the       *)
(* server's process behind QProcess, the one-second timers of Restart, the *)
(* threads that check for updates, and closing the window.  A slot runs    *)
(* without interruption, except that a message box runs the event loop.    *)
(***************************************************************************)
EXTENDS Naturals

CONSTANTS MaxStarts, \* bound on processes started
          MaxTimers, \* bound on restarts that are pending at a time
          MaxChecks  \* bound on update checks
BoundAssumption == {MaxStarts, MaxTimers, MaxChecks} \subseteq Nat

VARIABLES
  ui,      \* "idle", "error" or "confirm" box, "closing", "closed"
  running, \* isServerRunning_, and with it what the buttons allow
  proc,    \* state(): "none", "starting", "running"; "exited" until it is noticed
  does,    \* what main() makes of the argument the process was given
  dying,   \* kill() was called on the process
  timers,  \* restarts whose second has not passed
  demo,    \* demoModeCheck_
  saved,   \* the settings on disk
  checks,  \* threads in CheckForUpdates
  done,    \* threads that have ended and whose slot has not run
  bar,     \* the progress bar is shown, the button is disabled
  launched,\* the first second, after which a check is made, is not over
  starts, begun, \* processes and checks so far
  slow,    \* history: a process was not up in five seconds
  waiting  \* history: nothing was started since the last restart
procVars == <<proc, does, dying, starts, slow>>
checkVars == <<checks, done, bar, launched, begun>>
vars == <<ui, running, procVars, timers, demo, saved, checkVars, waiting>>

Init == /\ ui = "idle" /\ running = FALSE /\ proc = "none" /\ does = "nothing" /\ dying = FALSE
        /\ timers = 0 /\ saved \in BOOLEAN /\ demo = saved
        /\ checks = 0 /\ done = 0 /\ bar = FALSE /\ launched = TRUE
        /\ starts = 0 /\ begun = 0 /\ slow = FALSE /\ waiting = FALSE

Idle == ui = "idle"
InLoop == ui # "closed"
\* The window takes clicks only while no box is open.
Boxed(to) == IF Idle THEN to ELSE ui

---------------------------------------------------------------------------
\* onStartServer.  main() knows no "--server" and prints its usage.
Does(d) == IF d THEN "demo" ELSE "usage"
Up == running' = TRUE /\ waiting' = FALSE /\ UNCHANGED ui
NotUp == running' = running /\ ui' = Boxed("error") /\ UNCHANGED waiting

Starts == /\ proc = "none" /\ starts < MaxStarts /\ starts' = starts + 1 /\ saved' = demo
          /\ does' = Does(demo) /\ dying' = FALSE
          /\ \/ proc' = "running" /\ Up /\ UNCHANGED slow
             \/ proc' = "none" /\ NotUp /\ UNCHANGED slow
             \/ proc' = "starting" /\ NotUp /\ slow' = TRUE
\* start() refuses while there is a process, and waitForStarted asks state().
Refused == /\ proc # "none" /\ saved' = demo /\ UNCHANGED <<starts, does, dying, slow>>
           /\ \/ proc \in {"running", "exited"} /\ proc' = proc /\ Up
              \/ proc = "starting" /\ proc' = "running" /\ Up
              \/ proc = "starting" /\ proc' \in {"starting", "none"} /\ NotUp
StartServer == Idle /\ ~running /\ (Starts \/ Refused) /\ UNCHANGED <<timers, demo, checkVars>>

\* onStopServer.  waitForFinished runs onServerFinished; kill() does not wait.
Ended == proc' = "none" /\ running' = FALSE /\ UNCHANGED dying
Killed == proc' = proc /\ dying' = TRUE /\ UNCHANGED running
\* Faulty variant: the slot does not wait, and clears the flag itself.
ClearsFlag == \/ Ended
              \/ proc' = proc /\ dying' = TRUE /\ running' = FALSE
Stops == Ended \/ Killed
StopServer == /\ Idle /\ running /\ Stops
              /\ UNCHANGED <<ui, does, starts, slow, timers, demo, saved, checkVars, waiting>>
Restart == /\ Idle /\ timers < MaxTimers /\ timers' = timers + 1 /\ waiting' = TRUE
           /\ IF running THEN Stops ELSE UNCHANGED <<proc, running, dying>>
           /\ UNCHANGED <<ui, does, starts, slow, demo, saved, checkVars>>

\* The timer's second is over: onStartServer, in whatever loop runs.
TimerStarts == InLoop /\ timers > 0 /\ ~running /\ timers' = timers - 1
               /\ (Starts \/ Refused) /\ UNCHANGED <<demo, checkVars>>
TimerSkips == /\ InLoop /\ timers > 0 /\ running /\ timers' = timers - 1
              /\ UNCHANGED <<ui, running, procVars, demo, saved, checkVars, waiting>>

---------------------------------------------------------------------------
\* The process and what the event loop learns of it.
Process(to) == /\ proc' = to
               /\ UNCHANGED <<ui, does, dying, starts, slow, timers, demo, saved, checkVars, waiting>>
ComesUp == proc = "starting" /\ Process("running") /\ UNCHANGED running
Exits == proc = "running" /\ Process("exited") /\ UNCHANGED running
FailsLate == InLoop /\ proc = "starting" /\ Process("none") /\ UNCHANGED running
Finished == InLoop /\ proc = "exited" /\ Process("none") /\ running' = FALSE

Dismiss == /\ ui = "error" /\ ui' = "idle"
           /\ UNCHANGED <<running, procVars, timers, demo, saved, checkVars, waiting>>
Tick(d) == /\ Idle /\ demo # d /\ demo' = d
           /\ UNCHANGED <<ui, running, procVars, timers, saved, checkVars, waiting>>
SaveConfig == /\ Idle /\ saved # demo /\ saved' = demo
              /\ UNCHANGED <<ui, running, procVars, timers, demo, checkVars, waiting>>
LoadConfig == /\ Idle /\ saved # demo /\ demo' = saved
              /\ UNCHANGED <<ui, running, procVars, timers, saved, checkVars, waiting>>

---------------------------------------------------------------------------
\* onCheckUpdate is a button, a menu item and a timer, which fires whatever
\* box is open; it disables the button.  A thread's end enables it again.
OnlyChecks == UNCHANGED <<ui, running, procVars, timers, demo, saved, waiting>>
Checks == /\ begun < MaxChecks /\ begun' = begun + 1 /\ checks' = checks + 1 /\ bar' = TRUE
          /\ UNCHANGED done
CheckUpdate == Idle /\ Checks /\ UNCHANGED launched /\ OnlyChecks
\* Nothing is checked if the operator has switched that off.
StartUpdateCheck == /\ InLoop /\ launched /\ launched' = FALSE /\ OnlyChecks
                    /\ Checks \/ UNCHANGED <<checks, done, bar, begun>>
CheckReturns == /\ checks > 0 /\ checks' = checks - 1 /\ done' = done + 1
                /\ UNCHANGED <<bar, launched, begun>> /\ OnlyChecks
HidesBar == bar' = FALSE
CheckFinished == /\ InLoop /\ done > 0 /\ done' = done - 1 /\ HidesBar
                 /\ UNCHANGED <<checks, launched, begun>> /\ OnlyChecks

---------------------------------------------------------------------------
\* closeEvent, and the destructor once the loop has ended.
To(state) == ui' = state /\ UNCHANGED <<does, starts, slow, timers, demo, saved, checkVars, waiting>>
Close == Idle /\ To(IF running THEN "confirm" ELSE "closing") /\ UNCHANGED <<running, proc, dying>>
AnswerNo == ui = "confirm" /\ To("idle") /\ UNCHANGED <<running, proc, dying>>
AnswerYes == /\ ui = "confirm" /\ To("closing")
             /\ IF running THEN Stops ELSE UNCHANGED <<running, proc, dying>>
EndsProcess == proc' = "none"
Destroy == /\ ui = "closing" /\ ui' = "closed" /\ saved' = demo /\ timers' = 0 /\ EndsProcess
           /\ UNCHANGED <<running, does, dying, starts, slow, demo, checkVars, waiting>>

LoopStep == Finished \/ FailsLate \/ TimerStarts \/ TimerSkips \/ StartUpdateCheck \/ CheckFinished
Next == \/ StartServer \/ StopServer \/ Restart \/ LoopStep \/ ComesUp \/ Exits \/ Dismiss
        \/ SaveConfig \/ LoadConfig \/ CheckUpdate \/ CheckReturns
        \/ Close \/ AnswerNo \/ AnswerYes \/ Destroy
        \/ \E d \in BOOLEAN : Tick(d)
Fairness == /\ WF_vars(Finished) /\ WF_vars(CheckReturns) /\ WF_vars(CheckFinished)
            /\ WF_vars(dying /\ Exits)
Spec == Init /\ [][Next]_vars /\ Fairness

---------------------------------------------------------------------------
(* Every variable has a value of its type; the flag that enables Stop is   *)
(* set only while there is a process for Stop to end.                      *)
TypeOK == /\ ui \in {"idle", "error", "confirm", "closing", "closed"} /\ running \in BOOLEAN
          /\ proc \in {"none", "starting", "running", "exited"} /\ does \in {"nothing", "demo", "usage"}
          /\ timers \in 0..MaxTimers /\ checks + done <= begun /\ begun <= MaxChecks
          /\ bar \in BOOLEAN /\ launched \in BOOLEAN
          /\ running /\ InLoop => proc \in {"running", "exited"}

(* A server runs that Stop refuses to stop only if it took more than five  *)
(* seconds to come up: never because a Stop has given up waiting for it.   *)
UnstoppableOnlyIfSlow == proc = "running" /\ ~running => slow

(* A restart that finds the flag set, and so starts nothing, though nobody *)
(* has started a server meanwhile, comes after a server that did not end   *)
(* when asked to: its end is noticed only when the event loop is back.     *)
LostOnlyAfterKill == [][TimerSkips => dying \/ ~waiting]_vars

(* No server outlives the launcher, whatever was pending when it closed. *)
NoneOutlives == ui = "closed" => proc = "none"

(* The progress bar is not left showing when no check runs. *)
IdleLooksIdle == bar => checks + done > 0

(* A Stop that had to kill is over in the end: the flag clears. *)
StopEnds == dying /\ running ~> ~running \/ ui = "closed"

(* The button comes back after every check. *)
ButtonBack == bar ~> ~bar \/ ui = "closed"

(* Violated: the process the launcher reports as a running server is one.  *)
ServerIsServer == running => does # "usage"
=============================================================================
