--------------------------- MODULE ImGuiLauncher ---------------------------
(***************************************************************************)
(* src/launcher_imgui/mcx_imgui_launcher.cpp: the window's thread, the     *)
(* detached threads that StartServer begins (they print heartbeats in      *)
(* place of a server) and the detached thread of CheckForUpdates, over the *)
(* launcher's members; and the configuration between runs of the program.  *)
(***************************************************************************)
EXTENDS Naturals, FiniteSets

CONSTANTS Beats,     \* turns of a thread's loop: 5 in the code
          MaxStarts, \* bound on calls of StartServer
          Configs    \* configurations the operator can enter
Default == "default"
BeatsAssumption == Beats \in Nat /\ MaxStarts \in Nat

VARIABLES
  ui,        \* what the window's thread is at
  running,   \* server_running_
  checking,  \* checking_update_
  available, \* update_available_, with latest_version_ and download_url_
  updater,   \* the thread of CheckForUpdates
  servers,   \* per started thread: where it is
  beats,     \* per started thread: i, the seconds it has slept through
  owed,      \* history: lines a thread was bound to print at the last stop, less those printed since
  starts,    \* threads started so far
  config,    \* config_, what the panel shows
  file       \* mcx-config.json, "none" if there is none
threadVars == <<servers, beats, owed>>
configVars == <<config, file>>
vars == <<ui, running, checking, available, updater, threadVars, starts, configVars>>

Thread == 1..MaxStarts

\* Initialize begins a check of its own: autoUpdate is not read back.
Init == /\ ui = "frame" /\ running = FALSE /\ checking = TRUE /\ available = FALSE
        /\ updater = "progress"
        /\ servers = [t \in Thread |-> "none"] /\ beats = [t \in Thread |-> 0]
        /\ owed = [t \in Thread |-> 0] /\ starts = 0
        /\ config = Default /\ file \in Configs \cup {"none"}

---------------------------------------------------------------------------
\* The window's thread: buttons and menu items between two frames.
Idle == ui = "frame"

\* The lines that a thread prints without another look at the flag.
Bound(at) == CASE at = "begin" -> 2 [] at \in {"port", "append"} -> 1 [] OTHER -> 0
Stopped == running' = FALSE /\ owed' = [t \in Thread |-> Bound(servers[t])]
Started == /\ starts < MaxStarts /\ starts' = starts + 1 /\ file' = config
           /\ running' = TRUE /\ servers' = [servers EXCEPT ![starts'] = "begin"]

StartServer == /\ ui \in {"frame", "restart"} /\ ~running /\ Started /\ ui' = "frame"
               /\ UNCHANGED <<checking, available, updater, beats, owed, config>>
StopServer == /\ Idle /\ running /\ Stopped
              /\ UNCHANGED <<ui, checking, available, updater, servers, beats, starts, configVars>>

\* Restart is the two in one handler: a thread that tests the flag at its
\* loop's head between them ends, any other lives on.
Restart == /\ Idle /\ starts < MaxStarts /\ ui' = "restart"
           /\ IF running THEN Stopped ELSE UNCHANGED <<running, owed>>
           /\ UNCHANGED <<checking, available, updater, servers, beats, starts, configVars>>

NotChecking == ~checking
CheckForUpdates == /\ Idle /\ NotChecking
                   /\ checking' = TRUE /\ available' = FALSE /\ updater' = "progress"
                   /\ UNCHANGED <<ui, running, threadVars, starts, configVars>>

\* RenderControlPanel tests checking_update_, then reads the field that its
\* branch draws; none is atomic.  The bar is drawn with any progress.
PanelTests == /\ Idle /\ ui' = (IF checking THEN "bar" ELSE "answer")
              /\ UNCHANGED <<running, checking, available, updater, threadVars, starts, configVars>>
PanelReads == /\ ui \in {"bar", "answer"} /\ ui' = "frame"
              /\ UNCHANGED <<running, checking, available, updater, threadVars, starts, configVars>>

---------------------------------------------------------------------------
\* Configuration.  sscanf stops at the "*" of its formats, which no line of
\* the file has: it assigns nothing, and Save writes what is shown.
Edit(c) == /\ Idle /\ config # c /\ config' = c
           /\ UNCHANGED <<ui, running, checking, available, updater, threadVars, starts, file>>
SaveConfig == /\ Idle /\ file # config /\ file' = config
              /\ UNCHANGED <<ui, running, checking, available, updater, threadVars, starts, config>>
Parsed == config
LoadConfig == /\ Idle /\ file # "none" /\ config' = Parsed /\ ui' = "loaded"
              /\ UNCHANGED <<running, checking, available, updater, threadVars, starts, file>>
Shown == /\ ui = "loaded" /\ ui' = "frame"
         /\ UNCHANGED <<running, checking, available, updater, threadVars, starts, configVars>>

---------------------------------------------------------------------------
\* The threads.
At(t, from, to) == /\ servers[t] = from /\ servers' = [servers EXCEPT ![t] = to]
                   /\ UNCHANGED <<ui, running, checking, available, updater, starts, configVars>>

\* "Server started successfully!" and "Listening on port" are printed whether
\* the server still runs or not, a heartbeat after a test of the flag.
Prints(t) == owed' = IF running THEN owed ELSE [owed EXCEPT ![t] = @ - 1]
ServerBegins(t) == (At(t, "begin", "port") \/ At(t, "port", "loop")) /\ Prints(t) /\ UNCHANGED beats

Sleeps(t) == beats[t] < Beats /\ running
LoopTests(t) == At(t, "loop", IF Sleeps(t) THEN "sleep" ELSE "ended") /\ UNCHANGED <<beats, owed>>

\* With the flag false nothing is printed; the loop's own test comes next.
Turns(t) == beats' = [beats EXCEPT ![t] = @ + 1]
Wakes(t) == \/ At(t, "sleep", "append") /\ running /\ UNCHANGED <<beats, owed>>
            \/ At(t, "sleep", "loop") /\ ~running /\ Turns(t) /\ UNCHANGED owed
Heartbeat(t) == At(t, "append", "loop") /\ Turns(t) /\ Prints(t)

Updates(from, to) == /\ updater = from /\ updater' = to
                     /\ UNCHANGED <<ui, running, threadVars, starts, configVars>>
Progress == Updates("progress", "write") /\ UNCHANGED <<checking, available>>
WritesFields == Updates("write", "append") /\ available' = TRUE /\ UNCHANGED <<checking>>
\* Faulty variant: the check is declared over before its last line.
OverEarly == Updates("append", "progress") /\ checking' = FALSE /\ UNCHANGED <<available>>
CheckEnds == Updates("append", "none") /\ checking' = FALSE /\ UNCHANGED available

ServerStep(t) == ServerBegins(t) \/ LoopTests(t) \/ Wakes(t) \/ Heartbeat(t)
UpdateStep == Progress \/ WritesFields \/ CheckEnds
Next == \/ StartServer \/ StopServer \/ Restart \/ CheckForUpdates \/ PanelTests \/ PanelReads
        \/ SaveConfig \/ LoadConfig \/ Shown \/ UpdateStep
        \/ \E t \in Thread : ServerStep(t)
        \/ \E c \in Configs : Edit(c)
Fairness == WF_vars(UpdateStep) /\ \A t \in Thread : WF_vars(ServerStep(t))
Spec == Init /\ [][Next]_vars /\ Fairness

---------------------------------------------------------------------------
(* Every variable has a value of its type; a check runs exactly while its  *)
(* flag is set, so that there is never a second.                           *)
TypeOK == /\ ui \in {"frame", "restart", "bar", "answer", "loaded"} /\ running \in BOOLEAN /\ checking \in BOOLEAN
          /\ updater \in {"none", "progress", "write", "append"}
          /\ servers \in [Thread -> {"none", "begin", "port", "loop", "sleep", "append", "ended"}]
          /\ beats \in [Thread -> 0..Beats] /\ starts \in 0..MaxStarts
          /\ config \in Configs \cup {Default} /\ file \in Configs \cup {Default, "none"}
          /\ checking <=> updater # "none"

(* The flag that the panel has tested is cleared last and set only by the  *)
(* panel's own thread: the update's answer is not written while the panel  *)
(* reads it.  The progress is: the bar is drawn in a race with the thread  *)
(* that advances it, the only race on the fields of the update.            *)
Read == CASE ui = "bar" -> {"update_progress_"}
          [] ui = "answer" -> {"update_available_", "latest_version_", "download_url_"}
          [] OTHER -> {}
Written == CASE updater = "progress" -> {"update_progress_"}
             [] updater = "write" -> {"update_available_", "latest_version_", "download_url_"}
             [] OTHER -> {}
OnlyProgressRaces == Read \cap Written \subseteq {"update_progress_"}

(* After "Server stopped" a thread prints only what it was bound to: the   *)
(* heartbeat it had begun, or the two lines it starts with.  One that was  *)
(* asleep prints nothing, until something is started again.                *)
OnlyOwedPrinted == ~running => \A t \in Thread : owed[t] >= 0

(* Every heartbeat thread ends, started and restarted however often.       *)
ThreadsEnd == \A t \in Thread : servers[t] = "begin" ~> servers[t] = "ended"

(* The panel does not say "Checking for updates..." for ever. *)
CheckIsOver == checking ~> ~checking

(* Violated: after "Configuration loaded!" the panel shows the file. *)
LoadedIsFile == ui = "loaded" => config = file
=============================================================================
