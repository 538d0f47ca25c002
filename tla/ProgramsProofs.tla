---------------------------- MODULE ProgramsProofs ----------------------------
(***************************************************************************)
(* What is proved of the parts of MCPrograms: the two launchers for any    *)
(* number of servers, checks and pending restarts, the wizard for every    *)
(* range and whatever is typed, the console for any lines over any number  *)
(* of Starts, the update checker for whatever is answered, and the two     *)
(* comparisons of releases for all versions and lists of assets.  Each     *)
(* part has an inductive invariant; the theorems at the end put them       *)
(* together.                                                               *)
(***************************************************************************)
EXTENDS MCPrograms, FiniteSets, FiniteSetTheorems, SequenceTheorems, TLAPS

---------------------------------------------------------------------------
(* ImGui launcher                                                          *)

\* No check runs while the panel reads the answer of one, a thread that prints
\* a heartbeat has turns left, and after a stop each thread is owed at least
\* what it prints without a test of the flag.
ImGuiInv ==
  /\ ImGui!TypeOK /\ (imUi = "answer" => ~checking)
  /\ \A t \in ImGui!Thread : servers[t] \in {"sleep", "append"} => beats[t] < Beats
  /\ owed \in [ImGui!Thread -> Int]
  /\ ~imRunning => \A t \in ImGui!Thread : owed[t] >= ImGui!Bound(servers[t])

\* At first there is no server thread.
LEMMA ImGuiInitInv == ImGui!Init => ImGuiInv
<1> SUFFICES ASSUME ImGui!Init PROVE ImGuiInv
  OBVIOUS
<1>1. Beats \in Nat /\ MaxServers \in Nat
  BY LaunchersAssumption DEF ImGui!BeatsAssumption
<1>2. 0 \in 0..Beats /\ 0 \in 0..MaxServers
  BY <1>1
<1>3. ImGui!TypeOK
  BY <1>2 DEF ImGui!Init, ImGui!TypeOK
<1> QED
  BY <1>3 DEF ImGui!Init, ImGuiInv, ImGui!Bound

\* The window's thread: the buttons, the panel and the configuration.
LEMMA ImGuiWindowInv ==
  ASSUME ImGuiInv,
         \/ ImGui!StartServer \/ ImGui!StopServer \/ ImGui!Restart \/ ImGui!CheckForUpdates
         \/ ImGui!PanelTests \/ ImGui!PanelReads
         \/ ImGui!SaveConfig \/ ImGui!LoadConfig \/ ImGui!Shown \/ \E c \in Configs : ImGui!Edit(c)
  PROVE  ImGuiInv'
<1>1. Beats \in Nat /\ MaxServers \in Nat
  BY LaunchersAssumption DEF ImGui!BeatsAssumption
<1>2. ASSUME ImGui!Stopped
      PROVE  /\ owed' \in [ImGui!Thread -> Int] /\ imRunning' = FALSE
             /\ \A t \in ImGui!Thread : owed'[t] = ImGui!Bound(servers[t])
  BY <1>2 DEF ImGui!Stopped, ImGui!Bound
<1> USE DEF ImGuiInv, ImGui!TypeOK, ImGui!Idle, ImGui!threadVars, ImGui!configVars
<1>3. CASE ImGui!StartServer
  BY <1>1, <1>3 DEF ImGui!StartServer, ImGui!Started, ImGui!Thread
<1>4. CASE ImGui!StopServer
  BY <1>2, <1>4 DEF ImGui!StopServer
<1>5. CASE ImGui!Restart
  <2>1. CASE imRunning
    BY <1>2, <1>5, <2>1 DEF ImGui!Restart
  <2>2. CASE ~imRunning
    BY <1>5, <2>2 DEF ImGui!Restart
  <2> QED
    BY <2>1, <2>2
<1>6. CASE ImGui!CheckForUpdates
  BY <1>6 DEF ImGui!CheckForUpdates, ImGui!NotChecking
<1>7. CASE ImGui!PanelTests \/ ImGui!PanelReads
  BY <1>7 DEF ImGui!PanelTests, ImGui!PanelReads
<1>8. CASE ImGui!Shown
  BY <1>8 DEF ImGui!Shown
<1>9. CASE ImGui!SaveConfig \/ ImGui!LoadConfig \/ \E c \in Configs : ImGui!Edit(c)
  BY <1>9 DEF ImGui!SaveConfig, ImGui!LoadConfig, ImGui!Edit, ImGui!Parsed
<1> QED
  BY <1>3, <1>4, <1>5, <1>6, <1>7, <1>8, <1>9

\* A line of a thread: what it is still bound to print is one less.
LEMMA ImGuiPrints ==
  ASSUME ImGuiInv, NEW t \in ImGui!Thread, NEW to, ImGui!Prints(t), ImGui!At(t, servers[t], to),
         ImGui!Bound(to) = ImGui!Bound(servers[t]) - 1
  PROVE  /\ owed' \in [ImGui!Thread -> Int]
         /\ ~imRunning' => \A u \in ImGui!Thread : owed'[u] >= ImGui!Bound(servers'[u])
<1>1. /\ owed \in [ImGui!Thread -> Int] /\ imRunning' = imRunning
      /\ servers \in [ImGui!Thread -> {"none", "begin", "port", "loop", "sleep", "append", "ended"}]
      /\ servers' = [servers EXCEPT ![t] = to]
  BY DEF ImGuiInv, ImGui!TypeOK, ImGui!At
<1>2. owed' = IF imRunning THEN owed ELSE [owed EXCEPT ![t] = @ - 1]
  BY DEF ImGui!Prints
<1>3. \A u \in ImGui!Thread : ImGui!Bound(servers[u]) \in Int
  BY DEF ImGui!Bound
<1>4. ~imRunning => \A u \in ImGui!Thread : owed[u] >= ImGui!Bound(servers[u])
  BY DEF ImGuiInv
<1> QED
  BY <1>1, <1>2, <1>3, <1>4

\* The threads: a line after a stop is one that was owed.
LEMMA ImGuiThreadInv ==
  ASSUME ImGuiInv, ImGui!UpdateStep \/ \E t \in ImGui!Thread : ImGui!ServerStep(t)
  PROVE  ImGuiInv'
<1>1. Beats \in Nat /\ MaxServers \in Nat
  BY LaunchersAssumption DEF ImGui!BeatsAssumption
<1>2. CASE ImGui!UpdateStep
  BY <1>2
  DEF ImGui!UpdateStep, ImGui!Progress, ImGui!WritesFields, ImGui!CheckEnds, ImGui!Updates,
      ImGuiInv, ImGui!TypeOK, ImGui!threadVars, ImGui!configVars
<1>3. ASSUME NEW t \in ImGui!Thread, ImGui!ServerBegins(t) PROVE ImGuiInv'
  <2>1. PICK to \in {"port", "loop"} :
          ImGui!At(t, servers[t], to) /\ servers[t] = (IF to = "port" THEN "begin" ELSE "port")
    BY <1>3 DEF ImGui!ServerBegins, ImGui!At
  <2>2. ImGui!Bound(to) = ImGui!Bound(servers[t]) - 1
    BY <2>1 DEF ImGui!Bound
  <2>3. ImGui!Prints(t) /\ beats' = beats
    BY <1>3 DEF ImGui!ServerBegins
  <2> QED
    BY <2>1, <2>2, <2>3, ImGuiPrints DEF ImGui!At, ImGuiInv, ImGui!TypeOK, ImGui!configVars
<1>4. ASSUME NEW t \in ImGui!Thread, ImGui!LoopTests(t) PROVE ImGuiInv'
  <2>1. PICK to \in {"sleep", "ended"} :
          ImGui!At(t, "loop", to) /\ (to = "sleep" => beats[t] < Beats)
    BY <1>4 DEF ImGui!LoopTests, ImGui!Sleeps
  <2>2. ImGui!Bound(to) = 0 /\ ImGui!Bound("loop") = 0
    BY DEF ImGui!Bound
  <2>3. UNCHANGED <<beats, owed>>
    BY <1>4 DEF ImGui!LoopTests
  <2> QED
    BY <2>1, <2>2, <2>3 DEF ImGui!At, ImGuiInv, ImGui!TypeOK, ImGui!configVars
<1>5. ASSUME NEW t \in ImGui!Thread, beats[t] < Beats, ImGui!Turns(t)
      PROVE  beats' \in [ImGui!Thread -> 0..Beats]
             /\ \A u \in ImGui!Thread : u # t => beats'[u] = beats[u]
  BY <1>1, <1>5 DEF ImGui!Turns, ImGuiInv, ImGui!TypeOK
<1>6. ASSUME NEW t \in ImGui!Thread, ImGui!Wakes(t) PROVE ImGuiInv'
  <2>1. ImGui!Bound("sleep") = 0 /\ ImGui!Bound("loop") = 0
    BY DEF ImGui!Bound
  <2>2. servers[t] = "sleep" /\ beats[t] < Beats /\ owed' = owed
    BY <1>6 DEF ImGui!Wakes, ImGui!At, ImGuiInv
  <2>3. CASE ImGui!At(t, "sleep", "append") /\ imRunning /\ beats' = beats
    BY <2>2, <2>3 DEF ImGui!At, ImGuiInv, ImGui!TypeOK, ImGui!configVars
  <2>4. CASE ImGui!At(t, "sleep", "loop") /\ ImGui!Turns(t)
    BY <1>5, <2>1, <2>2, <2>4 DEF ImGui!At, ImGuiInv, ImGui!TypeOK, ImGui!configVars
  <2> QED
    BY <1>6, <2>3, <2>4 DEF ImGui!Wakes
<1>7. ASSUME NEW t \in ImGui!Thread, ImGui!Heartbeat(t) PROVE ImGuiInv'
  <2>1. /\ servers[t] = "append" /\ beats[t] < Beats
        /\ ImGui!At(t, servers[t], "loop") /\ ImGui!Prints(t) /\ ImGui!Turns(t)
    BY <1>7 DEF ImGui!Heartbeat, ImGui!At, ImGuiInv
  <2>2. ImGui!Bound("loop") = ImGui!Bound(servers[t]) - 1
    BY <2>1 DEF ImGui!Bound
  <2> QED
    BY <1>5, <2>1, <2>2, ImGuiPrints DEF ImGui!At, ImGuiInv, ImGui!TypeOK, ImGui!configVars
<1> QED
  BY <1>2, <1>3, <1>4, <1>6, <1>7 DEF ImGui!ServerStep

LEMMA ImGuiStepInv == ImGuiInv /\ [ImGui!Next]_imVars => ImGuiInv'
<1>1. ImGuiInv /\ UNCHANGED imVars => ImGuiInv'
  BY DEF imVars, ImGuiInv, ImGui!TypeOK
<1> QED
  BY <1>1, ImGuiWindowInv, ImGuiThreadInv DEF ImGui!Next

\* While the panel reads the answer of a check there is no thread to write it.
LEMMA ImGuiKept == ImGuiInv => ImGuiThreads
<1> SUFFICES ASSUME ImGuiInv PROVE ImGuiThreads
  OBVIOUS
<1>1. imUi = "answer" => updater = "none"
  BY DEF ImGuiInv, ImGui!TypeOK
<1>2. ImGui!OnlyProgressRaces
  BY <1>1 DEF ImGui!OnlyProgressRaces, ImGui!Read, ImGui!Written
<1>3. \A t \in ImGui!Thread : ImGui!Bound(servers[t]) \in {0, 1, 2}
  BY DEF ImGui!Bound
<1>4. ImGui!OnlyOwedPrinted
  BY <1>3 DEF ImGuiInv, ImGui!OnlyOwedPrinted
<1> QED
  BY <1>2, <1>4 DEF ImGuiInv, ImGuiThreads

---------------------------------------------------------------------------
(* Qt launcher                                                             *)

\* A process that is still starting was given up on; a launcher that runs
\* and waits for a restart has a process that had to be killed.
QtInv ==
  /\ Qt!TypeOK /\ Qt!UnstoppableOnlyIfSlow /\ Qt!NoneOutlives /\ Qt!IdleLooksIdle
  /\ checks \in Nat /\ done \in Nat /\ begun \in Nat
  /\ demo \in BOOLEAN /\ saved \in BOOLEAN /\ dying \in BOOLEAN
  /\ slow \in BOOLEAN /\ qtWaiting \in BOOLEAN
  /\ proc = "starting" => slow
  /\ qtRunning /\ Qt!InLoop /\ qtWaiting => dying

\* At first there is no process, check or timer.
LEMMA QtInitInv == Qt!Init => QtInv
<1> SUFFICES ASSUME Qt!Init PROVE QtInv
  OBVIOUS
<1>1. MaxProcesses \in Nat /\ MaxTimers \in Nat /\ MaxChecks \in Nat
  BY LaunchersAssumption DEF Qt!BoundAssumption
<1>2. 0 \in 0..MaxTimers /\ 0 <= MaxChecks
  BY <1>1
<1>3. ~qtRunning /\ qtRunning \in BOOLEAN /\ ~bar /\ bar \in BOOLEAN
  BY DEF Qt!Init
<1>4. Qt!TypeOK
  BY <1>2, <1>3 DEF Qt!Init, Qt!TypeOK
<1> QED
  BY <1>3, <1>4
  DEF Qt!Init, QtInv, Qt!UnstoppableOnlyIfSlow, Qt!NoneOutlives, Qt!IdleLooksIdle

\* What a start leaves: a server that is up, or none, or one given up on.
LEMMA QtStarts ==
  ASSUME QtInv, ~qtRunning, Qt!InLoop, Qt!Starts \/ Qt!Refused,
         qtUi \in {"idle", "error", "confirm", "closing"}
  PROVE  /\ qtUi' \in {"idle", "error", "confirm", "closing"}
         /\ proc' \in {"none", "starting", "running", "exited"}
         /\ does' \in {"nothing", "demo", "usage"}
         /\ saved' \in BOOLEAN /\ dying' \in BOOLEAN /\ slow' \in BOOLEAN
         /\ qtWaiting' \in BOOLEAN /\ qtRunning' \in BOOLEAN
         /\ qtRunning' => proc' \in {"running", "exited"} /\ ~qtWaiting'
         /\ proc' = "starting" \/ (proc' = "running" /\ ~qtRunning') => slow'
<1> USE DEF QtInv, Qt!TypeOK, Qt!UnstoppableOnlyIfSlow, Qt!Up, Qt!NotUp, Qt!Boxed, Qt!Idle
<1>1. qtRunning' \in BOOLEAN /\ qtWaiting' \in BOOLEAN /\ (qtRunning' => ~qtWaiting')
  <2>1. Qt!Up => qtRunning' \in BOOLEAN /\ qtWaiting' \in BOOLEAN /\ ~qtWaiting'
    OBVIOUS
  <2>2. Qt!NotUp => qtRunning' \in BOOLEAN /\ qtWaiting' \in BOOLEAN /\ ~qtRunning'
    OBVIOUS
  <2>3. Qt!Up \/ Qt!NotUp
    BY DEF Qt!Starts, Qt!Refused
  <2> QED
    BY <2>1, <2>2, <2>3
<1>2. CASE Qt!Starts
  <2>1. dying' \in BOOLEAN /\ slow' \in BOOLEAN
    BY <1>2 DEF Qt!Starts
  <2>2. does' \in {"nothing", "demo", "usage"} /\ saved' \in BOOLEAN
    BY <1>2 DEF Qt!Starts, Qt!Does
  <2>3. /\ qtUi' \in {"idle", "error", "confirm", "closing"}
        /\ \/ proc' = "running" /\ qtRunning'
           \/ proc' = "none" /\ ~qtRunning'
           \/ proc' = "starting" /\ ~qtRunning' /\ slow'
    BY <1>2 DEF Qt!Starts
  <2> QED
    BY <1>1, <2>1, <2>2, <2>3
<1>3. CASE Qt!Refused
  <2>1. UNCHANGED <<does, dying, slow>> /\ saved' \in BOOLEAN
    BY <1>3 DEF Qt!Refused
  <2>2. /\ qtUi' \in {"idle", "error", "confirm", "closing"}
        /\ \/ proc' \in {"running", "exited"} /\ qtRunning'
           \/ proc' \in {"starting", "none"} /\ proc = "starting" /\ ~qtRunning'
    BY <1>3 DEF Qt!Refused
  <2> QED
    BY <1>1, <2>1, <2>2
<1> QED
  BY <1>2, <1>3

\* The slots that start a server.
LEMMA QtStartInv ==
  ASSUME QtInv, Qt!StartServer \/ Qt!TimerStarts
  PROVE  QtInv'
<1>1. MaxTimers \in Nat
  BY LaunchersAssumption DEF Qt!BoundAssumption
<1>2. /\ ~qtRunning /\ Qt!InLoop /\ (Qt!Starts \/ Qt!Refused)
      /\ UNCHANGED <<demo, checks, done, bar, launched, begun>>
      /\ qtUi \in {"idle", "error", "confirm", "closing"}
      /\ timers' \in 0..MaxTimers
  BY <1>1
  DEF Qt!StartServer, Qt!TimerStarts, Qt!Idle, Qt!InLoop, Qt!checkVars, QtInv, Qt!TypeOK
<1> QED
  BY <1>2, QtStarts
  DEF QtInv, Qt!TypeOK, Qt!UnstoppableOnlyIfSlow, Qt!NoneOutlives, Qt!IdleLooksIdle, Qt!InLoop

\* The slots that stop one, and what the event loop learns of it.
LEMMA QtStopInv ==
  ASSUME QtInv,
         \/ Qt!StopServer \/ Qt!Restart \/ Qt!TimerSkips
         \/ Qt!ComesUp \/ Qt!Exits \/ Qt!FailsLate \/ Qt!Finished
  PROVE  QtInv'
<1>1. MaxTimers \in Nat
  BY LaunchersAssumption DEF Qt!BoundAssumption
<1> USE DEF QtInv, Qt!TypeOK, Qt!UnstoppableOnlyIfSlow, Qt!NoneOutlives, Qt!IdleLooksIdle,
            Qt!InLoop, Qt!Idle, Qt!checkVars, Qt!procVars
<1>2. CASE Qt!StopServer
  BY <1>2 DEF Qt!StopServer, Qt!Stops, Qt!Ended, Qt!Killed
<1>3. CASE Qt!Restart
  <2>1. /\ qtWaiting' /\ qtWaiting' \in BOOLEAN /\ timers' \in 0..MaxTimers
        /\ UNCHANGED <<qtUi, does, qtStarts, slow, demo, saved, checks, done, bar,
                       launched, begun>>
    BY <1>1, <1>3 DEF Qt!Restart
  <2>2. /\ proc' \in {"none", proc} /\ dying' \in BOOLEAN /\ qtRunning' \in BOOLEAN
        /\ qtRunning' => qtRunning /\ proc' = proc /\ dying'
        /\ proc' = proc => qtRunning' = qtRunning
    BY <1>3 DEF Qt!Restart, Qt!Stops, Qt!Ended, Qt!Killed
  <2> QED
    BY <2>1, <2>2
<1>4. CASE Qt!TimerSkips
  BY <1>1, <1>4 DEF Qt!TimerSkips
<1>5. CASE Qt!ComesUp \/ Qt!Exits
  BY <1>5 DEF Qt!ComesUp, Qt!Exits, Qt!Process
<1>6. CASE Qt!FailsLate
  BY <1>6 DEF Qt!FailsLate, Qt!Process
<1>7. CASE Qt!Finished
  <2>1. ~qtRunning' /\ qtRunning' \in BOOLEAN
    BY <1>7 DEF Qt!Finished
  <2> QED
    BY <1>7, <2>1 DEF Qt!Finished, Qt!Process
<1> QED
  BY <1>2, <1>3, <1>4, <1>5, <1>6, <1>7

\* The check for updates, the settings, and the end of the window.
LEMMA QtWindowInv ==
  ASSUME QtInv,
         \/ Qt!CheckUpdate \/ Qt!StartUpdateCheck \/ Qt!CheckReturns \/ Qt!CheckFinished
         \/ Qt!Dismiss \/ Qt!SaveConfig \/ Qt!LoadConfig \/ \E d \in BOOLEAN : Qt!Tick(d)
         \/ Qt!Close \/ Qt!AnswerNo \/ Qt!AnswerYes \/ Qt!Destroy
  PROVE  QtInv'
<1>1. MaxTimers \in Nat /\ MaxChecks \in Nat
  BY LaunchersAssumption DEF Qt!BoundAssumption
<1> USE DEF QtInv, Qt!TypeOK, Qt!UnstoppableOnlyIfSlow, Qt!NoneOutlives, Qt!IdleLooksIdle,
            Qt!InLoop, Qt!Idle, Qt!checkVars, Qt!procVars
<1>2. CASE Qt!CheckUpdate \/ Qt!StartUpdateCheck
  <2>1. launched' \in BOOLEAN
    BY <1>2 DEF Qt!CheckUpdate, Qt!StartUpdateCheck
  <2>2. Qt!Checks \/ UNCHANGED <<checks, done, bar, begun>>
    BY <1>2 DEF Qt!CheckUpdate, Qt!StartUpdateCheck
  <2>3. UNCHANGED <<qtUi, qtRunning, proc, does, dying, qtStarts, slow, timers, demo, saved,
                    qtWaiting>>
    BY <1>2 DEF Qt!CheckUpdate, Qt!StartUpdateCheck, Qt!OnlyChecks
  <2>4. CASE Qt!Checks
    <3>1. bar' \in BOOLEAN
      BY <2>4 DEF Qt!Checks
    <3> QED
      BY <1>1, <2>1, <2>3, <2>4, <3>1 DEF Qt!Checks
  <2>5. CASE UNCHANGED <<checks, done, bar, begun>>
    BY <2>1, <2>3, <2>5
  <2> QED
    BY <2>2, <2>4, <2>5
<1>3. CASE Qt!CheckReturns
  BY <1>1, <1>3 DEF Qt!CheckReturns, Qt!OnlyChecks
<1>4. CASE Qt!CheckFinished
  <2>1. ~bar' /\ bar' \in BOOLEAN
    BY <1>4 DEF Qt!CheckFinished, Qt!HidesBar
  <2> QED
    BY <1>1, <1>4, <2>1 DEF Qt!CheckFinished, Qt!OnlyChecks
<1>5. CASE Qt!Dismiss \/ Qt!SaveConfig \/ Qt!LoadConfig \/ \E d \in BOOLEAN : Qt!Tick(d)
  BY <1>5 DEF Qt!Dismiss, Qt!SaveConfig, Qt!LoadConfig, Qt!Tick
<1>6. CASE Qt!Close \/ Qt!AnswerNo
  BY <1>6 DEF Qt!Close, Qt!AnswerNo, Qt!To
<1>7. CASE Qt!AnswerYes
  BY <1>7 DEF Qt!AnswerYes, Qt!To, Qt!Stops, Qt!Ended, Qt!Killed
<1>8. CASE Qt!Destroy
  BY <1>1, <1>8 DEF Qt!Destroy, Qt!EndsProcess
<1> QED
  BY <1>2, <1>3, <1>4, <1>5, <1>6, <1>7, <1>8

LEMMA QtStepInv == QtInv /\ [Qt!Next]_qtVars => QtInv'
<1>1. QtInv /\ UNCHANGED qtVars => QtInv'
  BY DEF qtVars, QtInv, Qt!TypeOK, Qt!UnstoppableOnlyIfSlow, Qt!NoneOutlives, Qt!IdleLooksIdle,
         Qt!InLoop
<1> QED
  BY <1>1, QtStartInv, QtStopInv, QtWindowInv DEF Qt!Next, Qt!LoopStep

\* A restart that finds the flag set, and nothing started since, follows a
\* kill.
StepKilled == Qt!TimerSkips => dying \/ ~qtWaiting

LEMMA QtSkips == QtInv => [StepKilled]_(Qt!vars)
BY DEF QtInv, StepKilled, Qt!TimerSkips

---------------------------------------------------------------------------
(* Entry point and setup wizard                                            *)

\* A number below m is its own remainder.
LEMMA SmallMod == ASSUME NEW m \in Nat, NEW n \in Nat, n < m PROVE n % m = n
OBVIOUS

\* The questions that come after the terms; those after the address.
Consented == {"ip", "ipAgain", "port", "players", "confirm", "serve", "running"}
Addressed == {"port", "players", "confirm", "serve", "running"}

\* What the wizard has put together so far can run, and what was written is
\* that; the questions after the terms are asked of one who has consented.
EntryInv ==
  /\ Entry!TypeOK
  /\ config \in [ip : Entry!Words, port : 1..LargestPort, players : 1..MostPlayers]
  /\ pc \in Consented \cup {"start", "ask", "check", "checkThenUsage", "usage", "terms", "end"}
  /\ pc \in Consented \/ file # Entry!Unset => entryTyped
  /\ pc \in Addressed => config.ip = Address
  /\ file \in {Entry!Unset, config}
  /\ pc \notin {"serve", "running", "end"} => file = Entry!Unset
  /\ pc = "running" => server = config

\* At first nothing is written and the configuration is the default one.
LEMMA EntryInitInv == Entry!Init => EntryInv
<1> SUFFICES ASSUME Entry!Init PROVE EntryInv
  OBVIOUS
<1>1. DefaultPort \in 1..LargestPort /\ DefaultPlayers \in 1..MostPlayers
  BY ConsoleAssumption DEF Entry!EntryAssumption
<1>2. config \in [ip : Entry!Words, port : 1..LargestPort, players : 1..MostPlayers]
  BY <1>1 DEF Entry!Init, Entry!Defaults, Entry!Words
<1> QED
  BY <1>2 DEF Entry!Init, EntryInv, Entry!TypeOK, Consented, Addressed

\* main(), the start and the end of the server.
LEMMA EntryMainInv ==
  ASSUME EntryInv,
         \/ \E option \in Entry!Options : Entry!Main(option)
         \/ Entry!Asks \/ Entry!Checked \/ Entry!Usage \/ Entry!InputEnds \/ Entry!Serve
         \/ Entry!ServerStops
  PROVE  EntryInv'
<1> USE DEF EntryInv, Entry!TypeOK, Consented, Addressed, Entry!To, Entry!Ends, Entry!Keeps
<1>1. CASE \E option \in Entry!Options : Entry!Main(option)
  BY <1>1 DEF Entry!Main
<1>2. CASE Entry!Asks \/ Entry!Checked \/ Entry!Usage
  BY <1>2 DEF Entry!Asks, Entry!Checked, Entry!Usage
<1>3. CASE Entry!InputEnds
  BY <1>3 DEF Entry!InputEnds
<1>4. CASE Entry!Serve
  BY <1>4 DEF Entry!Serve, Entry!Started
<1>5. CASE Entry!ServerStops
  BY <1>5 DEF Entry!ServerStops
<1> QED
  BY <1>1, <1>2, <1>3, <1>4, <1>5

\* The wizard's questions: an answer that is kept is one that can be used.
LEMMA EntrySetupInv ==
  ASSUME EntryInv, NEW line \in Entry!Words \cup Numbers,
         \/ Entry!Terms(line) \/ Entry!PromptIp(line) \/ Entry!PromptPort(line)
         \/ Entry!PromptPlayers(line) \/ Entry!Confirm(line)
  PROVE  EntryInv'
<1>0. Numbers \subseteq Int /\ LargestPort \in Nat /\ MostPlayers \in Nat
  BY ConsoleAssumption DEF Entry!EntryAssumption
<1> USE DEF EntryInv, Entry!TypeOK, Consented, Addressed, Entry!To, Entry!Ends, Entry!Keeps
<1>1. CASE Entry!Terms(line)
  BY <1>1 DEF Entry!Terms
<1>2. CASE Entry!PromptIp(line)
  BY <1>2 DEF Entry!PromptIp, Entry!Answer, Entry!Offers, Entry!ValidateIp, Entry!Words
<1>3. CASE Entry!PromptPort(line)
  <2>1. \A n \in 1..LargestPort : n % (LargestPort + 1) = n
    BY <1>0, SmallMod
  <2>2. Entry!Answer(line, config.port) \in Int \/ line = Other
    BY <1>0, <1>3 DEF Entry!PromptPort, Entry!Answer
  <2>3. /\ pc = "port" /\ pc' \in {"port", "players"}
        /\ UNCHANGED <<server, exit, entryEof, terms, file, entryTyped>>
        /\ \/ config' = config
           \/ \E n \in 1..LargestPort : config' = [config EXCEPT !.port = n]
    BY <1>0, <1>3, <2>1, <2>2 DEF Entry!PromptPort, Entry!PortInRange
  <2> QED
    BY <2>3
<1>4. CASE Entry!PromptPlayers(line)
  BY <1>0, <1>4 DEF Entry!PromptPlayers, Entry!Answer, Entry!PlayersInRange
<1>5. CASE Entry!Confirm(line)
  BY <1>5 DEF Entry!Confirm, Entry!Answer
<1> QED
  BY <1>1, <1>2, <1>3, <1>4, <1>5

LEMMA EntryStepInv == EntryInv /\ [Entry!Next]_entryVars => EntryInv'
<1>1. EntryInv /\ UNCHANGED entryVars => EntryInv'
  BY DEF entryVars, EntryInv, Entry!TypeOK
<1> QED
  BY <1>1, EntryMainInv, EntrySetupInv DEF Entry!Next, Entry!Setup

\* What runs was consented to, can run, and is what was written.
LEMMA EntryKept == EntryInv => EntryConsents
BY DEF EntryInv, EntryConsents, Entry!ConsentFirst, Entry!Startable, Entry!FileIsServer,
       Entry!ValidateIp, Consented, Addressed

---------------------------------------------------------------------------
(* Console                                                                 *)

\* What has been read of what was typed, and what became of it.
Line == Commands \cup {Lines!Blank}
ReadSoFar == Len(lineTyped) - Len(input)
Taken == handled \o Lines!Busy
Counted(n, s) == /\ Len(s) = Cardinality(Lines!Nonempty(n))
                 /\ \A i \in Lines!Nonempty(n) :
                      s[Cardinality(Lines!Nonempty(i))] = lineTyped[i]

\* The types, the lines as they were typed, and no line left behind.
LinesTyped ==
  /\ Lines!TypeOK
  /\ lineTyped \in Seq(Line) /\ input \in Seq(Line) /\ handled \in Seq(Line) /\ command \in Line
  /\ caught \in BOOLEAN /\ stopped \in BOOLEAN /\ late \in Nat
LinesInOrder ==
  /\ ReadSoFar \in Nat
  /\ input = SubSeq(lineTyped, ReadSoFar + 1, Len(lineTyped))
  /\ Counted(ReadSoFar, Taken)

\* While the flag is set no line is late; after it is cleared the thread
\* handles the line it waits for or has, and then sees the flag.
LinesLate ==
  /\ lineRunning /\ ~crashed => late = 0
  /\ ~lineRunning => late <= 1 /\ (lineThread \in {"reading", "handling"} => late = 0)

LinesInv == LinesTyped /\ LinesInOrder /\ LinesLate /\ (stopped => lineThread = "none")

\* The instance brings its own copy of Cardinality.
LEMMA LinesCardinality == \A S : Lines!Cardinality(S) = Cardinality(S)
BY DEF Lines!Cardinality, Cardinality

\* One line more counts for one if it is not empty.
LEMMA NonemptyGrows ==
  ASSUME NEW n \in Nat
  PROVE  /\ IsFiniteSet(Lines!Nonempty(n)) /\ Cardinality(Lines!Nonempty(n)) \in Nat
         /\ lineTyped[n + 1] = Lines!Blank => Lines!Nonempty(n + 1) = Lines!Nonempty(n)
         /\ lineTyped[n + 1] # Lines!Blank =>
              /\ Lines!Nonempty(n + 1) = Lines!Nonempty(n) \cup {n + 1}
              /\ Cardinality(Lines!Nonempty(n + 1)) = Cardinality(Lines!Nonempty(n)) + 1
<1>1. IsFiniteSet(1..n) /\ Lines!Nonempty(n) \subseteq 1..n
  BY FS_Interval DEF Lines!Nonempty
<1>2. IsFiniteSet(Lines!Nonempty(n)) /\ Cardinality(Lines!Nonempty(n)) \in Nat
  BY <1>1, FS_Subset, FS_CardinalityType
<1>3. 1..n + 1 = 1..n \cup {n + 1} /\ n + 1 \notin 1..n
  OBVIOUS
<1>4. lineTyped[n + 1] = Lines!Blank => Lines!Nonempty(n + 1) = Lines!Nonempty(n)
  BY <1>3 DEF Lines!Nonempty
<1>5. lineTyped[n + 1] # Lines!Blank => Lines!Nonempty(n + 1) = Lines!Nonempty(n) \cup {n + 1}
  BY <1>3 DEF Lines!Nonempty
<1>6. n + 1 \notin Lines!Nonempty(n)
  BY <1>1, <1>3
<1>7. Cardinality(Lines!Nonempty(n) \cup {n + 1}) = Cardinality(Lines!Nonempty(n)) + 1
  BY <1>2, <1>6, FS_AddElement
<1> QED
  BY <1>2, <1>4, <1>5, <1>7

\* The place of a line among those that are not empty.
LEMMA PlaceOfLine ==
  ASSUME NEW n \in Nat, NEW i \in Lines!Nonempty(n)
  PROVE  Cardinality(Lines!Nonempty(i)) \in 1..Cardinality(Lines!Nonempty(n))
<1>1. i \in 1..n /\ i \in Lines!Nonempty(i)
  BY DEF Lines!Nonempty
<1>2. Lines!Nonempty(i) \subseteq Lines!Nonempty(n)
  BY <1>1 DEF Lines!Nonempty
<1>3. /\ IsFiniteSet(Lines!Nonempty(n)) /\ IsFiniteSet(Lines!Nonempty(i))
      /\ Cardinality(Lines!Nonempty(i)) \in Nat /\ Cardinality(Lines!Nonempty(n)) \in Nat
  BY <1>1, NonemptyGrows
<1>4. Cardinality(Lines!Nonempty(i)) <= Cardinality(Lines!Nonempty(n))
  BY <1>2, <1>3, FS_Subset
<1>5. Cardinality(Lines!Nonempty(i)) # 0
  BY <1>1, <1>3, FS_EmptySet
<1> QED
  BY <1>3, <1>4, <1>5

\* A line that is taken comes behind those taken before.
LEMMA CountedGrows ==
  ASSUME NEW n \in Nat, NEW S, NEW s \in Seq(S), NEW x \in S, Counted(n, s),
         lineTyped[n + 1] = x, x # Lines!Blank
  PROVE  Counted(n + 1, Append(s, x))
<1>1. /\ Lines!Nonempty(n + 1) = Lines!Nonempty(n) \cup {n + 1}
      /\ Cardinality(Lines!Nonempty(n + 1)) = Cardinality(Lines!Nonempty(n)) + 1
  BY NonemptyGrows
<1>2. Len(Append(s, x)) = Cardinality(Lines!Nonempty(n + 1))
  BY <1>1 DEF Counted
<1>3. ASSUME NEW i \in Lines!Nonempty(n)
      PROVE  Append(s, x)[Cardinality(Lines!Nonempty(i))] = lineTyped[i]
  <2>1. Cardinality(Lines!Nonempty(i)) \in 1..Len(s)
    BY PlaceOfLine DEF Counted
  <2> QED
    BY <1>3, <2>1 DEF Counted
<1>4. Append(s, x)[Cardinality(Lines!Nonempty(n + 1))] = lineTyped[n + 1]
  <2>1. Cardinality(Lines!Nonempty(n + 1)) = Len(s) + 1
    BY <1>1 DEF Counted
  <2> QED
    BY <2>1
<1> QED
  BY <1>1, <1>2, <1>3, <1>4 DEF Counted

\* At first nothing has been typed.
LEMMA LinesInitInv == Lines!Init => LinesInv
<1> SUFFICES ASSUME Lines!Init PROVE LinesInv
  OBVIOUS
<1>1. MaxStarts \in Nat
  BY ConsoleAssumption DEF Lines!BoundAssumption
<1>2. LinesTyped
  <2>1. ~lineRunning /\ ~lineEof /\ ~crashed /\ stopped
    BY DEF Lines!Init
  <2>2. lineThread = "none" /\ lineOwner = "idle" /\ lineStarts = 0 /\ late = 0 /\ command = Lines!Blank
    BY DEF Lines!Init
  <2>3. lineTyped = <<>> /\ input = <<>> /\ handled = <<>>
    BY DEF Lines!Init
  <2>4. lineRunning \in BOOLEAN /\ crashed \in BOOLEAN /\ caught \in BOOLEAN /\ stopped \in BOOLEAN
    BY DEF Lines!Init
  <2>5. lineTyped \in Seq(Line) /\ input \in Seq(Line) /\ handled \in Seq(Line)
    BY <2>3
  <2>6. command \in Line
    BY <2>2 DEF Line
  <2>7. Lines!TypeOK
    BY <1>1, <2>2, <2>4 DEF Lines!TypeOK
  <2> QED
    BY <2>2, <2>4, <2>5, <2>6, <2>7 DEF LinesTyped
<1>3. ReadSoFar = 0 /\ Taken = <<>> /\ Len(lineTyped) = 0
  BY DEF Lines!Init, ReadSoFar, Taken, Lines!Busy
<1>4. Lines!Nonempty(0) = {} /\ Cardinality({}) = 0
  BY FS_EmptySet DEF Lines!Nonempty
<1>5. LinesInOrder
  BY <1>3, <1>4 DEF Lines!Init, LinesInOrder, Counted
<1> QED
  BY <1>2, <1>5 DEF Lines!Init, LinesInv, LinesLate

\* A line more at the end changes nothing of what was counted.
LEMMA CountedStays ==
  ASSUME NEW n \in Nat, NEW s, NEW c \in Line, lineTyped \in Seq(Line), n <= Len(lineTyped),
         lineTyped' = Append(lineTyped, c), Counted(n, s), s' = s
  PROVE  Counted(n, s)'
<1>1. \A i \in 1..n : lineTyped'[i] = lineTyped[i]
  OBVIOUS
<1>2. \A i \in 0..n : Lines!Nonempty(i)' = Lines!Nonempty(i)
  BY <1>1 DEF Lines!Nonempty
<1>3. Lines!Nonempty(n) \subseteq 1..n
  BY DEF Lines!Nonempty
<1>4. \A i \in 1..n : Cardinality(Lines!Nonempty(i))' = Cardinality(Lines!Nonempty(i))
  BY <1>2
<1> QED
  BY <1>1, <1>2, <1>3, <1>4 DEF Counted

\* A line is typed.
LEMMA LinesTypeOrder ==
  ASSUME LinesInv, NEW c \in Line, Lines!Type(c)
  PROVE  LinesInOrder'
<1>1. /\ lineTyped' = Append(lineTyped, c) /\ input' = Append(input, c)
      /\ handled' = handled /\ Lines!Busy' = Lines!Busy
  BY DEF Lines!Type, Lines!Busy
<1>2. lineTyped \in Seq(Line) /\ input \in Seq(Line) /\ ReadSoFar \in Nat
  BY DEF LinesInv, LinesTyped, LinesInOrder
<1>3. ReadSoFar' = ReadSoFar /\ ReadSoFar <= Len(lineTyped)
  BY <1>1, <1>2 DEF ReadSoFar
<1>4. input' = SubSeq(lineTyped', ReadSoFar + 1, Len(lineTyped'))
  <2>1. input = SubSeq(lineTyped, ReadSoFar + 1, Len(lineTyped))
    BY DEF LinesInv, LinesInOrder
  <2>2. PICK k \in Nat, r \in Nat : k = Len(lineTyped) /\ r = ReadSoFar /\ r <= k
    BY <1>2, <1>3
  <2>3. Len(input) = k - r /\ \A i \in 1..k - r : input[i] = lineTyped[i + r]
    BY <1>2, <2>1, <2>2 DEF ReadSoFar
  <2>4. lineTyped' \in Seq(Line) /\ Len(lineTyped') = k + 1 /\ lineTyped'[k + 1] = c
        /\ \A i \in 1..k : lineTyped'[i] = lineTyped[i]
    BY <1>1, <1>2, <2>2
  <2>5. input' \in Seq(Line) /\ Len(input') = k + 1 - r /\ input'[k + 1 - r] = c
        /\ \A i \in 1..k - r : input'[i] = input[i]
    BY <1>1, <1>2, <2>2, <2>3
  <2>6. /\ SubSeq(lineTyped', r + 1, k + 1) \in Seq(Line)
        /\ Len(SubSeq(lineTyped', r + 1, k + 1)) = k + 1 - r
        /\ \A i \in 1..k + 1 - r : SubSeq(lineTyped', r + 1, k + 1)[i] = lineTyped'[i + r]
    BY <2>2, <2>4
  <2>7. ASSUME NEW i \in 1..k + 1 - r PROVE input'[i] = SubSeq(lineTyped', r + 1, k + 1)[i]
    <3>1. SubSeq(lineTyped', r + 1, k + 1)[i] = lineTyped'[i + r]
      BY <2>6
    <3>2. CASE i = k + 1 - r
      BY <2>2, <2>4, <2>5, <3>1, <3>2
    <3>3. CASE i # k + 1 - r
      <4>1. i \in 1..k - r /\ i + r \in 1..k
        BY <2>2, <3>3
      <4> QED
        BY <2>3, <2>4, <2>5, <3>1, <4>1
    <3> QED
      BY <3>2, <3>3
  <2>8. input' = SubSeq(lineTyped', r + 1, k + 1)
    BY <2>5, <2>6, <2>7, SeqEqual
  <2> QED
    BY <2>2, <2>4, <2>8
<1>5. Counted(ReadSoFar, Taken)'
  BY <1>1, <1>2, <1>3, CountedStays DEF LinesInv, LinesInOrder, Taken
<1> QED
  BY <1>2, <1>3, <1>4, <1>5 DEF LinesInOrder

\* The first line waiting is the one after those read.
LEMMA NextLine ==
  ASSUME LinesTyped, LinesInOrder, input # <<>>
  PROVE  /\ Head(input) = lineTyped[ReadSoFar + 1] /\ Head(input) \in Line
         /\ Tail(input) \in Seq(Line)
         /\ Len(lineTyped) - Len(Tail(input)) = ReadSoFar + 1
         /\ Tail(input) = SubSeq(lineTyped, ReadSoFar + 2, Len(lineTyped))
<1> USE DEF LinesTyped, LinesInOrder
<1>1. Len(input) \in Nat /\ Len(lineTyped) \in Nat /\ Len(input) > 0
  OBVIOUS
<1>2. Len(Tail(input)) = Len(input) - 1 /\ Tail(input) \in Seq(Line) /\ Head(input) \in Line
  BY <1>1
<1>3. Head(input) = lineTyped[ReadSoFar + 1]
  BY <1>1 DEF ReadSoFar
<1>4. Tail(input) = SubSeq(lineTyped, ReadSoFar + 2, Len(lineTyped))
  BY <1>1, <1>2 DEF ReadSoFar
<1> QED
  BY <1>1, <1>2, <1>3, <1>4 DEF ReadSoFar

\* A line is read: an empty one is passed over, another is taken.
LEMMA LinesReadOrder ==
  ASSUME LinesInv, Lines!Reads
  PROVE  LinesInOrder'
<1>1. /\ input # <<>> /\ input' = Tail(input) /\ command' = Head(input)
      /\ lineTyped' = lineTyped /\ handled' = handled /\ lineThread = "reading"
      /\ lineThread' = IF Head(input) = Lines!Blank THEN "loop" ELSE "handling"
  BY DEF Lines!Reads, Lines!TakesLine, Lines!Moves
<1>2. LinesTyped /\ LinesInOrder
  BY DEF LinesInv
<1>3. PICK n \in Nat : n = ReadSoFar
  BY <1>2 DEF LinesInOrder
<1>4. ReadSoFar' = n + 1 /\ input' = SubSeq(lineTyped, n + 2, Len(lineTyped))
  BY <1>1, <1>2, <1>3, NextLine DEF ReadSoFar
<1>5. handled \in Seq(Line) /\ Head(input) \in Line /\ lineTyped[n + 1] = Head(input)
  BY <1>1, <1>2, <1>3, NextLine DEF LinesTyped
<1>6. Taken = handled /\ Counted(n, handled)
  BY <1>1, <1>2, <1>3, <1>5 DEF Taken, Lines!Busy, LinesInOrder
<1>7. Counted(n + 1, Taken')
  <2>1. CASE Head(input) = Lines!Blank
    <3>1. Taken' = handled
      BY <1>1, <1>5, <2>1 DEF Taken, Lines!Busy
    <3>2. Lines!Nonempty(n + 1) = Lines!Nonempty(n)
      BY <1>5, <2>1, NonemptyGrows
    <3> QED
      BY <1>6, <3>1, <3>2 DEF Counted
  <2>2. CASE Head(input) # Lines!Blank
    <3>1. Taken' = Append(handled, Head(input))
      BY <1>1, <1>5, <2>2 DEF Taken, Lines!Busy
    <3>2. Counted(n + 1, Append(handled, Head(input)))
      BY <1>5, <1>6, <2>2, CountedGrows
    <3> QED
      BY <3>1, <3>2
  <2> QED
    BY <2>1, <2>2
<1>8. \A i : Lines!Nonempty(i)' = Lines!Nonempty(i)
  BY <1>1 DEF Lines!Nonempty
<1>9. Counted(ReadSoFar, Taken)'
  BY <1>1, <1>4, <1>7, <1>8 DEF Counted
<1>10. ReadSoFar' \in Nat /\ ReadSoFar' + 1 = n + 2
  BY <1>4
<1> QED
  BY <1>1, <1>4, <1>9, <1>10 DEF LinesInOrder

\* The handler of a line ends, in whatever way.
LEMMA LinesHandledOrder ==
  ASSUME LinesInv, lineThread = "handling", lineThread' = "loop",
         handled' = Append(handled, command), UNCHANGED <<lineTyped, input>>
  PROVE  LinesInOrder'
<1>1. handled \in Seq(Line) /\ command \in Line
  BY DEF LinesInv, LinesTyped
<1>2. Taken' = Taken
  BY <1>1 DEF Taken, Lines!Busy
<1>3. ReadSoFar' = ReadSoFar
  BY DEF ReadSoFar
<1>4. \A i : Lines!Nonempty(i)' = Lines!Nonempty(i)
  BY DEF Lines!Nonempty
<1>5. Counted(ReadSoFar, Taken)'
  BY <1>2, <1>3, <1>4 DEF LinesInv, LinesInOrder, Counted
<1> QED
  BY <1>3, <1>5 DEF LinesInv, LinesInOrder

\* A step that neither reads nor handles.
LEMMA LinesSameOrder ==
  ASSUME LinesInv, UNCHANGED <<Lines!Busy, handled, lineTyped, input>>
  PROVE  LinesInOrder'
<1>1. Taken' = Taken /\ ReadSoFar' = ReadSoFar
  BY DEF Taken, ReadSoFar
<1>2. \A i : Lines!Nonempty(i)' = Lines!Nonempty(i)
  BY DEF Lines!Nonempty
<1>3. Counted(ReadSoFar, Taken)'
  BY <1>1, <1>2 DEF LinesInv, LinesInOrder, Counted
<1> QED
  BY <1>1, <1>3 DEF LinesInv, LinesInOrder

\* Every step keeps the types and what a flag that is cleared allows.
LEMMA LinesTypedStep ==
  ASSUME LinesInv, Lines!Next
  PROVE  LinesTyped' /\ LinesLate' /\ (stopped => lineThread = "none")'
<1>1. MaxLines \in Nat /\ MaxStarts \in Nat
  BY ConsoleAssumption DEF Lines!BoundAssumption
<1> USE DEF LinesInv, LinesTyped, LinesLate, Lines!TypeOK, Lines!Joinable, Lines!Alive,
            Lines!inputVars
<1>2. CASE Lines!Start
  <2>1. lineRunning' /\ lineRunning' \in BOOLEAN /\ ~stopped' /\ stopped' \in BOOLEAN
    BY <1>2 DEF Lines!Start
  <2>2. crashed' \in BOOLEAN
    BY <1>2 DEF Lines!Start
  <2>4. lineStarts' \in 0..MaxStarts /\ late' \in Nat
    BY <1>1, <1>2 DEF Lines!Start
  <2>3. /\ lineThread' \in {"none", "loop", "reading", "handling", "ended"}
        /\ lineOwner' = "idle"
        /\ ~crashed' => late' = 0
    BY <1>2 DEF Lines!Start
  <2> QED
    BY <1>2, <2>1, <2>2, <2>3, <2>4 DEF Lines!Start
<1>3. CASE Lines!StopStores
  <2>1. ~lineRunning' /\ lineRunning' \in BOOLEAN /\ late' = 0
    BY <1>3 DEF Lines!StopStores
  <2> QED
    BY <1>3, <2>1 DEF Lines!StopStores, Lines!Joins
<1>4. CASE Lines!StopJoins
  <2>1. stopped' /\ stopped' \in BOOLEAN /\ lineThread' = "none" /\ lineOwner' = "idle"
    BY <1>4 DEF Lines!StopJoins
  <2> QED
    BY <1>4, <2>1 DEF Lines!StopJoins
<1>5. CASE Lines!LoopTests \/ Lines!ReadsEnd
  BY <1>5 DEF Lines!LoopTests, Lines!ReadsEnd, Lines!Moves
<1>6. CASE Lines!Reads
  <2>1. command' \in Line /\ input' \in Seq(Line)
    BY <1>6, NextLine DEF Lines!Reads, Lines!TakesLine
  <2> QED
    BY <1>6, <2>1 DEF Lines!Reads, Lines!Moves
<1>7. CASE Lines!HandlerReturns \/ Lines!HandlerThrows
  <2>1. lineRunning' = lineRunning
    BY <1>7 DEF Lines!HandlerReturns, Lines!HandlerThrows
  <2>3. late' = IF lineRunning' THEN late ELSE late + 1
    BY <1>7 DEF Lines!HandlerReturns, Lines!HandlerThrows, Lines!Handled
  <2>4. handled' = Append(handled, command)
    BY <1>7 DEF Lines!HandlerReturns, Lines!HandlerThrows, Lines!Handled
  <2>5. handled' \in Seq(Line)
    BY <2>4
  <2>2. crashed' \in BOOLEAN /\ (~crashed' => ~crashed) /\ ~crashed
    BY <1>7 DEF Lines!HandlerReturns, Lines!HandlerThrows
  <2> QED
    BY <1>7, <2>1, <2>2, <2>3, <2>5
    DEF Lines!HandlerReturns, Lines!HandlerThrows, Lines!Moves
<1>8. CASE Lines!HandlerStops
  <2>1. ~lineRunning' /\ lineRunning' \in BOOLEAN
    BY <1>8 DEF Lines!HandlerStops
  <2>2. crashed' \in BOOLEAN
    BY <1>8 DEF Lines!HandlerStops
  <2>3. handled' \in Seq(Line) /\ late' = late /\ late = 0
    BY <1>8 DEF Lines!HandlerStops
  <2> QED
    BY <1>8, <2>1, <2>2, <2>3 DEF Lines!HandlerStops, Lines!Moves
<1>9. CASE Lines!InputEnds
  BY <1>9 DEF Lines!InputEnds
<1>10. ASSUME NEW c \in Line, Lines!Type(c) PROVE LinesTyped' /\ LinesLate' /\ (stopped => lineThread = "none")'
  BY <1>10 DEF Lines!Type
<1> QED
  BY <1>2, <1>3, <1>4, <1>5, <1>6, <1>7, <1>8, <1>9, <1>10
  DEF Lines!Next, Lines!ThreadStep, Line

\* Every step keeps the order.
LEMMA LinesOrderStep ==
  ASSUME LinesInv, Lines!Next
  PROVE  LinesInOrder'
<1>1. ASSUME NEW c \in Line, Lines!Type(c) PROVE LinesInOrder'
  BY <1>1, LinesTypeOrder
<1>2. CASE Lines!Reads
  BY <1>2, LinesReadOrder
<1>3. CASE Lines!HandlerReturns \/ Lines!HandlerThrows \/ Lines!HandlerStops
  <2>1. /\ lineThread = "handling" /\ lineThread' = "loop"
        /\ handled' = Append(handled, command) /\ UNCHANGED <<lineTyped, input>>
    BY <1>3
    DEF Lines!HandlerReturns, Lines!HandlerThrows, Lines!HandlerStops, Lines!Moves, Lines!Handled
  <2> QED
    BY <2>1, LinesHandledOrder
<1>4. CASE Lines!Start \/ Lines!StopStores \/ Lines!StopJoins \/ Lines!InputEnds
  <2>1. UNCHANGED <<handled, lineTyped, input, command>>
    BY <1>4 DEF Lines!Start, Lines!StopStores, Lines!StopJoins, Lines!InputEnds, Lines!inputVars
  <2>2. lineThread' = "handling" <=> lineThread = "handling"
    BY <1>4
    DEF Lines!Start, Lines!Joinable, Lines!StopStores, Lines!StopJoins, Lines!InputEnds
  <2>3. UNCHANGED Lines!Busy
    BY <2>1, <2>2 DEF Lines!Busy
  <2> QED
    BY <2>1, <2>3, LinesSameOrder
<1>5. CASE Lines!LoopTests \/ Lines!ReadsEnd
  <2>1. /\ UNCHANGED <<handled, lineTyped, input>>
        /\ lineThread # "handling" /\ lineThread' # "handling"
    BY <1>5 DEF Lines!LoopTests, Lines!ReadsEnd, Lines!Moves
  <2>2. UNCHANGED Lines!Busy
    BY <2>1 DEF Lines!Busy
  <2> QED
    BY <2>1, <2>2, LinesSameOrder
<1> QED
  BY <1>1, <1>2, <1>3, <1>4, <1>5 DEF Lines!Next, Lines!ThreadStep, Line

LEMMA LinesStepInv == LinesInv /\ [Lines!Next]_consoleVars => LinesInv'
<1> SUFFICES ASSUME LinesInv, [Lines!Next]_consoleVars PROVE LinesInv'
  OBVIOUS
<1>1. CASE Lines!Next
  BY <1>1, LinesTypedStep, LinesOrderStep DEF LinesInv
<1>2. CASE UNCHANGED consoleVars
  <2>1. UNCHANGED <<Lines!Busy, handled, lineTyped, input>>
    BY <1>2 DEF consoleVars, Lines!Busy
  <2>2. LinesInOrder'
    BY <2>1, LinesSameOrder
  <2> QED
    BY <1>2, <2>2 DEF LinesInv, LinesTyped, LinesLate, Lines!TypeOK, Lines!Joinable, consoleVars
<1> QED
  BY <1>1, <1>2

\* What the invariant says of the lines and of the flag.
LEMMA LinesHandled == LinesInv => Lines!TypeOK /\ Lines!HandledAsTyped /\ Lines!OneLate
<1> SUFFICES ASSUME LinesInv PROVE Lines!TypeOK /\ Lines!HandledAsTyped /\ Lines!OneLate
  OBVIOUS
<1>1. \A i \in Lines!Nonempty(ReadSoFar) : lineTyped[i] = Taken[Cardinality(Lines!Nonempty(i))]
  BY DEF LinesInv, LinesInOrder, Counted
<1>2. Lines!HandledAsTyped
  BY <1>1, LinesCardinality
  DEF Lines!HandledAsTyped, LinesInv, LinesInOrder, Counted, ReadSoFar, Taken
<1> QED
  BY <1>2 DEF LinesInv, LinesTyped, LinesLate, Lines!OneLate

\* No thread that handles, and a process that dies of what is named.
StepConsole ==
  /\ stopped => UNCHANGED handled
  /\ crashed' # crashed => ~stopped /\ (lineStarts' > lineStarts \/ ~caught)

LEMMA ConsoleStep == LinesInv /\ [Lines!Next]_consoleVars => [StepConsole]_(Lines!vars)
<1> SUFFICES ASSUME LinesInv, [Lines!Next]_consoleVars PROVE StepConsole
  OBVIOUS
<1>1. LinesTyped /\ Lines!TypeOK /\ (stopped => lineThread = "none")
  BY DEF LinesInv, LinesTyped
<1>2. CASE UNCHANGED consoleVars
  BY <1>2 DEF StepConsole, consoleVars
<1>3. CASE Lines!Start
  BY <1>1, <1>3 DEF StepConsole, Lines!Start, Lines!Joinable, Lines!TypeOK
<1>4. CASE Lines!HandlerReturns \/ Lines!HandlerThrows \/ Lines!HandlerStops
  <2>1. lineThread = "handling" /\ ~crashed
    BY <1>4 DEF Lines!HandlerReturns, Lines!HandlerThrows, Lines!HandlerStops, Lines!Alive
  <2>3. crashed' => ~caught
    BY <1>4, <2>1 DEF Lines!HandlerReturns, Lines!HandlerThrows, Lines!HandlerStops
  <2>2. crashed' \in BOOLEAN /\ crashed \in BOOLEAN
    BY <1>1, <1>4, LinesTypedStep DEF LinesTyped, Lines!TypeOK, Lines!Next, Lines!ThreadStep
  <2> QED
    BY <1>1, <2>1, <2>2, <2>3 DEF StepConsole
<1>5. CASE \/ Lines!StopStores \/ Lines!StopJoins \/ Lines!InputEnds
           \/ Lines!LoopTests \/ Lines!ReadsEnd \/ Lines!Reads \/ \E c \in Line : Lines!Type(c)
  BY <1>5
  DEF StepConsole, Lines!StopStores, Lines!StopJoins, Lines!InputEnds, Lines!LoopTests,
      Lines!ReadsEnd, Lines!Reads, Lines!Type
<1> QED
  BY <1>2, <1>3, <1>4, <1>5 DEF Lines!Next, Lines!ThreadStep, Line

---------------------------------------------------------------------------
(* UpdateChecker                                                           *)

\* The one request of a call is not made, queued, in flight or answered, and
\* a call that is not inside its client's life has a client without a worker.
One == <<"get">>
UpdateTyped ==
  /\ worker \in {"none", "test", "check", "block", "wait", "perform", "callback", "exited"}
  /\ owner \in {"idle", "stopping", "joining"}
  /\ phase \in {"idle", "started", "sleeping", "stopping", "returned"}
UpdateRequest ==
  /\ asked \in {<<>>, One} /\ queue \in {<<>>, One} /\ answered \in {<<>>, One}
  /\ asked = <<>> <=> phase \in {"idle", "started"}
  /\ queue # <<>> => asked # <<>> /\ answered = <<>> /\ worker \notin {"perform", "callback"}
  /\ answered # <<>> => asked # <<>> /\ worker \notin {"perform", "callback"}
  /\ worker \in {"perform", "callback"} => asked # <<>>
  /\ asked # <<>> => queue # <<>> \/ answered # <<>> \/ worker \in {"perform", "callback"}
UpdatePhase ==
  /\ phase \in {"idle", "started", "sleeping", "returned"} => owner = "idle"
  /\ phase \in {"idle", "returned"} => worker = "none"
  /\ phase = "stopping" /\ owner = "idle" => worker = "none"
UpdateTold ==
  /\ told \in {0, 1}
  /\ told = 1 => kind = "check" /\ answered # <<>> /\ response.statusCode = 200
UpdateInv == UpdateTyped /\ UpdateRequest /\ UpdatePhase /\ UpdateTold

\* A sequence of one request.
LEMMA OneRequest ==
  /\ Len(One) = 1 /\ One # <<>> /\ Tail(One) = <<>> /\ Head(One) = "get" /\ One[1] = "get"
  /\ Append(<<>>, "get") = One /\ Len(<<>>) = 0 /\ One \in Seq({"get"})
BY DEF One

\* At first nothing has been asked.
LEMMA UpdateInitInv == Update!InitCheck => UpdateInv
BY OneRequest
DEF Update!InitCheck, Update!Init, UpdateInv, UpdateTyped, UpdateRequest, UpdatePhase, UpdateTold

\* The caller: it starts a client, makes its request, sleeps, stops, returns.
LEMMA UpdateCallerInv ==
  ASSUME UpdateInv, Update!Begins \/ Update!Gets \/ Update!SleepEnds \/ Update!Returns
  PROVE  UpdateInv'
<1> USE DEF UpdateInv, UpdateTyped, UpdateRequest, UpdatePhase, UpdateTold, Update!requestVars,
            Update!workerVars
<1>1. CASE Update!Begins
  BY <1>1 DEF Update!Begins, Update!Start
<1>2. CASE Update!Gets
  <2>1. /\ queue' = Append(queue, "get") /\ asked' = Append(asked, "get")
        /\ worker' = Update!Notified /\ phase = "started" /\ phase' = "sleeping"
        /\ UNCHANGED <<owner, response, answered, kind, told>>
    BY <1>2 DEF Update!Gets, Update!Request
  <2>2. asked = <<>> /\ queue = <<>> /\ answered = <<>>
    BY <2>1
  <2>3. queue' = One /\ asked' = One
    BY <2>1, <2>2, OneRequest
  <2> QED
    BY <2>1, <2>2, <2>3, OneRequest DEF Update!Notified
<1>3. CASE Update!SleepEnds
  BY <1>3 DEF Update!SleepEnds, Update!StopStores
<1>4. CASE Update!Returns
  BY <1>4 DEF Update!Returns, Update!vars
<1> QED
  BY <1>1, <1>2, <1>3, <1>4

\* The client: the worker, and the end of the caller's Stop.
LEMMA UpdateClientInv ==
  ASSUME UpdateInv, Update!Client
  PROVE  UpdateInv'
<1>1. UNCHANGED <<kind, phase, told>>
  BY DEF Update!Client
<1> USE DEF UpdateInv, UpdateTyped, UpdateRequest, UpdatePhase, UpdateTold, Update!requestVars,
            Update!workerVars
<1>2. CASE Update!StopNotifies \/ Update!StopJoins
  BY <1>1, <1>2 DEF Update!StopNotifies, Update!StopJoins, Update!Notified
<1>3. CASE Update!WorkerTests \/ Update!WorkerBlocks \/ Update!SpuriousWakeup
  BY <1>1, <1>3 DEF Update!WorkerTests, Update!WorkerBlocks, Update!SpuriousWakeup
<1>4. CASE Update!WorkerChecks
  <2>1. /\ worker = "check" /\ UNCHANGED <<asked, owner, response, answered>>
    BY <1>4 DEF Update!WorkerChecks
  <2>2. \/ worker' \in {"exited", "block"} /\ queue' = queue
        \/ queue = One /\ worker' = "perform" /\ queue' = Tail(queue)
    BY <1>4 DEF Update!WorkerChecks, Update!Rest
  <2> QED
    BY <1>1, <2>1, <2>2, OneRequest
<1>5. CASE Update!PerformReturns
  BY <1>1, <1>5 DEF Update!PerformReturns
<1>6. CASE Update!PerformKills \/ Update!CallbackKills
  BY <1>1, <1>6 DEF Update!PerformKills, Update!CallbackKills, Update!Terminate
<1> QED
  BY <1>2, <1>3, <1>4, <1>5, <1>6 DEF Update!Client, Update!OwnerStep, Update!WorkerStep

\* The answer: of this request, and told only if it is a success.
LEMMA UpdateAnswerInv ==
  ASSUME UpdateInv, Update!Answers
  PROVE  UpdateInv'
<1>1. /\ worker = "callback" /\ worker' = "test" /\ answered' = Append(answered, Update!Current)
      /\ UNCHANGED <<queue, asked, owner, response, kind, phase>>
      /\ told' = told + (IF Update!Reports THEN 1 ELSE 0)
  BY DEF Update!Answers, Update!CallbackReturns, Update!requestVars
<1>2. asked = One /\ queue = <<>> /\ answered = <<>> /\ told = 0
  BY <1>1 DEF UpdateInv, UpdateRequest, UpdateTold
<1>3. Update!Taken = 1 /\ Update!Current = "get"
  BY <1>2, OneRequest DEF Update!Taken, Update!Current
<1>4. answered' = One
  BY <1>1, <1>2, <1>3, OneRequest
<1>5. told' \in {0, 1} /\ (told' = 1 => kind = "check" /\ response.statusCode = 200)
  BY <1>1, <1>2 DEF Update!Reports
<1> QED
  BY <1>1, <1>2, <1>4, <1>5, OneRequest
  DEF UpdateInv, UpdateTyped, UpdateRequest, UpdatePhase, UpdateTold

LEMMA UpdateStepInv == UpdateInv /\ [Update!NextCheck]_updateVars => UpdateInv'
<1>1. UpdateInv /\ UNCHANGED updateVars => UpdateInv'
  BY DEF updateVars, UpdateInv, UpdateTyped, UpdateRequest, UpdatePhase, UpdateTold
<1> QED
  BY <1>1, UpdateCallerInv, UpdateClientInv, UpdateAnswerInv DEF Update!NextCheck

\* What the invariant says of a call that has returned.
LEMMA UpdateClosed == UpdateInv => Update!AnsweredOrDropped /\ Update!ToldTheTruth
<1> SUFFICES ASSUME UpdateInv PROVE Update!AnsweredOrDropped /\ Update!ToldTheTruth
  OBVIOUS
<1> USE DEF UpdateInv, UpdateRequest, UpdatePhase, UpdateTold
<1>1. ASSUME phase = "returned" PROVE (answered # <<>>) # (queue # <<>>)
  <2>1. asked # <<>> /\ worker = "none"
    BY <1>1
  <2>2. answered # <<>> \/ queue # <<>>
    BY <2>1
  <2>3. ~(answered # <<>> /\ queue # <<>>)
    OBVIOUS
  <2> QED
    BY <2>2, <2>3, Zenon
<1>2. ASSUME told > 0 PROVE kind = "check" /\ Len(answered) = told /\ response.statusCode = 200
  <2>1. told = 1
    BY <1>2
  <2>2. answered = One
    BY <2>1
  <2> QED
    BY <2>1, <2>2, OneRequest
<1> QED
  BY <1>1, <1>2, Zenon DEF Update!AnsweredOrDropped, Update!ToldTheTruth

\* A call that has returned is not heard of again.
StepReturned == phase = "returned" => UNCHANGED <<told, answered, worker>>

LEMMA ReturnedStep == UpdateInv /\ [Update!NextCheck]_updateVars => [StepReturned]_(Update!checkVars)
<1> SUFFICES ASSUME UpdateInv, [Update!NextCheck]_updateVars, phase = "returned"
             PROVE  UNCHANGED <<told, answered, worker>>
  BY DEF StepReturned
<1>1. worker = "none" /\ owner = "idle"
  BY DEF UpdateInv, UpdatePhase
<1>2. ~Update!NextCheck
  BY <1>1
  DEF Update!NextCheck, Update!Begins, Update!Gets, Update!SleepEnds, Update!Returns,
      Update!Answers, Update!CallbackReturns, Update!Client, Update!OwnerStep,
      Update!StopNotifies, Update!StopJoins, Update!WorkerStep, Update!WorkerTests,
      Update!WorkerChecks, Update!WorkerBlocks, Update!SpuriousWakeup, Update!PerformReturns,
      Update!PerformKills, Update!CallbackKills
<1> QED
  BY <1>2 DEF updateVars

---------------------------------------------------------------------------
(* Releases                                                                *)

\* Versions are of the published ones.
ReleaseInv == latest \in Version /\ installed \in Version /\ assets \in Assets

\* A part that is not there counts as 0, and is a number in any case.
LEMMA PartIsNumber ==
  ASSUME NEW v \in Version
  PROVE  /\ Len(v.parts) \in Nat /\ DOMAIN v.parts = 1..Len(v.parts)
         /\ \A i \in Nat : Compare!CppPart(v, i) \in Nat
         /\ \A i \in Nat : i \notin DOMAIN v.parts => Compare!CppPart(v, i) = 0
<1>1. v.parts \in Seq([digits : Nat, rest : BOOLEAN])
  BY UpdatesAssumption DEF Compare!VersionAssumption
<1>2. Len(v.parts) \in Nat /\ DOMAIN v.parts = 1..Len(v.parts)
  BY <1>1
<1>3. \A i \in DOMAIN v.parts : v.parts[i].digits \in Nat
  <2>1. \A i \in DOMAIN v.parts : v.parts[i] \in [digits : Nat, rest : BOOLEAN]
    BY <1>1, <1>2, ElementOfSeq
  <2> QED
    BY <2>1
<1> QED
  BY <1>2, <1>3 DEF Compare!CppPart

\* Newer: greater in the first part in which the two differ, where the
\* shorter is padded with 0 for ever.
GreaterAt(v, w, i) == /\ Compare!CppPart(v, i) > Compare!CppPart(w, i)
                      /\ \A j \in 1..(i - 1) : Compare!CppPart(v, j) = Compare!CppPart(w, j)

LEMMA NewerMeans ==
  ASSUME NEW v \in Version, NEW w \in Version
  PROVE  Compare!CppNewer(v, w) <=> \E i \in Nat \ {0} : GreaterAt(v, w, i)
<1>1. /\ Len(v.parts) \in Nat /\ Len(w.parts) \in Nat
      /\ Compare!Longer(v, w) = 1..Len(v.parts) \cup 1..Len(w.parts)
  BY PartIsNumber DEF Compare!Longer
<1>2. Compare!Longer(v, w) \subseteq Nat \ {0}
      /\ \A i \in Compare!Longer(v, w) : 1..(i - 1) \subseteq Compare!Longer(v, w)
  BY <1>1
<1>3. Compare!CppNewer(v, w) <=> \E i \in Compare!Longer(v, w) : GreaterAt(v, w, i)
  BY <1>2 DEF Compare!CppNewer, Compare!FirstGreater, GreaterAt
<1>4. \A i \in Nat \ {0} : GreaterAt(v, w, i) => i \in Compare!Longer(v, w)
  <2> SUFFICES ASSUME NEW i \in Nat \ {0}, GreaterAt(v, w, i) PROVE i \in Compare!Longer(v, w)
    OBVIOUS
  <2>1. Compare!CppPart(v, i) # 0
    BY PartIsNumber DEF GreaterAt
  <2> QED
    BY <2>1, PartIsNumber DEF Compare!Longer
<1> QED
  BY <1>2, <1>3, <1>4

\* Newer is a strict order on all versions.
LEMMA NewerIrreflexive == ASSUME NEW v \in Version PROVE ~Compare!CppNewer(v, v)
<1>1. \A i \in Nat : Compare!CppPart(v, i) \in Nat
  BY PartIsNumber
<1> QED
  BY <1>1, NewerMeans DEF GreaterAt

LEMMA NewerTransitive ==
  ASSUME NEW v \in Version, NEW u \in Version, NEW w \in Version,
         Compare!CppNewer(v, u), Compare!CppNewer(u, w)
  PROVE  Compare!CppNewer(v, w)
<1>1. PICK i \in Nat \ {0} : GreaterAt(v, u, i)
  BY NewerMeans
<1>2. PICK k \in Nat \ {0} : GreaterAt(u, w, k)
  BY NewerMeans
<1>3. \A j \in Nat : /\ Compare!CppPart(v, j) \in Nat /\ Compare!CppPart(u, j) \in Nat
                     /\ Compare!CppPart(w, j) \in Nat
  BY PartIsNumber
<1>4. PICK l \in Nat \ {0} : l = (IF i < k THEN i ELSE k)
  OBVIOUS
<1>5. l \in Nat /\ l <= i /\ l <= k /\ 1..(l - 1) \subseteq 1..(i - 1) /\ 1..(l - 1) \subseteq 1..(k - 1)
      /\ (l < i => l \in 1..(i - 1)) /\ (l < k => l \in 1..(k - 1)) /\ (l = i \/ l = k)
  BY <1>4
<1>6. \A j \in 1..(l - 1) : Compare!CppPart(v, j) = Compare!CppPart(w, j)
  BY <1>1, <1>2, <1>5 DEF GreaterAt
<1>7. Compare!CppPart(v, l) >= Compare!CppPart(u, l) /\ Compare!CppPart(u, l) >= Compare!CppPart(w, l)
      /\ (Compare!CppPart(v, l) > Compare!CppPart(u, l) \/ Compare!CppPart(u, l) > Compare!CppPart(w, l))
  <2>1. l < i => Compare!CppPart(v, l) = Compare!CppPart(u, l)
    BY <1>1, <1>5 DEF GreaterAt
  <2>2. l < k => Compare!CppPart(u, l) = Compare!CppPart(w, l)
    BY <1>2, <1>5 DEF GreaterAt
  <2>3. Compare!CppPart(v, i) > Compare!CppPart(u, i) /\ Compare!CppPart(u, k) > Compare!CppPart(w, k)
    BY <1>1, <1>2 DEF GreaterAt
  <2>4. (l = i \/ l < i) /\ (l = k \/ l < k)
    BY <1>5
  <2> QED
    BY <1>3, <1>5, <2>1, <2>2, <2>3, <2>4
<1>8. GreaterAt(v, w, l)
  BY <1>3, <1>5, <1>6, <1>7 DEF GreaterAt
<1> QED
  BY <1>8, NewerMeans

LEMMA NewerAsymmetric ==
  ASSUME NEW v \in Version, NEW w \in Version
  PROVE  ~(Compare!CppNewer(v, w) /\ Compare!CppNewer(w, v))
BY NewerTransitive, NewerIrreflexive

\* On versions of plain numbers the two programs read the same parts.
LEMMA PlainAgree ==
  ASSUME Compare!Plain(latest), Compare!Plain(installed)
  PROVE  Compare!CppNewer(latest, installed) <=> Compare!RustNewer(latest, installed)
<1>1. \A i : /\ Compare!CppPart(latest, i) = Compare!RustPart(latest, i)
             /\ Compare!CppPart(installed, i) = Compare!RustPart(installed, i)
  BY DEF Compare!Plain, Compare!CppPart, Compare!RustPart
<1> QED
  BY <1>1 DEF Compare!CppNewer, Compare!RustNewer

\* Without a suffix in the middle of a name, or the system in the tag, the two
\* look for the same.
LEMMA SuffixAgree == ReleaseInv => Compare!SameAsset
<1> SUFFICES ASSUME ReleaseInv,
                    \A i \in DOMAIN assets : assets[i].archive # "inside" /\ assets[i].linux # "tag"
             PROVE  Compare!CppPick(assets) = Compare!RustPick(assets)
  BY DEF Compare!SameAsset
<1>1. \A i \in DOMAIN assets : assets[i].archive \in {"end", "none"}
                               /\ assets[i].linux \in {"name", "no"}
  <2> DEFINE Asset == [linux : {"name", "tag", "no"}, archive : {"end", "inside", "none"}]
  <2>1. assets \in Seq(Asset)
    BY UpdatesAssumption DEF ReleaseInv, Compare!VersionAssumption
  <2> SUFFICES ASSUME NEW i \in DOMAIN assets,
                      assets[i].archive # "inside" /\ assets[i].linux # "tag"
               PROVE  assets[i].archive \in {"end", "none"} /\ assets[i].linux \in {"name", "no"}
    OBVIOUS
  <2> HIDE DEF Asset
  <2>2. assets[i] \in Asset
    BY <2>1, ElementOfSeq, LenProperties
  <2> QED
    BY <2>2 DEF Asset
<1>2. {i \in DOMAIN assets : assets[i].linux # "no" /\ assets[i].archive # "none"}
        = {i \in DOMAIN assets : assets[i].linux = "name" /\ assets[i].archive = "end"}
  BY <1>1
<1> QED
  BY <1>2 DEF Compare!CppPick, Compare!RustPick

LEMMA ReleaseInitInv == Compare!Init => ReleaseInv
BY DEF Compare!Init, ReleaseInv

LEMMA ReleaseStepInv == ReleaseInv /\ [Compare!Next]_releaseVars => ReleaseInv'
BY DEF ReleaseInv, releaseVars, Compare!Next, Compare!Publish, Compare!UpdateOnCpp,
       Compare!UpdateOnRust

\* What the invariant says of the two comparisons.
LEMMA ReleasesOrdered ==
  ReleaseInv => Compare!StrictOrder /\ Compare!LaunchersAgree /\ Compare!SameAsset
<1> SUFFICES ASSUME ReleaseInv PROVE Compare!StrictOrder /\ Compare!LaunchersAgree /\ Compare!SameAsset
  OBVIOUS
<1>1. latest \in Version /\ installed \in Version
  BY DEF ReleaseInv
<1>2. Compare!StrictOrder
  BY <1>1, NewerIrreflexive, NewerAsymmetric, NewerTransitive DEF Compare!StrictOrder
<1>3. Compare!LaunchersAgree
  BY PlainAgree DEF Compare!LaunchersAgree
<1> QED
  BY <1>2, <1>3, SuffixAgree

\* An update is to a version that the one in use is not newer than.
StepForward == Compare!Plain(installed) /\ Compare!Plain(latest) =>
                 ~Compare!CppNewer(installed, installed')

LEMMA ForwardStep == ReleaseInv /\ [Compare!Next]_releaseVars => [StepForward]_(Compare!vars)
<1> SUFFICES ASSUME ReleaseInv, [Compare!Next]_releaseVars,
                    Compare!Plain(installed), Compare!Plain(latest)
             PROVE  ~Compare!CppNewer(installed, installed')
  BY DEF StepForward
<1>1. latest \in Version /\ installed \in Version
  BY DEF ReleaseInv
<1>2. installed' = installed \/ (installed' = latest /\ Compare!CppNewer(latest, installed))
  BY PlainAgree
  DEF releaseVars, Compare!Next, Compare!Publish, Compare!UpdateOnCpp, Compare!UpdateOnRust
<1> QED
  BY <1>1, <1>2, NewerIrreflexive, NewerAsymmetric

---------------------------------------------------------------------------
(* The parts together                                                      *)

PartsInv == ImGuiInv /\ QtInv /\ EntryInv /\ LinesInv /\ UpdateInv /\ ReleaseInv

\* Each part's invariant holds at first.
LEMMA PartsInit == Init => PartsInv
BY ImGuiInitInv, QtInitInv, EntryInitInv, LinesInitInv, UpdateInitInv, ReleaseInitInv
DEF Init, PartsInv

\* A step is one of the part that runs and leaves the others as they are.
LEMMA PartsNext ==
  [Next]_vars => /\ [ImGui!Next]_imVars /\ [Qt!Next]_qtVars /\ [Entry!Next]_entryVars
                 /\ [Lines!Next]_consoleVars /\ [Update!NextCheck]_updateVars
                 /\ [Compare!Next]_releaseVars
<1> SUFFICES ASSUME [Next]_vars
             PROVE  /\ [ImGui!Next]_imVars /\ [Qt!Next]_qtVars /\ [Entry!Next]_entryVars
                    /\ [Lines!Next]_consoleVars /\ [Update!NextCheck]_updateVars
                    /\ [Compare!Next]_releaseVars
  OBVIOUS
<1>1. CASE UNCHANGED vars
  BY <1>1, Zenon DEF vars
<1>2. CASE Next
  BY <1>2, Zenon DEF Next
<1> QED
  BY <1>1, <1>2

\* The invariants together.
LEMMA Invariance == Spec => []PartsInv
<1>1. PartsInv /\ [Next]_vars => PartsInv'
  BY PartsNext, ImGuiStepInv, QtStepInv, EntryStepInv, LinesStepInv, UpdateStepInv,
     ReleaseStepInv
  DEF PartsInv
<1> QED
  BY PartsInit, <1>1, PTL DEF Spec

(* However many servers are started and stopped and checks made in the     *)
(* ImGui launcher: the panel reads the answer of a check only while no     *)
(* detached thread writes it, and races with the thread for the progress   *)
(* alone; a thread that was stopped prints only the lines it was bound to. *)
THEOREM ImGuiThreadsKept == Spec => []ImGuiThreads
<1>1. PartsInv => ImGuiThreads
  BY ImGuiKept DEF PartsInv
<1> QED
  BY <1>1, Invariance, PTL

(* However many servers the Qt launcher starts and whatever they do: none  *)
(* outlives it, only one that was slow to come up escapes Stop, a pending  *)
(* restart that starts nothing follows a kill, and the bar shows only      *)
(* checks that go on.                                                      *)
THEOREM QtProcessKept == Spec => QtProcess
<1>1. PartsInv =>
        Qt!TypeOK /\ Qt!UnstoppableOnlyIfSlow /\ Qt!NoneOutlives /\ Qt!IdleLooksIdle
  BY DEF PartsInv, QtInv
<1>2. Spec =>
        [](Qt!TypeOK /\ Qt!UnstoppableOnlyIfSlow /\ Qt!NoneOutlives /\ Qt!IdleLooksIdle)
  BY <1>1, Invariance, PTL
<1>3. PartsInv => [StepKilled]_(Qt!vars)
  BY QtSkips DEF PartsInv
<1>4. Spec => [][StepKilled]_(Qt!vars)
  BY <1>3, Invariance, PTL
<1> QED
  BY <1>2, <1>4 DEF QtProcess, Qt!LostOnlyAfterKill, StepKilled

(* For every range asked for and whatever is typed: nothing is written or  *)
(* started without a typed consent, and the server that is started has a   *)
(* configuration that can run and is the one that was written.             *)
THEOREM ConsentIsTyped == Spec => []EntryConsents
<1>1. PartsInv => EntryConsents
  BY EntryKept DEF PartsInv
<1> QED
  BY <1>1, Invariance, PTL

(* For any lines, stops and starts: what is handled is what was typed, in  *)
(* order and once, at most one line after the flag is cleared and none     *)
(* after Stop has returned, and the process dies only of a second Start or *)
(* of an exception that nobody catches.                                    *)
THEOREM LinesAreHandled == Spec => ConsoleHandles
<1>1. PartsInv => Lines!TypeOK /\ Lines!HandledAsTyped /\ Lines!OneLate
  BY LinesHandled DEF PartsInv
<1>2. Spec => [](Lines!TypeOK /\ Lines!HandledAsTyped /\ Lines!OneLate)
  BY <1>1, Invariance, PTL
<1>3. PartsInv /\ [Next]_vars => [StepConsole]_(Lines!vars)
  BY PartsNext, ConsoleStep DEF PartsInv
<1>4. [StepConsole]_(Lines!vars) =>
        /\ [stopped => UNCHANGED handled]_(Lines!vars)
        /\ [crashed' # crashed => ~stopped /\ (lineStarts' > lineStarts \/ ~caught)]_(Lines!vars)
  BY DEF StepConsole
<1>5. Spec => /\ [][stopped => UNCHANGED handled]_(Lines!vars)
              /\ [][crashed' # crashed =>
                       ~stopped /\ (lineStarts' > lineStarts \/ ~caught)]_(Lines!vars)
  BY <1>3, <1>4, Invariance, PTL DEF Spec
<1> QED
  BY <1>2, <1>5 DEF ConsoleHandles, Lines!QuietWhenStopped, Lines!DiesOnlyIf

(* Whatever is answered and however the sleep and the request interleave:  *)
(* a call of the update checker that has returned is not heard of again,   *)
(* has been answered or has dropped its request, and tells only a success. *)
THEOREM CheckIsOver == Spec => CheckIsClosed
<1>1. PartsInv => Update!AnsweredOrDropped /\ Update!ToldTheTruth
  BY UpdateClosed DEF PartsInv
<1>2. Spec => [](Update!AnsweredOrDropped /\ Update!ToldTheTruth)
  BY <1>1, Invariance, PTL
<1>3. PartsInv /\ [Next]_vars => [StepReturned]_(Update!checkVars)
  BY PartsNext, ReturnedStep DEF PartsInv
<1>4. Spec => [][StepReturned]_(Update!checkVars)
  BY <1>3, Invariance, PTL DEF Spec
<1> QED
  BY <1>2, <1>4 DEF CheckIsClosed, Update!NothingAfterReturn, StepReturned

(* For all versions, of any number of parts: newer is a strict order, the  *)
(* two programs agree on versions of plain numbers, so that an operator    *)
(* who follows both never goes back, and they choose the same asset unless *)
(* a name has the archive's suffix in its middle.                          *)
THEOREM NewerIsOrder == Spec => NewerIsNewer
<1>1. PartsInv => Compare!StrictOrder /\ Compare!LaunchersAgree /\ Compare!SameAsset
  BY ReleasesOrdered DEF PartsInv
<1>2. Spec => [](Compare!StrictOrder /\ Compare!LaunchersAgree /\ Compare!SameAsset)
  BY <1>1, Invariance, PTL
<1>3. PartsInv /\ [Next]_vars => [StepForward]_(Compare!vars)
  BY PartsNext, ForwardStep DEF PartsInv
<1>4. Spec => [][StepForward]_(Compare!vars)
  BY <1>3, Invariance, PTL DEF Spec
<1> QED
  BY <1>2, <1>4 DEF NewerIsNewer, Compare!NeverBack, StepForward
=============================================================================
