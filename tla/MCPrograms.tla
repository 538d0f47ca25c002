----------------------------- MODULE MCPrograms -----------------------------
(***************************************************************************)
(* What the operator faces, one at a time since nothing is shared: the two *)
(* launchers with windows, the entry point with its wizard, the console,   *)
(* one call of the update checker, and the two comparisons of releases.    *)
(*                                                                         *)
(* TLC is given, for ImGuiLauncher, two heartbeats instead of five and two *)
(* servers started, so that one is restarted while it prints; for          *)
(* QtLauncher three processes, two pending restarts and two checks; for    *)
(* EntryPoint numbers at and beyond both ends of the ranges asked for; for *)
(* Console three lines over two Starts; for UpdateCheck its one request,   *)
(* to a URL that may lack a scheme; for Releases versions of up to two     *)
(* parts, and lists of assets in which one may be preferred to an earlier  *)
(* one.                                                                    *)
(***************************************************************************)
EXTENDS Integers, Sequences

CONSTANTS
  Beats, MaxServers, Configs,                              \* ImGuiLauncher
  MaxProcesses, MaxTimers, MaxChecks,                      \* QtLauncher
  Empty, Yes, Address, Other, Numbers,                     \* EntryPoint
  DefaultPort, DefaultPlayers, LargestPort, MostPlayers,
  Commands, MaxLines, MaxStarts,                           \* Console
  Status, Url,                                             \* UpdateCheck
  Version, Assets                                          \* Releases

VARIABLES
  part,
  imUi, imRunning, checking, available, updater, servers, beats, owed, imStarts, imConfig, imFile,
  qtUi, qtRunning, proc, does, dying, timers, demo, saved, checks, done, bar, launched, qtStarts,
  begun, slow, qtWaiting,
  pc, exit, entryEof, config, terms, server, file, entryTyped,
  lineRunning, lineThread, lineOwner, input, lineEof, command, caught, lineTyped, handled, late,
  stopped, lineStarts, crashed,
  running, queue, worker, owner, url, response, dead, starts, asked, answered, kind, phase, told,
  latest, assets, installed

imVars == <<imUi, imRunning, checking, available, updater, servers, beats, owed, imStarts,
            imConfig, imFile>>
qtVars == <<qtUi, qtRunning, proc, does, dying, timers, demo, saved, checks, done, bar, launched,
            qtStarts, begun, slow, qtWaiting>>
entryVars == <<pc, exit, entryEof, config, terms, server, file, entryTyped>>
consoleVars == <<lineRunning, lineThread, lineOwner, input, lineEof, command, caught, lineTyped,
                 handled, late, stopped, lineStarts, crashed>>
updateVars == <<running, queue, worker, owner, url, response, dead, starts, asked, answered,
                kind, phase, told>>
releaseVars == <<latest, assets, installed>>
vars == <<part, imVars, qtVars, entryVars, consoleVars, updateVars, releaseVars>>

ImGui == INSTANCE ImGuiLauncher WITH
  ui <- imUi, running <- imRunning, starts <- imStarts, config <- imConfig, file <- imFile,
  MaxStarts <- MaxServers
Qt == INSTANCE QtLauncher WITH
  ui <- qtUi, running <- qtRunning, starts <- qtStarts, waiting <- qtWaiting,
  MaxStarts <- MaxProcesses
Entry == INSTANCE EntryPoint WITH
  eof <- entryEof, typed <- entryTyped
Lines == INSTANCE Console WITH
  running <- lineRunning, thread <- lineThread, owner <- lineOwner, eof <- lineEof,
  typed <- lineTyped, starts <- lineStarts
Update == INSTANCE UpdateCheck WITH
  Call <- {"get"}, MaxStarts <- 1
Compare == INSTANCE Releases

ASSUME LaunchersAssumption == ImGui!BeatsAssumption /\ Qt!BoundAssumption
ASSUME ConsoleAssumption == Entry!EntryAssumption /\ Lines!BoundAssumption
ASSUME UpdatesAssumption == Update!StatusAssumption /\ Compare!VersionAssumption

\* What TLC is given to parse and to compare.
MCNumbers == {-1, 0, 1, 3, 4, 15, 16}
MCUrl == {[scheme |-> TRUE, port |-> "none"], [scheme |-> FALSE, port |-> "none"]}
Piece == [digits : 0..1, rest : BOOLEAN]
MCVersion == [vs : 0..2, parts : {<<p>> : p \in Piece} \cup
               {<<[digits |-> d, rest |-> FALSE], p>> : d \in 0..1, p \in Piece}]
Linux(where) == [linux |-> "name", archive |-> where]
Windows(where) == [linux |-> "no", archive |-> where]
Tagged(where) == [linux |-> "tag", archive |-> where]
MCAssets == {<<>>, <<Windows("none"), Linux("end"), Linux("end")>>,
             <<Tagged("inside"), Linux("end")>>, <<Tagged("end"), Linux("end")>>}

\* A part the behaviour is not about needs one initial state only.
OneRelease == /\ latest = (CHOOSE v \in Version : TRUE) /\ installed = latest
              /\ assets = CHOOSE a \in Assets : TRUE
Init ==
  /\ part \in {"imgui", "qt", "entry", "console", "update", "releases"}
  /\ ImGui!Init /\ (part = "imgui" \/ imFile = "none")
  /\ Qt!Init /\ (part = "qt" \/ saved)
  /\ Entry!Init /\ (part = "entry" \/ entryEof)
  /\ Lines!Init /\ (part = "console" \/ caught)
  /\ Update!InitCheck /\ (part = "update" \/ (kind = "check" /\ url["get"] = CHOOSE u \in Url : TRUE))
  /\ Compare!Init /\ (part = "releases" \/ OneRelease)

Next ==
  /\ UNCHANGED part
  /\ \/ /\ part = "imgui" /\ ImGui!Next
        /\ UNCHANGED <<qtVars, entryVars, consoleVars, updateVars, releaseVars>>
     \/ /\ part = "qt" /\ Qt!Next
        /\ UNCHANGED <<imVars, entryVars, consoleVars, updateVars, releaseVars>>
     \/ /\ part = "entry" /\ Entry!Next
        /\ UNCHANGED <<imVars, qtVars, consoleVars, updateVars, releaseVars>>
     \/ /\ part = "console" /\ Lines!Next
        /\ UNCHANGED <<imVars, qtVars, entryVars, updateVars, releaseVars>>
     \/ /\ part = "update" /\ Update!NextCheck
        /\ UNCHANGED <<imVars, qtVars, entryVars, consoleVars, releaseVars>>
     \/ /\ part = "releases" /\ Compare!Next
        /\ UNCHANGED <<imVars, qtVars, entryVars, consoleVars, updateVars>>

\* The fairness of each component, for the one that runs.
Fairness ==
  /\ WF_imVars(part = "imgui" /\ ImGui!UpdateStep)
  /\ \A t \in ImGui!Thread : WF_imVars(part = "imgui" /\ ImGui!ServerStep(t))
  /\ WF_qtVars(part = "qt" /\ Qt!Finished) /\ WF_qtVars(part = "qt" /\ Qt!CheckReturns)
  /\ WF_qtVars(part = "qt" /\ Qt!CheckFinished) /\ WF_qtVars(part = "qt" /\ dying /\ Qt!Exits)
  /\ WF_entryVars(part = "entry" /\ Entry!Setup) /\ WF_entryVars(part = "entry" /\ Entry!Serve)
  /\ WF_consoleVars(part = "console" /\ Lines!ThreadStep)
  /\ WF_consoleVars(part = "console" /\ Lines!StopJoins)
  /\ SF_updateVars(part = "update" /\ ~dead /\ Update!Gets)
  /\ WF_updateVars(part = "update" /\ ~dead /\ (Update!SleepEnds \/ Update!Returns))
  /\ WF_updateVars(part = "update" /\ ~dead /\ Update!OwnerStep /\ UNCHANGED <<kind, phase, told>>)
  /\ WF_updateVars(part = "update" /\ ~dead /\ Update!WorkerStep /\ UNCHANGED <<kind, phase, told>>)
  /\ WF_updateVars(/\ part = "update" /\ ~dead /\ (Update!PerformReturns \/ Update!PerformKills)
                   /\ UNCHANGED <<kind, phase, told>>)
  /\ WF_updateVars(part = "update" /\ ~dead /\ Update!Answers)

Spec == Init /\ [][Next]_vars /\ Fairness

---------------------------------------------------------------------------
\* ImGui launcher.  The panel reads the answer of a check only when the
\* detached thread does not write it, and races with it for the progress alone;
\* after a stop a server thread prints only the lines it was bound to print.
ImGuiThreads == ImGui!TypeOK /\ ImGui!OnlyProgressRaces /\ ImGui!OnlyOwedPrinted

\* Qt launcher.  No server outlives the window or escapes Stop unless it took
\* five seconds to come up; a restart that starts nothing follows a kill; the
\* bar does not show a check that is over.
QtProcess == /\ [](Qt!TypeOK /\ Qt!UnstoppableOnlyIfSlow /\ Qt!NoneOutlives /\ Qt!IdleLooksIdle)
             /\ Qt!LostOnlyAfterKill

\* Entry point and wizard.  Nothing is written or started without a typed
\* consent, and what is started is a configuration that can run and the one
\* that was written.
EntryConsents == Entry!TypeOK /\ Entry!ConsentFirst /\ Entry!Startable /\ Entry!FileIsServer

\* Console.  Lines are handled once and in order over stops and starts, at
\* most one after the flag is cleared and none after Stop returned; only a
\* Start without a Stop or a handler that throws kills.
ConsoleHandles == /\ [](Lines!TypeOK /\ Lines!HandledAsTyped /\ Lines!OneLate)
                  /\ Lines!QuietWhenStopped /\ Lines!DiesOnlyIf

\* UpdateChecker.  The callback, which captures the caller's state, never
\* runs after the call has returned; it tells the answer to this request;
\* a request unanswered by then is dropped.
CheckIsClosed == /\ [](Update!AnsweredOrDropped /\ Update!ToldTheTruth)
                 /\ Update!NothingAfterReturn

\* The comparisons of the C++ checker and of launcher-rs.  Newer is a strict
\* order; on versions of plain numbers the two agree, so that an operator who
\* follows both never goes back, and they choose the same asset.
NewerIsNewer == /\ [](Compare!StrictOrder /\ Compare!LaunchersAgree /\ Compare!SameAsset)
                /\ Compare!NeverBack

\* The launchers' threads and checks end, and a server that had to be killed;
\* an input that has ended ends the wizard's questions; the console's Stop
\* returns, given one more line; the update check returns, unless the
\* wake-up of its Stop is lost.
ProgramsProgress == /\ ImGui!ThreadsEnd /\ (part = "imgui" => ImGui!CheckIsOver)
                    /\ Qt!StopEnds /\ Qt!ButtonBack /\ Entry!SetupEnds
                    /\ Lines!StopReturns /\ Update!CheckReturns
=============================================================================
