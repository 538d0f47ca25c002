----------------------------- MODULE MCPlayers -----------------------------
(***************************************************************************)
(* What the server keeps about its players, one part at a time since they  *)
(* share nothing: accounts, registered players with their scenes and       *)
(* metrics, the rate of chat, bans, kits and requests to teleport.         *)
(*                                                                         *)
(* Economy: three players and amounts up to 3, so that deposits overflow.  *)
(* EventPipeline: two players, five events, counters that wrap at 4.       *)
(* ChatFilter: half seconds, over three windows.  BanManager: a duration   *)
(* that fits, none, and one past the clock's range; the clock is set two   *)
(* hours either way.  KitManager: cooldowns observed in half seconds.      *)
(* TeleportManager: five requests of three players, to themselves too.     *)
(***************************************************************************)
EXTENDS Economy

CONSTANTS
  Player, NoScene, TestScene, ModScene, Shown, Word, MaxEvents,   \* EventPipeline
  Ticks, ChatTime,                                                \* ChatFilter
  Banned, Hours, BanTime, Largest, Shifts,                        \* BanManager
  Receivers, Kits, Cooldowns, Fractions, KitTime,                 \* KitManager
  MaxRequests                                                     \* TeleportManager

VARIABLES
  part,
  players, scene, connected, executed, events, pending, handling, drift, applied, stale,
  now, timestamps, checked, counted,
  bans, hours, shift, owed, over, ahead, back,
  kits, last, clock, given,
  pendingRequests, made, newest, wants, several

eventVars == <<players, scene, connected, executed, events, pending, handling, drift, applied,
               stale>>
chatVars == <<now, timestamps, checked, counted>>
banVars == <<bans, hours, shift, owed, over, ahead, back>>
kitVars == <<kits, last, clock, given>>
teleportVars == <<pendingRequests, made, newest, wants, several>>
allVars == <<part, vars, eventVars, chatVars, banVars, kitVars, teleportVars>>

Pipeline == INSTANCE EventPipeline
Chat == INSTANCE ChatFilter WITH MaxTime <- ChatTime
Ban == INSTANCE BanManager WITH time <- hours, Players <- Banned, MaxTime <- BanTime
Kit == INSTANCE KitManager WITH time <- clock, Players <- Receivers, MaxTime <- KitTime
Teleport == INSTANCE TeleportManager

ASSUME PipelineAssumption == Pipeline!SceneAssumption /\ Pipeline!BoundAssumption
ASSUME ChatAssumption == Chat!TimeAssumption
ASSUME BansAssumption == Ban!BanAssumption
ASSUME KitsAssumption == Kit!KitAssumption
ASSUME TeleportsAssumption == Teleport!RequestAssumption

\* How far the clock is set when TLC checks the bans.
MCShifts == {-2, 0, 2}

InitPart == /\ part \in {"economy", "events", "chat", "bans", "kits", "teleports"}
            /\ Init /\ Pipeline!Init /\ Chat!Init /\ Ban!Init /\ Kit!Init /\ Teleport!Init

NextPart ==
  /\ UNCHANGED part
  /\ \/ /\ part = "economy" /\ Next
        /\ UNCHANGED <<eventVars, chatVars, banVars, kitVars, teleportVars>>
     \/ /\ part = "events" /\ Pipeline!Next
        /\ UNCHANGED <<vars, chatVars, banVars, kitVars, teleportVars>>
     \/ /\ part = "chat" /\ Chat!Next
        /\ UNCHANGED <<vars, eventVars, banVars, kitVars, teleportVars>>
     \/ /\ part = "bans" /\ Ban!Next
        /\ UNCHANGED <<vars, eventVars, chatVars, kitVars, teleportVars>>
     \/ /\ part = "kits" /\ Kit!Next
        /\ UNCHANGED <<vars, eventVars, chatVars, banVars, teleportVars>>
     \/ /\ part = "teleports" /\ Teleport!Next
        /\ UNCHANGED <<vars, eventVars, chatVars, banVars, kitVars>>

SpecPart == InitPart /\ [][NextPart]_allVars

---------------------------------------------------------------------------
\* EventPipeline.  The metric of connected players follows the registry up to
\* repeated joins and unknown quits; every action handed out is counted once
\* and applied or in the caller's hands; the scene recorded for a player is
\* the current one unless it has changed since the player joined.
MetricsFollow == /\ Pipeline!TypeOK /\ Pipeline!MetricMatchesRegistry
                 /\ Pipeline!ExecutedActionsCounted /\ Pipeline!SceneRecordedAtJoin

\* ChatFilter.  No more than five messages pass in any span shorter than six
\* seconds, and one refused message never delays the next permitted one.
ChatRate == Chat!TypeOK /\ Chat!RateHolds /\ Chat!RefusalsDoNotCount

\* BanManager.  A player is let in or kept out as the last call said, unless
\* the ban's end was out of range or the clock was set since, and the list of
\* bans and the question at the door agree.
BansLast == Ban!TypeOK /\ Ban!FreedEarly /\ Ban!KeptLong /\ Ban!ListAgrees

\* KitManager.  With time in whole seconds a cooldown ends at most a second
\* early and never late, through deletions and new definitions of the kit.
KitsCool == Kit!TypeOK /\ Kit!NeverEarly /\ Kit!NeverLate

\* TeleportManager.  A target answers the request made last; what a player
\* waits for stays pending through the Cancels of others; a request that
\* outlived its player's Cancel was one of several that were pending then.
TeleportsAnswered == /\ Teleport!TypeOK /\ Teleport!AnswersNewest
                     /\ Teleport!WaitedForPending /\ Teleport!LeftOnlyIfSeveral
=============================================================================
