--------------------------- MODULE BackupManager ---------------------------
(***************************************************************************)
(* src/core/backup_manager.cpp: BackupNow on the loop's thread and on the  *)
(* caller's, RestoreBackup on the caller's, over the same directories and  *)
(* without a lock.  A backup is named by the second it begins in.          *)
(***************************************************************************)
EXTENDS Naturals, FiniteSets

CONSTANTS MaxBackups, \* maxBackups_
          MaxTime     \* bound on the clock
\* With SetMaxBackups(0) a backup would be removed before it is reported.
BackupAssumption == MaxBackups \in Nat \ {0} /\ MaxTime \in Nat \ {0}
Actors == {"loop", "caller"}
Names == 1..MaxTime

VARIABLES
  now,        \* system_clock, in seconds
  world,      \* worldPath_: "whole", "partial" or "absent"
  backups,    \* backupPath_, per name: also "none"
  pc,         \* where each actor is
  dest,       \* the backup an actor makes or restores
  intact,     \* the world has been whole since the actor began to copy it
  doomed,     \* what CleanupOldBackups has decided to remove
  running,    \* running_
  dead,       \* the process has been terminated
  setBack,    \* history: the clock has been set back
  overlapped, \* history: two operations have run at a time
  fromPartial \* history: a partial backup has been restored
diskVars == <<world, backups>>
actorVars == <<pc, dest, intact, doomed>>
vars == <<now, diskVars, actorVars, running, dead, setBack, overlapped, fromPartial>>

Rest == {"off", "sleep", "ended", "idle", "join"}
Done(a) == IF a = "loop" THEN "sleep" ELSE "idle"
Existing == {n \in Names : backups[n] # "none"}

Init == /\ now = 1 /\ world = "whole" /\ backups = [n \in Names |-> "none"]
        /\ pc = [a \in Actors |-> IF a = "loop" THEN "off" ELSE "idle"]
        /\ dest = [a \in Actors |-> 1] /\ intact = [a \in Actors |-> FALSE]
        /\ doomed = [a \in Actors |-> {}]
        /\ running = FALSE /\ dead = FALSE /\ setBack = FALSE /\ overlapped = FALSE
        /\ fromPartial = FALSE

Goes(a, to) == pc' = [pc EXCEPT ![a] = to] /\ UNCHANGED <<now, dead, setBack>>
Overlaps == overlapped' = (overlapped \/ \E a, b \in Actors : a # b /\ pc'[a] \notin Rest /\ pc'[b] \notin Rest)

---------------------------------------------------------------------------
\* Without a joinable thread; the class has no destructor.
StartAutoBackup == /\ pc["caller"] = "idle" /\ running' = TRUE
                   /\ dead' = (pc["loop"] # "off")
                   /\ pc' = IF dead' THEN pc ELSE [pc EXCEPT !["loop"] = "sleep"]
                   /\ UNCHANGED <<now, diskVars, dest, intact, doomed, setBack, overlapped, fromPartial>>

StopStores == /\ pc["caller"] = "idle" /\ running' = FALSE /\ Goes("caller", "join")
              /\ UNCHANGED <<diskVars, dest, intact, doomed, overlapped, fromPartial>>
StopJoins == /\ pc["caller"] = "join" /\ pc["loop"] \in {"off", "ended"}
             /\ pc' = [loop |-> "off", caller |-> "idle"]
             /\ UNCHANGED <<now, diskVars, dest, intact, doomed, running, dead, setBack, overlapped, fromPartial>>

LoopStops == /\ pc["loop"] = "sleep" /\ ~running /\ Goes("loop", "ended")
             /\ UNCHANGED <<diskVars, dest, intact, doomed, running, overlapped, fromPartial>>

---------------------------------------------------------------------------
Taken == backups[now] # "none"
\* BackupNow.  copy fails at the first file that is there already, or if
\* there is no world; Done with what is on disk left as it is.
Ready(a) == pc[a] = Done(a) /\ (a = "loop" => running)
Begins(a) == /\ Ready(a)
             /\ IF Taken \/ world = "absent"
                THEN Goes(a, Done(a)) /\ UNCHANGED <<backups, dest, intact>>
                ELSE /\ Goes(a, "copy") /\ dest' = [dest EXCEPT ![a] = now]
                     /\ backups' = [backups EXCEPT ![now] = "partial"]
                     /\ intact' = [intact EXCEPT ![a] = world = "whole"]
             /\ Overlaps /\ UNCHANGED <<world, doomed, running, fromPartial>>

CopyFails(a) == /\ pc[a] = "copy" /\ Goes(a, Done(a))
                /\ UNCHANGED <<diskVars, dest, intact, doomed, running, overlapped, fromPartial>>

\* Another's cleanup may have removed the copy meanwhile: copy fails.
CopyEnds(a) == /\ pc[a] = "copy" /\ backups[dest[a]] # "none" /\ Goes(a, "list")
               /\ backups' = IF intact[a] THEN [backups EXCEPT ![dest[a]] = "whole"] ELSE backups
               /\ UNCHANGED <<world, dest, intact, doomed, running, overlapped, fromPartial>>

\* Faulty variant: one backup too many is removed.
OneTooMany(all) == {n \in all : Cardinality({m \in all : m > n}) + 1 >= MaxBackups}
Oldest(all) == {n \in all : Cardinality({m \in all : m > n}) >= MaxBackups}

Lists(a) == /\ pc[a] = "list" /\ Goes(a, "remove")
            /\ doomed' = [doomed EXCEPT ![a] = Oldest(Existing)]
            /\ UNCHANGED <<diskVars, dest, intact, running, overlapped, fromPartial>>
Removes(a) == /\ pc[a] = "remove" /\ Goes(a, "report")
              /\ doomed' = [doomed EXCEPT ![a] = {}]
              /\ backups' = [n \in Names |-> IF n \in doomed[a] THEN "none" ELSE backups[n]]
              /\ UNCHANGED <<world, dest, intact, running, overlapped, fromPartial>>
\* remove_all throws: the older ones are gone, part of this one may be, and
\* the backup that was made is reported as failed.
RemoveFails(a) == /\ pc[a] = "remove" /\ Goes(a, Done(a))
                  /\ doomed' = [doomed EXCEPT ![a] = {}]
                  /\ \E n \in doomed[a] \cap Existing, left \in {"partial", "whole"} :
                       /\ left \in {"partial", backups[n]}
                       /\ backups' = [m \in Names |-> IF m = n THEN left
                                          ELSE IF m \in doomed[a] /\ m < n THEN "none" ELSE backups[m]]
                  /\ UNCHANGED <<world, dest, intact, running, overlapped, fromPartial>>
Reports(a) == /\ pc[a] = "report" /\ Goes(a, Done(a))
              /\ UNCHANGED <<diskVars, dest, intact, doomed, running, overlapped, fromPartial>>

---------------------------------------------------------------------------
\* RestoreBackup of a backup that ListBackups gave.
RestoreRemoves(n) == /\ pc["caller"] = "idle" /\ n \in Existing /\ Goes("caller", "restore")
                     /\ world' = "absent" /\ dest' = [dest EXCEPT !["caller"] = n]
                     /\ intact' = [a \in Actors |-> FALSE]
                     /\ fromPartial' = (fromPartial \/ backups[n] = "partial")
                     /\ Overlaps /\ UNCHANGED <<backups, doomed, running>>
RestoreCopies == /\ pc["caller"] = "restore"
                 /\ IF backups[dest["caller"]] = "none" THEN Goes("caller", "idle") /\ UNCHANGED world
                    ELSE Goes("caller", "restoring") /\ world' = "partial"
                 /\ UNCHANGED <<backups, dest, intact, doomed, running, overlapped, fromPartial>>
RestoreEnds == /\ pc["caller"] = "restoring" /\ Goes("caller", "idle")
               /\ world' \in {"partial", backups[dest["caller"]]} \ {"none"}
               /\ UNCHANGED <<backups, dest, intact, doomed, running, overlapped, fromPartial>>

Tick == /\ now < MaxTime /\ now' = now + 1
        /\ UNCHANGED <<diskVars, actorVars, running, dead, setBack, overlapped, fromPartial>>
SetsBack == /\ now > 1 /\ ~setBack /\ now' = now - 1 /\ setBack' = TRUE
            /\ UNCHANGED <<diskVars, actorVars, running, dead, overlapped, fromPartial>>

ActorStep(a) == CopyFails(a) \/ CopyEnds(a) \/ Lists(a) \/ Removes(a) \/ RemoveFails(a)
                \/ Reports(a)
LoopStep == LoopStops \/ Begins("loop") \/ ActorStep("loop")
Next == /\ ~dead
        /\ \/ StartAutoBackup \/ StopStores \/ StopJoins \/ LoopStep \/ Tick \/ SetsBack
           \/ Begins("caller") \/ ActorStep("caller")
           \/ RestoreCopies \/ RestoreEnds \/ \E n \in Names : RestoreRemoves(n)
\* The thread is scheduled, its sleep and its copy end; so does the caller's.
Fairness == WF_vars(~dead /\ LoopStep) /\ WF_vars(~dead /\ StopJoins)
Spec == Init /\ [][Next]_vars /\ Fairness

---------------------------------------------------------------------------
(* Every variable has a value of its type; no actor copies into a backup   *)
(* that is complete, but where the clock names two backups alike.          *)
TypeOK == /\ now \in Names /\ world \in {"whole", "partial", "absent"}
          /\ backups \in [Names -> {"none", "partial", "whole"}]
          /\ pc \in [Actors -> Rest \cup {"copy", "list", "remove", "report", "restore", "restoring"}]
          /\ dest \in [Actors -> Names] /\ intact \in [Actors -> BOOLEAN]
          /\ doomed \in [Actors -> SUBSET Names]
          /\ \A a \in Actors : pc[a] = "copy" /\ ~setBack => backups[dest[a]] # "whole"
          /\ {running, dead, setBack, overlapped, fromPartial} \subseteq BOOLEAN

(* When the callback is told that a backup was made, the backup is there   *)
(* and as whole as the world was: unless the clock was set back, which     *)
(* makes it the oldest, or another operation ran at the same time.         *)
ReportedExists == \A a \in Actors : pc[a] = "report" /\ ~setBack /\ ~overlapped =>
  backups[dest[a]] = IF intact[a] THEN "whole" ELSE "partial"

(* A backup is removed only when maxBackups_ newer ones exist at that      *)
(* moment, though two cleanups may have listed at different times.         *)
RemovesOnlyOld == [][\A n \in Names : backups[n] # "none" /\ backups'[n] = "none" =>
                       Cardinality({m \in Existing : m > n}) >= MaxBackups]_vars

(* A restore that fails leaves a whole backup to restore from, until the   *)
(* automatic backups of what it left of the world have pushed it out.      *)
WorldRecoverable == world # "whole" /\ ~overlapped /\ ~setBack /\ ~fromPartial =>
  (\E n \in Names : backups[n] = "whole") \/ Cardinality(Existing) >= MaxBackups

(* StopAutoBackup returns, after at most a sleep and a backup. *)
StopReturns == pc["caller"] = "join" ~> pc["caller"] # "join" \/ dead
=============================================================================
