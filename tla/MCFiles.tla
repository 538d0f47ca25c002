------------------------------- MODULE MCFiles -------------------------------
(***************************************************************************)
(* The components that keep files and encode bytes, one at a time since    *)
(* they share nothing.  TLC is given, for ConfigWatcher, four changes of   *)
(* the file and two Starts, so that the watch is lost twice; for           *)
(* BackupManager two backups kept on a clock of four seconds that may be   *)
(* set back; for Installer two releases, of the kinds of archive that are  *)
(* told apart and of another; for Codecs sizes on both sides of every      *)
(* length that changes the header and of every byte that changes its sign, *)
(* cut short and with more behind.                                         *)
(***************************************************************************)
EXTENDS Integers

CONSTANTS
  MaxChanges, MaxStarts,   \* ConfigWatcher
  MaxBackups, MaxTime,     \* BackupManager
  MaxVersion, Assets,      \* Installer
  Sizes, Parts, Values     \* Codecs

VARIABLES
  part,
  running, thread, owner, inode, version, watch, base, events, seen, returned, starts, dead,
  now, world, backups, backupPc, dest, intact, doomed, autoRunning, backupDead, setBack,
  overlapped, fromPartial,
  latest, cmd, pc, rel, cache, output, dir, state, outcome, fault, removed,
  codec, size, head, arrived, got, stream, offset, put, taken

watchVars == <<running, thread, owner, inode, version, watch, base, events, seen, returned, starts, dead>>
backupVars == <<now, world, backups, backupPc, dest, intact, doomed, autoRunning, backupDead,
                setBack, overlapped, fromPartial>>
installVars == <<latest, cmd, pc, rel, cache, output, dir, state, outcome, fault, removed>>
codecVars == <<codec, size, head, arrived, got, stream, offset, put, taken>>
vars == <<part, watchVars, backupVars, installVars, codecVars>>

Watcher == INSTANCE ConfigWatcher WITH queue <- events, MaxVersion <- MaxChanges
Backup == INSTANCE BackupManager WITH
  pc <- backupPc, running <- autoRunning, dead <- backupDead
Install == INSTANCE Installer
Codec == INSTANCE Codecs

ASSUME FilesAssumption == /\ Watcher!WatcherAssumption /\ Backup!BackupAssumption
                          /\ Install!InstallAssumption
ASSUME CodecsAssumption == Codec!SizesAssumption /\ Codec!ValuesAssumption

\* What may be missing of a packet, or stand behind it, when TLC decodes it.
MCParts == {-5, -2, -1, 0, 1, 7}

\* A part the behaviour is not about needs one initial state only.
Init ==
  /\ part \in {"watcher", "backup", "install", "codec"}
  /\ Watcher!Init /\ (part = "watcher" \/ inode = 1)
  /\ Backup!Init
  /\ Install!Init /\ (part = "install" \/ (state = 0 /\ latest.asset = Install!NoAsset))
  /\ Codec!Init /\ (part = "codec" \/ codec = "serializer")

Next ==
  /\ UNCHANGED part
  /\ \/ part = "watcher" /\ Watcher!Next /\ UNCHANGED <<backupVars, installVars, codecVars>>
     \/ part = "backup" /\ Backup!Next /\ UNCHANGED <<watchVars, installVars, codecVars>>
     \/ part = "install" /\ Install!Next /\ UNCHANGED <<watchVars, backupVars, codecVars>>
     \/ part = "codec" /\ Codec!Next /\ UNCHANGED <<watchVars, backupVars, installVars>>

\* The fairness of each component, for the one that runs.
Fairness ==
  /\ WF_watchVars(part = "watcher" /\ ~dead /\ Watcher!ThreadStep)
  /\ WF_watchVars(part = "watcher" /\ ~dead /\ Watcher!StopJoins)
  /\ WF_backupVars(part = "backup" /\ ~backupDead /\ Backup!LoopStep)
  /\ WF_backupVars(part = "backup" /\ ~backupDead /\ Backup!StopJoins)
  /\ WF_installVars(part = "install" /\ Install!Step)

Spec == Init /\ [][Next]_vars /\ Fairness

---------------------------------------------------------------------------
\* ConfigWatcher.  While the path names the watched inode the configuration in
\* use becomes the file's; a replacement of the file is noticed once the old
\* inode is gone, and later ones are not; no callback runs once Stop has
\* returned.
ConfigFollows == /\ [](Watcher!TypeOK /\ Watcher!FreshWhileWatched /\ Watcher!ReplacementNoticed)
                 /\ Watcher!QuietWhenStopped

\* BackupManager.  A backup that is reported is there and whole; only what
\* maxBackups_ newer ones replace is removed; a failed restore leaves a whole
\* backup; unless the clock was set back or two operations overlapped.
BackupsKept == /\ [](Backup!TypeOK /\ Backup!ReportedExists /\ Backup!WorldRecoverable)
               /\ Backup!RemovesOnlyOld

\* launcher-rs.  An interrupted download or install leaves the release in use
\* as it was, and no archive that is extracted is a rest of an earlier one.
InstalledKept == /\ [](Install!TypeOK /\ Install!RecordedRunnable /\ Install!ArchiveComplete)
                 /\ Install!RemovedAfterDownload

\* Both Stops return, a change of the watched file that the kernel has queued
\* is reported, and every command of launcher-rs ends.
FilesProgress == /\ Watcher!StopReturns /\ Watcher!ChangeReported
                 /\ Backup!StopReturns /\ Install!CommandEnds

\* The packet codecs.  A whole encoding is decoded to what was encoded, except
\* MCX packets and unmasked frames from 65536 bytes, whose length is cut to 16
\* bits, masked frames with a low length byte from 128, which is read as
\* negative, and unmasked frames that are followed by others; a serializer's
\* values come back in the order they were put.
CodecsExact == /\ Codec!McxExact /\ Codec!RconExact /\ Codec!MaskedExact
               /\ Codec!UnmaskedExact /\ Codec!ReadsBack
=============================================================================
