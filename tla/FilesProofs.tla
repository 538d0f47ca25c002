----------------------------- MODULE FilesProofs -----------------------------
(***************************************************************************)
(* What is proved of the parts of MCFiles: the configuration watcher and   *)
(* launcher-rs for any number of changes, releases and commands, the       *)
(* backups for every number kept and every clock, the codecs for every     *)
(* size of a payload and every cut of the stream.  Each part has an        *)
(* inductive invariant; the theorems at the end put them together.         *)
(***************************************************************************)
EXTENDS MCFiles, FiniteSets, SequenceTheorems, FiniteSetTheorems, WellFoundedInduction, TLAPS

---------------------------------------------------------------------------
(* ConfigWatcher                                                           *)

\* A watch is lost only to an event that is read later than the watch was
\* made, the path names another inode than the watched one only after a
\* change, to one that is new, and while the owner is not in Stop the flag
\* says that it runs.
WatchInv ==
  /\ Watcher!TypeOK /\ Watcher!FreshWhileWatched
  /\ base <= version /\ inode <= version + 1 /\ watch <= version + 1
  /\ thread \in {"test", "select", "callback"} /\ watch # inode => version > base
  /\ thread \in {"test", "select", "callback"} /\ watch = 0 => version > base
  /\ thread \in {"test", "select"} /\ watch = 0 /\ events = {} => seen > base
  /\ owner = "idle" => running \/ thread = "none"

\* At first nothing is watched.
LEMMA WatchInitInv == Watcher!Init => WatchInv
<1> SUFFICES ASSUME Watcher!Init PROVE WatchInv
  OBVIOUS
<1>1. MaxChanges \in Nat /\ MaxStarts \in Nat
  BY FilesAssumption DEF Watcher!WatcherAssumption
<1>2. {0, 1} \subseteq Watcher!Inode /\ 0 \in 0..MaxChanges /\ 0 \in 0..MaxStarts
  BY <1>1 DEF Watcher!Inode
<1>3. Watcher!TypeOK
  BY <1>2 DEF Watcher!Init, Watcher!TypeOK
<1> QED
  BY <1>3 DEF Watcher!Init, WatchInv, Watcher!FreshWhileWatched, Watcher!Watched

\* The owner's calls: Start reads the file, Stop waits for the thread.
LEMMA WatchOwnerInv ==
  ASSUME WatchInv, ~dead, Watcher!Start \/ Watcher!StopStores \/ Watcher!StopJoins
  PROVE  WatchInv'
<1>1. MaxChanges \in Nat /\ MaxStarts \in Nat
  BY FilesAssumption DEF Watcher!WatcherAssumption
<1>2. CASE Watcher!Start
  BY <1>1, <1>2
  DEF Watcher!Start, WatchInv, Watcher!TypeOK, Watcher!FreshWhileWatched, Watcher!Watched, Watcher!Inode,
      Watcher!fileVars
<1>3. CASE Watcher!StopStores
  BY <1>3
  DEF Watcher!StopStores, WatchInv, Watcher!TypeOK, Watcher!FreshWhileWatched, Watcher!Watched, Watcher!Inode,
      Watcher!fileVars, Watcher!watchVars
<1>4. CASE Watcher!StopJoins
  BY <1>4
  DEF Watcher!StopJoins, WatchInv, Watcher!TypeOK, Watcher!FreshWhileWatched, Watcher!Watched, Watcher!Inode,
      Watcher!fileVars, Watcher!watchVars
<1> QED
  BY <1>2, <1>3, <1>4

\* The thread: a callback comes after what it reports.
LEMMA WatchThreadInv ==
  ASSUME WatchInv, Watcher!ThreadStep
  PROVE  WatchInv'
<1>1. MaxChanges \in Nat /\ MaxStarts \in Nat
  BY FilesAssumption DEF Watcher!WatcherAssumption
<1>2. CASE Watcher!Watches
  BY <1>1, <1>2
  DEF Watcher!Watches, Watcher!Goes, WatchInv, Watcher!TypeOK, Watcher!FreshWhileWatched,
      Watcher!Inode, Watcher!fileVars, Watcher!Watched
<1>3. CASE Watcher!LoopTests
  <2>1. /\ thread = "test"
        /\ UNCHANGED <<running, owner, inode, version, returned, starts, dead, base, seen>>
        /\ \/ thread' = "select" /\ watch' = watch /\ events' = events
           \/ thread' = "ended" /\ watch' = 0 /\ events' = {} /\ ~running
    BY <1>3 DEF Watcher!LoopTests, Watcher!Goes, Watcher!fileVars, Watcher!watchVars
  <2>2. 0 \in Watcher!Inode
    BY <1>1 DEF Watcher!Inode
  <2>3. Watcher!TypeOK'
    BY <2>1, <2>2 DEF WatchInv, Watcher!TypeOK
  <2>4. CASE thread' = "select" /\ watch' = watch /\ events' = events
    BY <2>1, <2>3, <2>4 DEF WatchInv, Watcher!FreshWhileWatched, Watcher!Watched
  <2>5. CASE thread' = "ended" /\ watch' = 0 /\ events' = {} /\ ~running
    <3>1. owner' = "idle" => running' \/ thread' = "none"
      BY <2>1, <2>5 DEF WatchInv
    <3>2. watch' <= version' + 1
      BY <1>1, <2>1, <2>5 DEF WatchInv, Watcher!TypeOK
    <3> QED
      BY <2>1, <2>3, <2>5, <3>1, <3>2 DEF WatchInv, Watcher!FreshWhileWatched
  <2> QED
    BY <2>1, <2>4, <2>5
<1>4. CASE Watcher!TimesOut
  BY <1>4
  DEF Watcher!TimesOut, Watcher!Goes, WatchInv, Watcher!TypeOK, Watcher!FreshWhileWatched,
      Watcher!Inode, Watcher!fileVars, Watcher!watchVars, Watcher!Watched
<1>5. CASE Watcher!Reads
  BY <1>5
  DEF Watcher!Reads, Watcher!Goes, WatchInv, Watcher!TypeOK, Watcher!FreshWhileWatched,
      Watcher!Inode, Watcher!fileVars
<1>6. CASE Watcher!CallbackReturns
  BY <1>1, <1>6
  DEF Watcher!CallbackReturns, Watcher!Goes, WatchInv, Watcher!TypeOK,
      Watcher!FreshWhileWatched, Watcher!Inode, Watcher!fileVars
<1>7. CASE Watcher!WatchFails
  BY <1>7
  DEF Watcher!WatchFails, Watcher!Goes, WatchInv, Watcher!TypeOK, Watcher!FreshWhileWatched,
      Watcher!Inode, Watcher!fileVars, Watcher!watchVars
<1>8. CASE Watcher!CallbackKills
  <2>1. dead' = TRUE /\ UNCHANGED <<running, thread, owner, inode, version, returned, watch,
                                    base, events, seen, starts>>
    BY <1>8 DEF Watcher!CallbackKills, Watcher!fileVars, Watcher!watchVars
  <2>2. dead' \in BOOLEAN
    BY <2>1
  <2>3. Watcher!TypeOK'
    BY <2>1, <2>2 DEF WatchInv, Watcher!TypeOK, Watcher!Inode
  <2> QED
    BY <2>1, <2>3 DEF WatchInv, Watcher!FreshWhileWatched, Watcher!Watched
<1> QED
  BY <1>2, <1>3, <1>4, <1>5, <1>6, <1>7, <1>8 DEF Watcher!ThreadStep

\* A change puts an inode of an older version, or the next new one, in the path.
LEMMA WatchChanges ==
  ASSUME WatchInv, NEW to \in 0..version + 2, Watcher!Changes(to)
  PROVE  /\ version' = version + 1 /\ inode' = to
         /\ UNCHANGED <<running, thread, owner, base, seen, starts, dead>>
         /\ version' \in 0..MaxChanges /\ inode' \in Watcher!Inode
         /\ version' \in Nat /\ base' < version' /\ inode' <= version' + 1
<1>1. MaxChanges \in Nat
  BY FilesAssumption DEF Watcher!WatcherAssumption
<1>2. version < MaxChanges /\ version' = version + 1 /\ inode' = to
      /\ UNCHANGED <<running, thread, owner, base, seen, starts, dead>>
  BY DEF Watcher!Changes, Watcher!Unmoved
<1>3. version \in 0..MaxChanges /\ base \in 0..MaxChanges /\ base <= version
  BY DEF WatchInv, Watcher!TypeOK
<1> QED
  BY <1>1, <1>2, <1>3 DEF Watcher!Inode

\* The file: what happens to a watched inode is an event, unless it is kept.
LEMMA WatchFileInv ==
  ASSUME WatchInv, Watcher!FileStep
  PROVE  WatchInv'
<1>1. MaxChanges \in Nat /\ MaxStarts \in Nat
  BY FilesAssumption DEF Watcher!WatcherAssumption
<1>2. /\ Watcher!TypeOK /\ inode \in Nat /\ watch \in Nat /\ version \in Nat /\ base \in Nat
      /\ inode <= version + 1 /\ watch <= version + 1 /\ base <= version
  BY <1>1 DEF WatchInv, Watcher!TypeOK, Watcher!Inode
<1>3. 0 \in Watcher!Inode
  BY <1>1 DEF Watcher!Inode
<1>4. CASE Watcher!Modify
  <2>1. inode # 0 /\ Watcher!Changes(inode) /\ inode \in 0..version + 2
    BY <1>2, <1>4 DEF Watcher!Modify
  <2>2. CASE Watcher!Watched
    <3>1. watch = inode /\ events' = events \cup {"IN_MODIFY"} /\ watch' = watch
          /\ returned' = FALSE
      BY <1>4, <2>2 DEF Watcher!Modify, Watcher!Written, Watcher!Watched
    <3>2. returned' \in BOOLEAN
      BY <3>1
    <3>3. Watcher!TypeOK'
      BY <1>2, <2>1, <2>2, <3>1, <3>2, WatchChanges DEF Watcher!TypeOK, Watcher!Watched
    <3>4. events' # {} /\ watch' = inode' /\ watch' # 0
      BY <2>1, <2>2, <3>1, WatchChanges DEF Watcher!Watched
    <3> QED
      BY <1>2, <2>1, <3>1, <3>3, <3>4, WatchChanges DEF WatchInv, Watcher!FreshWhileWatched
  <2>3. CASE ~Watcher!Watched
    <3>1. UNCHANGED <<events, watch, returned>>
      BY <1>4, <2>3 DEF Watcher!Modify
    <3>2. Watcher!TypeOK'
      BY <1>2, <2>1, <3>1, WatchChanges DEF Watcher!TypeOK
    <3>3. ~Watcher!Watched'
      BY <2>1, <2>3, <3>1, WatchChanges DEF Watcher!Watched
    <3> QED
      BY <1>2, <2>1, <3>1, <3>2, <3>3, WatchChanges DEF WatchInv, Watcher!FreshWhileWatched
  <2> QED
    BY <2>2, <2>3
<1>5. ASSUME NEW to \in {0, version + 2}, Watcher!Moves(to) PROVE WatchInv'
  <2>1. Watcher!Changes(to) /\ to \in 0..version + 2 /\ returned' = FALSE
    BY <1>2, <1>5 DEF Watcher!Moves
  <2>2. returned' \in BOOLEAN
    BY <2>1
  <2>3. \/ Watcher!Watched /\ watch' = 0 /\ events' = events \cup {"IN_IGNORED"}
        \/ UNCHANGED <<events, watch>>
    BY <1>5 DEF Watcher!Moves, Watcher!Gone
  <2>4. Watcher!TypeOK'
    BY <1>2, <1>3, <2>1, <2>2, <2>3, WatchChanges DEF Watcher!TypeOK, Watcher!Watched
  <2>5. ~Watcher!Watched'
    BY <1>2, <2>1, <2>3, WatchChanges DEF Watcher!Watched
  <2> QED
    BY <1>2, <2>1, <2>3, <2>4, <2>5, WatchChanges DEF WatchInv, Watcher!FreshWhileWatched
<1>6. CASE Watcher!Restore
  <2>1. Watcher!Changes(watch) /\ watch \in 0..version + 2 /\ returned' = TRUE
        /\ UNCHANGED <<events, watch>>
    BY <1>2, <1>6 DEF Watcher!Restore
  <2>2. returned' \in BOOLEAN
    BY <2>1
  <2>3. Watcher!TypeOK'
    BY <1>2, <2>1, <2>2, WatchChanges DEF Watcher!TypeOK
  <2> QED
    BY <1>2, <2>1, <2>3, WatchChanges DEF WatchInv, Watcher!FreshWhileWatched
<1>7. CASE Watcher!KeptChanges
  <2>1. /\ watch # 0 /\ watch # inode
        /\ UNCHANGED <<running, thread, owner, base, seen, starts, dead, inode, version, returned>>
        /\ \/ events' = events \cup {"IN_MODIFY"} /\ watch' = watch
           \/ events' = events \cup {"IN_IGNORED"} /\ watch' = 0
    BY <1>7
    DEF Watcher!KeptChanges, Watcher!Kept, Watcher!Unmoved, Watcher!Written, Watcher!Gone,
        Watcher!fileVars
  <2>2. Watcher!TypeOK'
    BY <1>2, <1>3, <2>1 DEF Watcher!TypeOK
  <2> QED
    BY <1>2, <2>1, <2>2 DEF WatchInv, Watcher!FreshWhileWatched
<1> QED
  BY <1>4, <1>5, <1>6, <1>7 DEF Watcher!FileStep, Watcher!Replace, Watcher!Remove

\* A step of the owner, of the thread or of the file, or none.
LEMMA WatchStepInv == WatchInv /\ [Watcher!Next]_watchVars => WatchInv'
<1> SUFFICES ASSUME WatchInv, [Watcher!Next]_watchVars PROVE WatchInv'
  OBVIOUS
<1>1. CASE UNCHANGED watchVars
  BY <1>1
  DEF watchVars, WatchInv, Watcher!TypeOK, Watcher!FreshWhileWatched, Watcher!Watched,
      Watcher!Inode
<1>2. CASE Watcher!Next
  BY <1>2, WatchOwnerInv, WatchThreadInv, WatchFileInv DEF Watcher!Next
<1> QED
  BY <1>1, <1>2

---------------------------------------------------------------------------
(* Installer                                                               *)

\* An install comes to the directory with the whole archive of its release.
InstallInv ==
  /\ Install!TypeOK /\ Install!RecordedRunnable
  /\ pc \in {"directory", "extract"} => cache = [v |-> rel.v, whole |-> TRUE]

\* At first nothing is cached.
LEMMA InstallInitInv == Install!Init => InstallInv
<1> SUFFICES ASSUME Install!Init PROVE InstallInv
  OBVIOUS
<1>1. MaxVersion \in Nat /\ 1 \in Install!Versions
  BY FilesAssumption DEF Install!InstallAssumption, Install!Versions
<1>2. latest \in [v : Install!Versions, asset : Assets \cup {Install!NoAsset}]
  BY <1>1 DEF Install!Init
<1>3. Install!NoFile \in [v : 0..MaxVersion, whole : BOOLEAN]
  BY <1>1 DEF Install!NoFile
<1>4. Install!TypeOK
  BY <1>1, <1>2, <1>3 DEF Install!Init, Install!TypeOK
<1>5. state # 0 => state \in Install!Versions
  BY <1>1 DEF Install!Init, Install!Versions
<1> QED
  BY <1>4, <1>5 DEF Install!Init, InstallInv, Install!RecordedRunnable

\* Only MakesDirectory touches a directory, that of a release whose archive
\* is whole.
LEMMA InstallStepInv == InstallInv /\ [Install!Next]_installVars => InstallInv'
<1> SUFFICES ASSUME InstallInv, [Install!Next]_installVars PROVE InstallInv'
  OBVIOUS
<1>1. /\ MaxVersion \in Nat /\ Install!Versions \subseteq 0..MaxVersion
      /\ latest.v \in Install!Versions /\ rel.v \in Install!Versions
      /\ latest \in [v : Install!Versions, asset : Assets \cup {Install!NoAsset}]
      /\ rel \in [v : Install!Versions, asset : Assets \cup {Install!NoAsset}]
  BY FilesAssumption DEF Install!InstallAssumption, Install!Versions, InstallInv, Install!TypeOK
<1>2. CASE UNCHANGED installVars
  BY <1>2 DEF installVars, InstallInv, Install!TypeOK, Install!RecordedRunnable
<1>3. CASE Install!Publish
  <2>1. latest' \in [v : Install!Versions, asset : Assets \cup {Install!NoAsset}]
    BY <1>1, <1>3 DEF Install!Publish, Install!Versions
  <2> QED
    BY <1>3, <2>1 DEF Install!Publish, InstallInv, Install!TypeOK, Install!RecordedRunnable
<1>4. ASSUME NEW c \in {"download", "install", "launch"}, Install!Begins(c) PROVE InstallInv'
  BY <1>4 DEF Install!Begins, InstallInv, Install!TypeOK, Install!RecordedRunnable
<1>5. CASE Install!Fails
  BY <1>5
  DEF Install!Fails, Install!Ends, Install!files, InstallInv, Install!TypeOK,
      Install!RecordedRunnable
<1>6. CASE Install!Fetches
  BY <1>1, <1>6
  DEF Install!Fetches, Install!Ends, Install!Goes, Install!files, InstallInv, Install!TypeOK,
      Install!RecordedRunnable
<1>7. CASE Install!Creates \/ Install!Downloads
  <2>1. /\ [v |-> rel.v, whole |-> TRUE] \in [v : 0..MaxVersion, whole : BOOLEAN]
        /\ [v |-> rel.v, whole |-> FALSE] \in [v : 0..MaxVersion, whole : BOOLEAN]
    BY <1>1
  <2> QED
    BY <1>7, <2>1
    DEF Install!Creates, Install!Downloads, Install!Writes, Install!Ends, Install!Goes,
        InstallInv, Install!TypeOK, Install!RecordedRunnable
<1>8. CASE Install!MakesDirectory
  <2>1. /\ pc = "directory" /\ pc' = "extract" /\ cmd' = cmd /\ outcome' = outcome
        /\ dir' = [dir EXCEPT ![rel.v] = "empty"] /\ removed' = removed \cup {rel.v}
        /\ UNCHANGED <<latest, rel, cache, output, state, fault>>
    BY <1>8 DEF Install!MakesDirectory, Install!Goes
  <2>2. /\ dir' \in [Install!Versions -> {"whole", "empty", "absent"}]
        /\ \A v \in Install!Versions : dir'[v] = IF v = rel.v THEN "empty" ELSE dir[v]
    BY <1>1, <2>1 DEF InstallInv, Install!TypeOK
  <2>3. Install!TypeOK'
    BY <1>1, <2>1, <2>2 DEF InstallInv, Install!TypeOK
  <2>4. state # 0 => state \in Install!Versions
    BY <1>1 DEF InstallInv, Install!TypeOK, Install!Versions
  <2>5. Install!RecordedRunnable'
    BY <2>1, <2>2, <2>4 DEF InstallInv, Install!RecordedRunnable
  <2> QED
    BY <2>1, <2>3, <2>5 DEF InstallInv
<1>9. CASE Install!Extracts \/ Install!Launches
  BY <1>9
  DEF Install!Extracts, Install!Launches, Install!Ends, Install!files, InstallInv,
      Install!TypeOK, Install!RecordedRunnable
<1> QED
  BY <1>2, <1>3, <1>4, <1>5, <1>6, <1>7, <1>8, <1>9 DEF Install!Next, Install!Step

---------------------------------------------------------------------------
(* BackupManager                                                           *)

\* The instance brings its own copy of Cardinality.
LEMMA BackupCardinality == \A S : Backup!Cardinality(S) = Cardinality(S)
BY DEF Backup!Cardinality, Cardinality

\* Every nonempty set of natural numbers has a smallest one.
LEMMA Smallest ==
  ASSUME NEW T, T \subseteq Nat, T # {}
  PROVE  \E n \in T : \A m \in T : n <= m
<1> DEFINE R == {ss \in Nat \X Nat : ss[1] < ss[2]}
<1>1. IsWellFoundedOn(R, Nat)
  BY NatLessThanWellFounded DEF OpToRel
<1> HIDE DEF R
<1>2. PICK n \in T : \A m \in T : ~(<<m, n>> \in R)
  BY <1>1, WFMin, Zenon
<1>3. \A m \in T : n <= m
  <2> TAKE m \in T
  <2>1. ~(m < n)
    BY <1>2 DEF R
  <2> QED
    BY <2>1
<1> QED
  BY <1>3

\* What the constants are, and the names of backups.
LEMMA BackupNames ==
  /\ MaxBackups \in Nat \ {0} /\ MaxTime \in Nat \ {0}
  /\ Backup!Names = 1..MaxTime /\ Backup!Names \subseteq Nat /\ IsFiniteSet(Backup!Names)
<1>1. MaxBackups \in Nat \ {0} /\ MaxTime \in Nat \ {0}
  BY FilesAssumption DEF Backup!BackupAssumption
<1>2. IsFiniteSet(1..MaxTime)
  BY <1>1, FS_Interval
<1> QED
  BY <1>1, <1>2 DEF Backup!Names

\* The backups of a set that are newer than n.
Newer(S, n) == {m \in S : m > n}

\* A part of the names is finite, and so are those of it that are newer.
LEMMA NewerFinite ==
  ASSUME NEW S, S \subseteq Backup!Names, NEW n
  PROVE  /\ IsFiniteSet(S) /\ IsFiniteSet(Newer(S, n))
         /\ Cardinality(S) \in Nat /\ Cardinality(Newer(S, n)) \in Nat
<1>1. IsFiniteSet(S) /\ Newer(S, n) \subseteq S
  BY BackupNames, FS_Subset DEF Newer
<1>2. IsFiniteSet(Newer(S, n))
  BY <1>1, FS_Subset
<1> QED
  BY <1>1, <1>2, FS_CardinalityType

\* If each of D has k newer ones, removing them all leaves k that are newer
\* than whatever had k before: the k newest are not in D.
LEMMA NewestSurvive ==
  ASSUME NEW S, S \subseteq Backup!Names, NEW D, NEW k \in Nat, NEW n \in Backup!Names,
         \A d \in D : Cardinality(Newer(S, d)) >= k,
         Cardinality(Newer(S, n)) >= k
  PROVE  Cardinality(Newer(S \ D, n)) >= k
<1> DEFINE hit == {d \in D : d \in S /\ d > n}
<1>0. /\ MaxTime \in Nat /\ S \subseteq 1..MaxTime /\ n \in 1..MaxTime
      /\ IsFiniteSet(Newer(S \ D, n)) /\ Cardinality(Newer(S \ D, n)) \in Nat
  BY BackupNames, NewerFinite
<1>1. CASE hit = {}
  <2>1. Newer(S \ D, n) = Newer(S, n)
    BY <1>1 DEF Newer
  <2> QED
    BY <2>1
<1>2. CASE hit # {}
  <2> DEFINE T == {MaxTime - d : d \in hit}
  <2>0. \A d \in hit : d \in Nat /\ d <= MaxTime /\ MaxTime - d \in Nat /\ d > n /\ d \in S
    <3> SUFFICES ASSUME NEW d \in hit
                 PROVE  d \in Nat /\ d <= MaxTime /\ MaxTime - d \in Nat
      OBVIOUS
    <3>1. d \in 1..MaxTime
      BY <1>0
    <3> QED
      BY <1>0, <3>1
  <2> HIDE DEF hit
  <2>1. T \subseteq Nat /\ T # {}
    BY <1>2, <2>0
  <2>2. PICK t \in T : \A u \in T : t <= u
    BY <2>1, Smallest, Zenon
  <2>3. PICK d \in hit : t = MaxTime - d
    OBVIOUS
  <2>4. \A e \in hit : MaxTime - e \in T
    OBVIOUS
  <2> HIDE DEF T
  <2>5. \A e \in hit : e <= d
    BY <1>0, <2>0, <2>2, <2>3, <2>4
  <2>6. Newer(S, d) \subseteq Newer(S \ D, n)
    <3> SUFFICES ASSUME NEW m \in S, m > d PROVE m > n /\ m \notin D
      BY DEF Newer
    <3>1. m \in Nat /\ d \in Nat /\ n \in Nat /\ d > n
      BY <1>0, <2>0
    <3>2. m > n
      BY <3>1
    <3>3. m \notin hit
      BY <2>5, <3>1
    <3> QED
      BY <3>2, <3>3 DEF hit
  <2>7. Cardinality(Newer(S, d)) <= Cardinality(Newer(S \ D, n))
    BY <1>0, <2>6, FS_Subset
  <2>8. Cardinality(Newer(S, d)) >= k /\ Cardinality(Newer(S, d)) \in Nat
    BY NewerFinite DEF hit
  <2> QED
    BY <1>0, <2>7, <2>8
<1> QED
  BY <1>1, <1>2

---------------------------------------------------------------------------
\* An actor is in BackupNow behind the test of the name.
BackingUp == {"copy", "list", "remove", "report"}

\* Unless they have overlapped, one operation runs at a time.
Alone == ~overlapped => \A a, b \in Backup!Actors :
           a # b => backupPc[a] \in Backup!Rest \/ backupPc[b] \in Backup!Rest

\* Unless the clock was set back no name lies ahead of it, and a copy whose
\* backup was removed is an old one, so that no two copy to the same name.
Timely == ~setBack =>
  /\ \A n \in Backup!Names : n > now => backups[n] = "none"
  /\ \A a \in Backup!Actors : backupPc[a] = "copy" =>
       dest[a] < now \/ (dest[a] = now /\ backups[now] # "none")
  /\ \A a, b \in Backup!Actors :
       backupPc[a] = "copy" /\ backupPc[b] = "copy" /\ a # b => dest[a] # dest[b]

\* What is about to be removed has maxBackups_ newer ones, which stay.
DoomedOld == \A a \in Backup!Actors : backupPc[a] = "remove" =>
  \A n \in doomed[a] : Cardinality(Newer(Backup!Existing, n)) >= MaxBackups

\* A backup made alone is the newest, and as whole as it is said to be.
LastKept == ~setBack /\ ~overlapped => \A a \in Backup!Actors :
  /\ backupPc[a] \in BackingUp => \A n \in Backup!Names : n > dest[a] => backups[n] = "none"
  /\ backupPc[a] = "copy" => backups[dest[a]] = "partial"
  /\ backupPc[a] \in BackingUp \ {"copy"} =>
       backups[dest[a]] = IF intact[a] THEN "whole" ELSE "partial"

Restoring == backupPc["caller"] \in {"restore", "restoring"} => world # "whole"

BackupInv == /\ Backup!TypeOK /\ Alone /\ Timely /\ DoomedOld /\ LastKept /\ Restoring
             /\ Backup!WorldRecoverable

\* What exists is among the names.
LEMMA ExistingNames ==
  Backup!Existing \subseteq Backup!Names /\ IsFiniteSet(Backup!Existing)
  /\ Cardinality(Backup!Existing) \in Nat
BY NewerFinite DEF Backup!Existing

\* At first there is no backup.
LEMMA BackupInitInv == Backup!Init => BackupInv
<1> SUFFICES ASSUME Backup!Init PROVE BackupInv
  OBVIOUS
<1>1. MaxTime \in Nat \ {0} /\ Backup!Names = 1..MaxTime /\ 1 \in Backup!Names
  BY BackupNames
<1>2. /\ \A a \in Backup!Actors : backupPc[a] \in {"off", "idle"}
      /\ \A n \in Backup!Names : backups[n] = "none"
      /\ world = "whole" /\ backupPc["caller"] = "idle"
  BY DEF Backup!Init, Backup!Actors
<1>3. Backup!TypeOK
  BY <1>1, <1>2 DEF Backup!Init, Backup!TypeOK, Backup!Actors, Backup!Rest
<1> QED
  BY <1>2, <1>3
  DEF BackupInv, Alone, Timely, DoomedOld, LastKept, Restoring, Backup!WorldRecoverable,
      Backup!Rest, BackingUp

\* A step that changes no backup, begins none and does not turn the clock
\* back unnoticed.
LEMMA QuietKeeps ==
  ASSUME BackupInv, Backup!TypeOK', UNCHANGED <<backups, dest, intact, doomed, overlapped>>,
         now' >= now \/ setBack', setBack => setBack', fromPartial => fromPartial',
         \A a \in Backup!Actors : \/ backupPc'[a] \in {backupPc[a]} \cup Backup!Rest
                                  \/ backupPc[a] = "restore" /\ backupPc'[a] = "restoring",
         world' # "whole" => world # "whole", Restoring'
  PROVE  BackupInv'
<1>1. now \in Nat /\ now' \in Nat
  BY BackupNames DEF BackupInv, Backup!TypeOK
<1>2. Backup!Existing' = Backup!Existing
  BY DEF Backup!Existing
<1>3. Alone'
  BY DEF BackupInv, Alone, Backup!Rest
<1>4. Timely'
  <2> SUFFICES ASSUME ~setBack' PROVE Timely'
    BY DEF Timely
  <2>1. ~setBack /\ now' >= now
    OBVIOUS
  <2>2. \A n \in Backup!Names : n \in Nat
    BY BackupNames
  <2>3. \A n \in Backup!Names : n > now' => backups'[n] = "none"
    BY <1>1, <2>1, <2>2 DEF BackupInv, Timely
  <2>4. \A a \in Backup!Actors : backupPc'[a] = "copy" => backupPc[a] = "copy" /\ dest[a] \in Nat
    BY <2>2 DEF BackupInv, Backup!TypeOK, Backup!Rest
  <2>5. \A a \in Backup!Actors : backupPc'[a] = "copy" =>
          dest'[a] < now' \/ (dest'[a] = now' /\ backups'[now'] # "none")
    BY <1>1, <2>1, <2>4 DEF BackupInv, Timely
  <2> QED
    BY <2>3, <2>4, <2>5 DEF BackupInv, Timely
<1>5. DoomedOld'
  BY <1>2 DEF BackupInv, DoomedOld, Backup!Rest
<1>6. LastKept'
  BY DEF BackupInv, LastKept, BackingUp, Backup!Rest
<1>7. Backup!WorldRecoverable'
  BY <1>2 DEF BackupInv, Backup!WorldRecoverable
<1> QED
  BY <1>3, <1>4, <1>5, <1>6, <1>7 DEF BackupInv

\* Where an actor goes.
LEMMA BackupGoes ==
  ASSUME Backup!TypeOK, NEW a \in Backup!Actors, NEW to, Backup!Goes(a, to)
  PROVE  /\ backupPc'[a] = to /\ \A b \in Backup!Actors : b # a => backupPc'[b] = backupPc[b]
         /\ now' = now /\ backupDead' = backupDead /\ setBack' = setBack
         /\ backupPc' = [backupPc EXCEPT ![a] = to]
BY DEF Backup!Goes, Backup!TypeOK

\* The calls of the owner, the clock, and the ends of operations.
LEMMA OwnerKeeps ==
  ASSUME BackupInv,
         \/ Backup!StartAutoBackup \/ Backup!StopStores \/ Backup!StopJoins
         \/ Backup!LoopStops \/ Backup!Tick \/ Backup!SetsBack
  PROVE  BackupInv'
<1>0. /\ MaxTime \in Nat /\ Backup!Names = 1..MaxTime /\ now \in Nat /\ now \in Backup!Names
      /\ {"loop", "caller"} = Backup!Actors
  BY BackupNames DEF BackupInv, Backup!TypeOK, Backup!Actors
<1>1. CASE Backup!StartAutoBackup
  <2>1. /\ UNCHANGED <<now, world, backups, dest, intact, doomed, setBack, overlapped,
                       fromPartial>>
        /\ backupPc["caller"] = "idle" /\ autoRunning' \in BOOLEAN /\ backupDead' \in BOOLEAN
        /\ \/ backupPc' = backupPc
           \/ backupPc' = [backupPc EXCEPT !["loop"] = "sleep"]
    BY <1>1 DEF Backup!StartAutoBackup, Backup!diskVars
  <2>2. Backup!TypeOK'
    BY <2>1 DEF BackupInv, Backup!TypeOK, Backup!Rest, Backup!Actors
  <2>3. Restoring'
    BY <2>1 DEF BackupInv, Backup!TypeOK, Backup!Actors, Restoring
  <2> QED
    BY <1>0, <2>1, <2>2, <2>3, QuietKeeps DEF BackupInv, Backup!TypeOK, Backup!Rest
<1>2. CASE Backup!StopStores \/ Backup!LoopStops
  <2>1. /\ UNCHANGED <<now, world, backups, dest, intact, doomed, setBack, overlapped,
                       fromPartial>>
        /\ autoRunning' \in BOOLEAN /\ backupDead' \in BOOLEAN
        /\ \E a \in Backup!Actors, to \in {"join", "ended"} :
             backupPc' = [backupPc EXCEPT ![a] = to]
    BY <1>0, <1>2
    DEF Backup!StopStores, Backup!LoopStops, Backup!Goes, Backup!diskVars, BackupInv,
        Backup!TypeOK
  <2>2. Backup!TypeOK'
    BY <2>1 DEF BackupInv, Backup!TypeOK, Backup!Rest, Backup!Actors
  <2>3. Restoring'
    BY <2>1 DEF BackupInv, Backup!TypeOK, Backup!Actors, Restoring
  <2> QED
    BY <1>0, <2>1, <2>2, <2>3, QuietKeeps DEF BackupInv, Backup!TypeOK, Backup!Rest
<1>3. CASE Backup!StopJoins
  <2>1. /\ UNCHANGED <<now, world, backups, dest, intact, doomed, setBack, overlapped,
                       fromPartial>>
        /\ autoRunning' \in BOOLEAN /\ backupDead' \in BOOLEAN
        /\ backupPc' = [loop |-> "off", caller |-> "idle"]
    BY <1>3 DEF Backup!StopJoins, Backup!diskVars, BackupInv, Backup!TypeOK
  <2>2. backupPc' \in [Backup!Actors -> Backup!Rest] /\ backupPc'["caller"] = "idle"
    BY <2>1 DEF Backup!Actors, Backup!Rest
  <2>3. Backup!TypeOK'
    BY <2>1, <2>2 DEF BackupInv, Backup!TypeOK, Backup!Rest
  <2> QED
    BY <1>0, <2>1, <2>2, <2>3, QuietKeeps DEF BackupInv, Restoring
<1>4. CASE Backup!Tick \/ Backup!SetsBack
  <2>1. /\ UNCHANGED <<world, backups, backupPc, dest, intact, doomed, overlapped, fromPartial,
                       autoRunning, backupDead>>
        /\ \/ now < MaxTime /\ now' = now + 1 /\ setBack' = setBack
           \/ now > 1 /\ now' = now - 1 /\ setBack' = TRUE
    BY <1>4 DEF Backup!Tick, Backup!SetsBack, Backup!diskVars, Backup!actorVars
  <2>3. now' \in Backup!Names /\ (now' >= now \/ setBack')
    BY <1>0, <2>1
  <2>4. setBack' \in BOOLEAN /\ (setBack => setBack')
    <3>1. setBack \in BOOLEAN
      BY DEF BackupInv, Backup!TypeOK
    <3>2. setBack' = setBack \/ setBack' = TRUE
      BY <2>1
    <3> QED
      BY <3>1, <3>2
  <2>2. Backup!TypeOK'
    BY <2>1, <2>3, <2>4 DEF BackupInv, Backup!TypeOK
  <2> QED
    BY <2>1, <2>2, <2>3, <2>4, QuietKeeps DEF BackupInv, Restoring
<1> QED
  BY <1>1, <1>2, <1>3, <1>4

\* A restore copies, or not; a backup fails, or is reported.
LEMMA EndsKeep ==
  ASSUME BackupInv,
         \/ Backup!RestoreCopies \/ Backup!RestoreEnds
         \/ \E a \in Backup!Actors : Backup!CopyFails(a) \/ Backup!Reports(a)
  PROVE  BackupInv'
<1>0. now \in Nat /\ "caller" \in Backup!Actors
  BY BackupNames DEF BackupInv, Backup!TypeOK, Backup!Actors
<1>1. ASSUME NEW a \in Backup!Actors, Backup!CopyFails(a) \/ Backup!Reports(a)
      PROVE  BackupInv'
  <2>1. /\ UNCHANGED <<now, world, backups, dest, intact, doomed, setBack, overlapped,
                       fromPartial>>
        /\ autoRunning' = autoRunning /\ backupDead' = backupDead
        /\ backupPc' = [backupPc EXCEPT ![a] = Backup!Done(a)]
        /\ Backup!Done(a) \in {"sleep", "idle"}
    BY <1>1
    DEF Backup!CopyFails, Backup!Reports, Backup!Goes, Backup!diskVars, Backup!Done
  <2>2. Backup!TypeOK'
    BY <2>1 DEF BackupInv, Backup!TypeOK, Backup!Rest
  <2>3. Restoring'
    BY <1>0, <2>1 DEF BackupInv, Backup!TypeOK, Restoring
  <2> QED
    BY <1>0, <2>1, <2>2, <2>3, QuietKeeps DEF BackupInv, Backup!TypeOK, Backup!Rest
<1>2. CASE Backup!RestoreCopies
  <2>1. /\ UNCHANGED <<now, backups, dest, intact, doomed, setBack, overlapped, fromPartial>>
        /\ autoRunning' = autoRunning /\ backupDead' = backupDead
        /\ backupPc["caller"] = "restore"
        /\ \/ backupPc' = [backupPc EXCEPT !["caller"] = "idle"] /\ world' = world
           \/ backupPc' = [backupPc EXCEPT !["caller"] = "restoring"] /\ world' = "partial"
    BY <1>2 DEF Backup!RestoreCopies, Backup!Goes
  <2>2. Backup!TypeOK'
    BY <2>1 DEF BackupInv, Backup!TypeOK, Backup!Rest
  <2>3. Restoring' /\ world # "whole"
    BY <1>0, <2>1 DEF BackupInv, Backup!TypeOK, Restoring
  <2> QED
    BY <1>0, <2>1, <2>2, <2>3, QuietKeeps DEF BackupInv, Backup!TypeOK, Backup!Rest
<1>3. CASE Backup!RestoreEnds
  <2>1. /\ UNCHANGED <<now, backups, dest, intact, doomed, setBack, overlapped, fromPartial>>
        /\ autoRunning' = autoRunning /\ backupDead' = backupDead
        /\ backupPc["caller"] = "restoring"
        /\ backupPc' = [backupPc EXCEPT !["caller"] = "idle"]
        /\ world' \in {"partial", "whole"}
    BY <1>0, <1>3 DEF Backup!RestoreEnds, Backup!Goes, BackupInv, Backup!TypeOK
  <2>2. Backup!TypeOK'
    BY <2>1 DEF BackupInv, Backup!TypeOK, Backup!Rest
  <2>3. Restoring' /\ world # "whole"
    BY <1>0, <2>1 DEF BackupInv, Backup!TypeOK, Restoring
  <2> QED
    BY <1>0, <2>1, <2>2, <2>3, QuietKeeps DEF BackupInv, Backup!TypeOK, Backup!Rest
<1> QED
  BY <1>1, <1>2, <1>3

\* A backup begins under a name that no other has.
LEMMA BeginsKeeps ==
  ASSUME BackupInv, NEW a \in Backup!Actors, Backup!Begins(a)
  PROVE  BackupInv'
<1>0. /\ MaxBackups \in Nat /\ now \in Nat /\ now \in Backup!Names /\ Backup!Names \subseteq Nat
      /\ now' = now /\ setBack' = setBack /\ backupDead' = backupDead
      /\ UNCHANGED <<world, doomed, autoRunning, fromPartial>>
      /\ backupPc[a] = Backup!Done(a) /\ Backup!Done(a) \in Backup!Rest /\ Backup!Done(a) # "join"
  BY BackupNames
  DEF BackupInv, Backup!TypeOK, Backup!Begins, Backup!Ready, Backup!Goes, Backup!Done,
      Backup!Rest
<1>1. overlapped' = (overlapped \/ \E b, c \in Backup!Actors :
                                     /\ b # c /\ backupPc'[b] \notin Backup!Rest
                                     /\ backupPc'[c] \notin Backup!Rest)
  BY DEF Backup!Begins, Backup!Overlaps
<1>2. overlapped \in BOOLEAN /\ overlapped' \in BOOLEAN /\ setBack \in BOOLEAN
  BY <1>1 DEF BackupInv, Backup!TypeOK
<1>3. CASE Backup!Taken \/ world = "absent"
  <2>1. backupPc' = backupPc /\ UNCHANGED <<backups, dest, intact>>
    BY <1>0, <1>3 DEF Backup!Begins, Backup!Goes, BackupInv, Backup!TypeOK
  <2>2. overlapped' = overlapped
    BY <1>1, <1>2, <2>1 DEF BackupInv, Alone
  <2>3. Backup!TypeOK'
    BY <1>0, <2>1, <2>2 DEF BackupInv, Backup!TypeOK
  <2>4. Restoring'
    BY <1>0, <2>1 DEF BackupInv, Restoring
  <2> QED
    BY <1>0, <2>1, <2>2, <2>3, <2>4, QuietKeeps DEF BackupInv
<1>4. CASE ~(Backup!Taken \/ world = "absent")
  <2>1. /\ backups[now] = "none"
        /\ backupPc' = [backupPc EXCEPT ![a] = "copy"] /\ dest' = [dest EXCEPT ![a] = now]
        /\ backups' = [backups EXCEPT ![now] = "partial"]
        /\ intact' = [intact EXCEPT ![a] = world = "whole"]
    BY <1>4 DEF Backup!Begins, Backup!Goes, Backup!Taken
  <2>2. /\ backupPc'[a] = "copy" /\ dest'[a] = now /\ backups'[now] = "partial"
        /\ \A b \in Backup!Actors : b # a => /\ backupPc'[b] = backupPc[b] /\ dest'[b] = dest[b]
                                             /\ intact'[b] = intact[b]
        /\ \A n \in Backup!Names : n # now => backups'[n] = backups[n]
        /\ \A b \in Backup!Actors : dest[b] \in Backup!Names /\ dest'[b] \in Backup!Names
    BY <1>0, <2>1 DEF BackupInv, Backup!TypeOK
  <2>3. Backup!TypeOK'
    BY <1>0, <1>2, <2>1, <2>2 DEF BackupInv, Backup!TypeOK
  <2>4. Alone'
    BY <1>1 DEF Alone
  <2>5. Timely'
    <3> SUFFICES ASSUME ~setBack PROVE Timely'
      BY <1>0 DEF Timely
    <3>1. \A b \in Backup!Actors : b # a /\ backupPc'[b] = "copy" => dest'[b] < now
      BY <2>1, <2>2 DEF BackupInv, Timely
    <3>2. \A n \in Backup!Names : n > now => backups'[n] = "none"
      BY <1>0, <2>2 DEF BackupInv, Timely
    <3>3. \A b, c \in Backup!Actors : backupPc'[b] = "copy" /\ backupPc'[c] = "copy" /\ b # c
                                         => dest'[b] # dest'[c]
      BY <1>0, <2>2, <3>1 DEF BackupInv, Timely
    <3>4. \A b \in Backup!Actors : backupPc'[b] = "copy" =>
            dest'[b] < now' \/ (dest'[b] = now' /\ backups'[now'] # "none")
      BY <1>0, <2>2, <3>1
    <3> QED
      BY <1>0, <3>2, <3>3, <3>4 DEF Timely
  <2>6. Backup!Existing \subseteq Backup!Existing' /\ Backup!Existing' \subseteq Backup!Names
    BY <2>1, <2>2 DEF Backup!Existing
  <2>7. DoomedOld'
    <3> SUFFICES ASSUME NEW b \in Backup!Actors, backupPc'[b] = "remove", NEW n \in doomed[b]
                 PROVE  Cardinality(Newer(Backup!Existing', n)) >= MaxBackups
      BY <1>0 DEF DoomedOld, Newer
    <3>1. Cardinality(Newer(Backup!Existing, n)) >= MaxBackups
      BY <2>2 DEF BackupInv, DoomedOld
    <3>2. Newer(Backup!Existing, n) \subseteq Newer(Backup!Existing', n)
      BY <2>6 DEF Newer
    <3>3. /\ IsFiniteSet(Newer(Backup!Existing', n))
          /\ Cardinality(Newer(Backup!Existing', n)) \in Nat
          /\ Cardinality(Newer(Backup!Existing, n)) \in Nat
      BY <2>6, NewerFinite
    <3>4. Cardinality(Newer(Backup!Existing, n)) <= Cardinality(Newer(Backup!Existing', n))
      BY <3>2, <3>3, FS_Subset
    <3> QED
      BY <1>0, <3>1, <3>3, <3>4
  <2>8. LastKept'
    <3> SUFFICES ASSUME ~setBack, ~overlapped' PROVE LastKept'
      BY <1>0 DEF LastKept
    <3>1. \A b \in Backup!Actors : b # a => backupPc'[b] \in Backup!Rest
      BY <1>1, <2>2 DEF Backup!Rest
    <3>2. \A n \in Backup!Names : n > dest'[a] => backups'[n] = "none"
      BY <1>0, <2>2 DEF BackupInv, Timely
    <3> QED
      BY <2>2, <3>1, <3>2 DEF LastKept, BackingUp, Backup!Rest
  <2>9. Restoring'
    BY <1>0, <2>2 DEF BackupInv, Restoring, Backup!Actors
  <2>10. Backup!WorldRecoverable'
    <3>1. Cardinality(Backup!Existing) <= Cardinality(Backup!Existing')
      BY <2>6, NewerFinite, FS_Subset
    <3>2. Cardinality(Backup!Existing) \in Nat /\ Cardinality(Backup!Existing') \in Nat
      BY <2>6, NewerFinite
    <3>3. \A n \in Backup!Names : backups[n] = "whole" => backups'[n] = "whole"
      BY <2>1, <2>2
    <3>4. overlapped => overlapped'
      BY <1>1
    <3> QED
      BY <1>0, <3>1, <3>2, <3>3, <3>4, BackupCardinality DEF BackupInv, Backup!WorldRecoverable
  <2> QED
    BY <2>3, <2>4, <2>5, <2>7, <2>8, <2>9, <2>10 DEF BackupInv
<1> QED
  BY <1>3, <1>4

\* A copy ends: what was begun is whole, if the world was all the time.
LEMMA CopyEndsKeeps ==
  ASSUME BackupInv, NEW a \in Backup!Actors, Backup!CopyEnds(a)
  PROVE  BackupInv'
<1>0. /\ now \in Nat /\ now' = now /\ setBack' = setBack /\ backupDead' = backupDead
      /\ UNCHANGED <<world, dest, intact, doomed, autoRunning, overlapped, fromPartial>>
      /\ backupPc[a] = "copy" /\ backups[dest[a]] # "none" /\ Backup!Names \subseteq Nat
      /\ backupPc'[a] = "list"
      /\ \A b \in Backup!Actors : b # a => backupPc'[b] = backupPc[b]
      /\ backupPc' = [backupPc EXCEPT ![a] = "list"]
      /\ \A b \in Backup!Actors : dest[b] \in Backup!Names
  BY BackupNames, BackupGoes DEF BackupInv, Backup!TypeOK, Backup!CopyEnds, Backup!Goes
<1>1. /\ backups' \in [Backup!Names -> {"none", "partial", "whole"}]
      /\ \A n \in Backup!Names : n # dest[a] => backups'[n] = backups[n]
      /\ backups'[dest[a]] = IF intact[a] THEN "whole" ELSE backups[dest[a]]
  BY <1>0 DEF BackupInv, Backup!TypeOK, Backup!CopyEnds
<1>2. Backup!Existing' = Backup!Existing
  BY <1>0, <1>1 DEF Backup!Existing
<1>3. Backup!TypeOK'
  <2>1. \A b \in Backup!Actors :
          backupPc'[b] = "copy" /\ ~setBack' => backups'[dest'[b]] # "whole"
    <3> SUFFICES ASSUME NEW b \in Backup!Actors, backupPc'[b] = "copy", ~setBack
                 PROVE  backups'[dest[b]] # "whole"
      BY <1>0
    <3>1. b # a /\ backupPc[b] = "copy"
      BY <1>0
    <3>2. dest[b] # dest[a]
      BY <1>0, <3>1 DEF BackupInv, Timely
    <3>3. backups[dest[b]] # "whole"
      BY <3>1 DEF BackupInv, Backup!TypeOK
    <3> QED
      BY <1>0, <1>1, <3>2, <3>3
  <2> QED
    BY <1>0, <1>1, <2>1 DEF BackupInv, Backup!TypeOK
<1>4. Alone'
  BY <1>0 DEF BackupInv, Alone, Backup!Rest
<1>5. Timely'
  <2>1. \A n \in Backup!Names : backups[n] = "none" <=> backups'[n] = "none"
    BY <1>0, <1>1
  <2>2. now \in Backup!Names
    BY DEF BackupInv, Backup!TypeOK
  <2>3. \A b \in Backup!Actors : backupPc'[b] = "copy" => backupPc[b] = "copy"
    BY <1>0
  <2> QED
    BY <1>0, <2>1, <2>2, <2>3 DEF BackupInv, Timely
<1>6. DoomedOld'
  BY <1>0, <1>2 DEF BackupInv, DoomedOld
<1>7. LastKept'
  <2> SUFFICES ASSUME ~setBack, ~overlapped PROVE LastKept'
    BY <1>0 DEF LastKept
  <2>1. \A b \in Backup!Actors : b # a => backupPc'[b] \in Backup!Rest
    BY <1>0 DEF BackupInv, Alone, Backup!Rest
  <2>2. \A n \in Backup!Names : n > dest[a] => backups[n] = "none"
    BY <1>0 DEF BackupInv, LastKept, BackingUp
  <2>3. backups[dest[a]] = "partial"
    BY <1>0 DEF BackupInv, LastKept
  <2>4. \A n \in Backup!Names : n > dest[a] => backups'[n] = "none"
    BY <1>0, <1>1, <2>2
  <2> QED
    BY <1>0, <1>1, <2>1, <2>3, <2>4 DEF LastKept, BackingUp, Backup!Rest
<1>8. Restoring'
  BY <1>0 DEF BackupInv, Restoring, Backup!Actors
<1>9. Backup!WorldRecoverable'
  <2>1. \A n \in Backup!Names : backups[n] = "whole" => backups'[n] = "whole"
    BY <1>0, <1>1
  <2> QED
    BY <1>0, <1>2, <2>1 DEF BackupInv, Backup!WorldRecoverable
<1> QED
  BY <1>3, <1>4, <1>5, <1>6, <1>7, <1>8, <1>9 DEF BackupInv

\* CleanupOldBackups chooses what has maxBackups_ newer ones.
LEMMA ListsKeeps ==
  ASSUME BackupInv, NEW a \in Backup!Actors, Backup!Lists(a)
  PROVE  BackupInv'
<1>0. /\ now \in Nat /\ now' = now /\ setBack' = setBack /\ backupDead' = backupDead
      /\ UNCHANGED <<world, backups, dest, intact, autoRunning, overlapped, fromPartial>>
      /\ backupPc[a] = "list" /\ backupPc'[a] = "remove"
      /\ \A b \in Backup!Actors : b # a => backupPc'[b] = backupPc[b]
      /\ backupPc' = [backupPc EXCEPT ![a] = "remove"]
      /\ doomed' = [doomed EXCEPT ![a] = Backup!Oldest(Backup!Existing)]
  BY BackupNames, BackupGoes
  DEF BackupInv, Backup!TypeOK, Backup!Lists, Backup!Goes, Backup!diskVars
<1>1. Backup!Oldest(Backup!Existing) \in SUBSET Backup!Names
  BY ExistingNames DEF Backup!Oldest
<1>2. \A n \in Backup!Oldest(Backup!Existing) :
        Cardinality(Newer(Backup!Existing, n)) >= MaxBackups
  BY BackupCardinality DEF Backup!Oldest, Newer
<1>3. Backup!Existing' = Backup!Existing
  BY <1>0 DEF Backup!Existing
<1>4. Backup!TypeOK'
  BY <1>0, <1>1 DEF BackupInv, Backup!TypeOK
<1>5. Alone'
  BY <1>0 DEF BackupInv, Alone, Backup!Rest
<1>6. Timely'
  BY <1>0 DEF BackupInv, Timely
<1>7. DoomedOld'
  <2>1. doomed'[a] = Backup!Oldest(Backup!Existing)
        /\ \A b \in Backup!Actors : b # a => doomed'[b] = doomed[b]
    BY <1>0 DEF BackupInv, Backup!TypeOK
  <2> QED
    BY <1>0, <1>2, <1>3, <2>1 DEF BackupInv, DoomedOld
<1>8. LastKept'
  BY <1>0 DEF BackupInv, LastKept, BackingUp
<1>9. Restoring'
  BY <1>0 DEF BackupInv, Restoring, Backup!Actors
<1>10. Backup!WorldRecoverable'
  BY <1>0, <1>3 DEF BackupInv, Backup!WorldRecoverable
<1> QED
  BY <1>4, <1>5, <1>6, <1>7, <1>8, <1>9, <1>10 DEF BackupInv

\* What is removed, wholly or in part, has maxBackups_ newer ones that stay:
\* not the last backup, and not the one that is being copied.
LEMMA RemovesKeeps ==
  ASSUME BackupInv, NEW a \in Backup!Actors, Backup!Removes(a) \/ Backup!RemoveFails(a)
  PROVE  BackupInv'
<1>0. /\ MaxBackups \in Nat \ {0} /\ now \in Nat /\ now' = now /\ setBack' = setBack
      /\ backupDead' = backupDead /\ Backup!Names \subseteq Nat
      /\ UNCHANGED <<world, dest, intact, autoRunning, overlapped, fromPartial>>
      /\ doomed' = [doomed EXCEPT ![a] = {}] /\ doomed' \in [Backup!Actors -> SUBSET Backup!Names]
      /\ \A b \in Backup!Actors : b # a => doomed'[b] = doomed[b]
      /\ backupPc[a] = "remove" /\ backupPc'[a] \in {"report", "sleep", "idle"}
      /\ \A b \in Backup!Actors : b # a => backupPc'[b] = backupPc[b]
      /\ backupPc' = [backupPc EXCEPT ![a] = backupPc'[a]]
      /\ \A b \in Backup!Actors : dest[b] \in Backup!Names /\ doomed[b] \subseteq Backup!Names
  BY BackupNames, BackupGoes
  DEF BackupInv, Backup!TypeOK, Backup!Removes, Backup!RemoveFails, Backup!Done
<1>b. /\ backups' \in [Backup!Names -> {"none", "partial", "whole"}]
      /\ \A n \in Backup!Names : n \notin doomed[a] => backups'[n] = backups[n]
      /\ \A n \in Backup!Names : backups'[n] \in {"none", "partial", backups[n]}
      /\ \A n \in Backup!Names : backups[n] = "none" => backups'[n] = "none"
  <2>1. CASE Backup!Removes(a)
    BY <2>1 DEF BackupInv, Backup!TypeOK, Backup!Removes
  <2>2. CASE Backup!RemoveFails(a)
    <3>1. PICK n \in doomed[a] \cap Backup!Existing, left \in {"partial", "whole"} :
            /\ left \in {"partial", backups[n]}
            /\ backups' = [m \in Backup!Names |-> IF m = n THEN left
                              ELSE IF m \in doomed[a] /\ m < n THEN "none" ELSE backups[m]]
      BY <2>2 DEF Backup!RemoveFails
    <3>2. n \in Backup!Names /\ backups[n] # "none"
      BY DEF Backup!Existing
    <3> QED
      BY <3>1, <3>2 DEF BackupInv, Backup!TypeOK
  <2> QED
    BY <2>1, <2>2
<1> DEFINE D == {n \in Backup!Existing : backups'[n] = "none"}
<1>1. Backup!Existing' = Backup!Existing \ D /\ Backup!Existing' \subseteq Backup!Names
  BY <1>b DEF Backup!Existing
<1>2. \A n \in doomed[a] : Cardinality(Newer(Backup!Existing, n)) >= MaxBackups
  BY <1>0 DEF BackupInv, DoomedOld
<1>d. D \subseteq doomed[a] /\ D \subseteq Backup!Names
  BY <1>b DEF Backup!Existing
<1>3. \A n \in Backup!Names : Cardinality(Newer(Backup!Existing, n)) >= MaxBackups =>
        Cardinality(Newer(Backup!Existing', n)) >= MaxBackups
  <2> TAKE n \in Backup!Names
  <2> HIDE DEF D
  <2> QED
    BY <1>0, <1>1, <1>2, <1>d, ExistingNames, NewestSurvive
<1>4. \A n \in Backup!Names :
        (\A m \in Backup!Names : m > n => backups[m] = "none") => n \notin doomed[a]
  <2> SUFFICES ASSUME NEW n \in Backup!Names, n \in doomed[a],
                      \A m \in Backup!Names : m > n => backups[m] = "none"
               PROVE  FALSE
    OBVIOUS
  <2>1. Newer(Backup!Existing, n) = {}
    BY DEF Newer, Backup!Existing
  <2>2. 0 >= MaxBackups
    <3>1. Cardinality(Newer(Backup!Existing, n)) >= MaxBackups
      BY <1>2
    <3> QED
      BY <2>1, <3>1, FS_EmptySet
  <2> QED
    BY <1>0, <2>2
<1> HIDE DEF D
<1>6. Backup!TypeOK'
  <2>1. \A b \in Backup!Actors : backupPc'[b] = "copy" /\ ~setBack => backups'[dest[b]] # "whole"
    <3> SUFFICES ASSUME NEW b \in Backup!Actors, backupPc'[b] = "copy", ~setBack
                 PROVE  backups'[dest[b]] # "whole"
      OBVIOUS
    <3>1. b # a /\ backupPc[b] = "copy"
      BY <1>0
    <3>2. backups[dest[b]] # "whole"
      BY <3>1 DEF BackupInv, Backup!TypeOK
    <3>3. dest[b] \in Backup!Names
      BY <1>0
    <3>4. backups'[dest[b]] \in {"none", "partial", backups[dest[b]]}
      BY <1>b, <3>3
    <3> QED
      BY <3>2, <3>4
  <2> QED
    BY <1>0, <1>b, <2>1 DEF BackupInv, Backup!TypeOK, Backup!Rest
<1>7. Alone'
  BY <1>0 DEF BackupInv, Alone, Backup!Rest
<1>8. Timely'
  <2> SUFFICES ASSUME ~setBack PROVE Timely'
    BY <1>0 DEF Timely
  <2>1. now \in Backup!Names /\ \A n \in Backup!Names : n > now => backups[n] = "none"
    BY DEF BackupInv, Backup!TypeOK, Timely
  <2>2. backups'[now] = backups[now]
    BY <1>4, <1>b, <2>1
  <2>3. \A n \in Backup!Names : n > now => backups'[n] = "none"
    BY <1>b, <2>1
  <2>4. \A b \in Backup!Actors : backupPc'[b] = "copy" => backupPc[b] = "copy"
    BY <1>0
  <2> QED
    BY <1>0, <2>2, <2>3, <2>4 DEF BackupInv, Timely
<1>9. DoomedOld'
  <2> SUFFICES ASSUME NEW b \in Backup!Actors, backupPc'[b] = "remove", NEW n \in doomed[b]
               PROVE  Cardinality(Newer(Backup!Existing', n)) >= MaxBackups
    BY <1>0 DEF DoomedOld, Newer
  <2>1. Cardinality(Newer(Backup!Existing, n)) >= MaxBackups
    BY <1>0 DEF BackupInv, DoomedOld
  <2> QED
    BY <1>0, <1>3, <2>1
<1>10. LastKept'
  <2> SUFFICES ASSUME ~setBack, ~overlapped PROVE LastKept'
    BY <1>0 DEF LastKept
  <2>1. \A b \in Backup!Actors : b # a => backupPc'[b] \in Backup!Rest
    BY <1>0 DEF BackupInv, Alone, Backup!Rest
  <2>2. \A n \in Backup!Names : n > dest[a] => backups[n] = "none"
    BY <1>0 DEF BackupInv, LastKept, BackingUp
  <2>3. backups[dest[a]] = IF intact[a] THEN "whole" ELSE "partial"
    BY <1>0 DEF BackupInv, LastKept, BackingUp
  <2>4. \A n \in Backup!Names : n > dest[a] => backups'[n] = "none"
    BY <1>b, <2>2
  <2>5. backups'[dest[a]] = backups[dest[a]]
    BY <1>0, <1>4, <1>b, <2>2
  <2> QED
    BY <1>0, <2>1, <2>3, <2>4, <2>5 DEF LastKept, BackingUp, Backup!Rest
<1>11. Restoring'
  BY <1>0 DEF BackupInv, Restoring, Backup!Actors
<1>12. Backup!WorldRecoverable'
  <2>1. IsFiniteSet(Backup!Existing') /\ Cardinality(Backup!Existing') \in Nat
    BY <1>1, NewerFinite
  <2>2. ASSUME NEW n \in doomed[a] PROVE Cardinality(Backup!Existing') >= MaxBackups
    <3>1. n \in Backup!Names
      BY <1>0
    <3>2. Cardinality(Newer(Backup!Existing', n)) >= MaxBackups
      BY <1>2, <1>3, <3>1
    <3>3. Newer(Backup!Existing', n) \subseteq Backup!Existing'
      BY DEF Newer
    <3>4. /\ Cardinality(Newer(Backup!Existing', n)) <= Cardinality(Backup!Existing')
          /\ Cardinality(Newer(Backup!Existing', n)) \in Nat
      BY <1>1, <2>1, <3>3, FS_Subset, NewerFinite
    <3> QED
      BY <1>0, <2>1, <3>2, <3>4
  <2>3. CASE doomed[a] = {}
    <3>1. \A n \in Backup!Names : backups'[n] = backups[n]
      BY <1>b, <2>3
    <3>2. Backup!Existing' = Backup!Existing
      BY <3>1 DEF Backup!Existing
    <3> QED
      BY <1>0, <3>1, <3>2 DEF BackupInv, Backup!WorldRecoverable
  <2>4. CASE doomed[a] # {}
    BY <2>2, <2>4, BackupCardinality DEF Backup!WorldRecoverable
  <2> QED
    BY <2>3, <2>4
<1> QED
  BY <1>6, <1>7, <1>8, <1>9, <1>10, <1>11, <1>12 DEF BackupInv

\* A restore begins with the removal of the world.
LEMMA RestoreKeeps ==
  ASSUME BackupInv, NEW n \in Backup!Names, Backup!RestoreRemoves(n)
  PROVE  BackupInv'
<1>0. /\ now' = now /\ setBack' = setBack /\ backupDead' = backupDead
      /\ UNCHANGED <<backups, doomed, autoRunning>>
      /\ world' = "absent" /\ backups[n] # "none"
      /\ fromPartial' = (fromPartial \/ backups[n] = "partial")
      /\ intact' = [a \in Backup!Actors |-> FALSE] /\ dest' = [dest EXCEPT !["caller"] = n]
      /\ backupPc["caller"] = "idle" /\ "caller" \in Backup!Actors
      /\ backupPc'["caller"] = "restore"
      /\ \A b \in Backup!Actors : b # "caller" => backupPc'[b] = backupPc[b]
      /\ backupPc' = [backupPc EXCEPT !["caller"] = "restore"]
  BY BackupGoes
  DEF BackupInv, Backup!TypeOK, Backup!RestoreRemoves, Backup!Goes, Backup!Existing,
      Backup!Actors
<1>1. overlapped' = (overlapped \/ \E b, c \in Backup!Actors :
                                     /\ b # c /\ backupPc'[b] \notin Backup!Rest
                                     /\ backupPc'[c] \notin Backup!Rest)
  BY DEF Backup!RestoreRemoves, Backup!Overlaps
<1>2. overlapped' \in BOOLEAN /\ fromPartial' \in BOOLEAN
  BY <1>0, <1>1 DEF BackupInv, Backup!TypeOK
<1>3. dest' \in [Backup!Actors -> Backup!Names]
      /\ \A b \in Backup!Actors : b # "caller" => dest'[b] = dest[b]
  BY <1>0 DEF BackupInv, Backup!TypeOK
<1>4. \A b \in Backup!Actors : backupPc'[b] = "copy" => b # "caller" /\ backupPc[b] = "copy"
  BY <1>0
<1>5. Backup!Existing' = Backup!Existing
  BY <1>0 DEF Backup!Existing
<1>6. Backup!TypeOK'
  <2>1. \A b \in Backup!Actors :
          backupPc'[b] = "copy" /\ ~setBack' => backups'[dest'[b]] # "whole"
    BY <1>0, <1>3, <1>4 DEF BackupInv, Backup!TypeOK
  <2> QED
    BY <1>0, <1>2, <1>3, <2>1 DEF BackupInv, Backup!TypeOK
<1>7. Alone'
  BY <1>1 DEF Alone
<1>8. Timely'
  BY <1>0, <1>3, <1>4 DEF BackupInv, Timely
<1>9. DoomedOld'
  BY <1>0, <1>5 DEF BackupInv, DoomedOld
<1>10. LastKept'
  <2>1. ~overlapped' => \A b \in Backup!Actors : backupPc'[b] \notin BackingUp
    <3> SUFFICES ASSUME ~overlapped', NEW b \in Backup!Actors, backupPc'[b] \in BackingUp
                 PROVE  FALSE
      OBVIOUS
    <3>1. b # "caller"
      BY <1>0 DEF BackingUp
    <3>2. backupPc'[b] \notin Backup!Rest /\ backupPc'["caller"] \notin Backup!Rest
      BY <1>0 DEF BackingUp, Backup!Rest
    <3> QED
      BY <1>0, <1>1, <3>1, <3>2
  <2> QED
    BY <2>1 DEF LastKept, BackingUp
<1>11. Restoring'
  BY <1>0 DEF Restoring
<1>12. Backup!WorldRecoverable'
  BY <1>0 DEF BackupInv, Backup!TypeOK, Backup!WorldRecoverable
<1> QED
  BY <1>6, <1>7, <1>8, <1>9, <1>10, <1>11, <1>12 DEF BackupInv

\* A step of the owner, of an actor or of the clock, or none.
LEMMA BackupStepInv == BackupInv /\ [Backup!Next]_backupVars => BackupInv'
<1> SUFFICES ASSUME BackupInv, [Backup!Next]_backupVars PROVE BackupInv'
  OBVIOUS
<1>1. CASE UNCHANGED backupVars
  <2>1. now \in Nat
    BY BackupNames DEF BackupInv, Backup!TypeOK
  <2>2. Backup!TypeOK' /\ Restoring'
    BY <1>1 DEF backupVars, BackupInv, Backup!TypeOK, Restoring
  <2> QED
    BY <1>1, <2>1, <2>2, QuietKeeps DEF backupVars
<1>2. CASE Backup!Next
  <2>1. "loop" \in Backup!Actors /\ "caller" \in Backup!Actors
    BY DEF Backup!Actors
  <2>2. \/ Backup!StartAutoBackup \/ Backup!StopStores \/ Backup!StopJoins
        \/ Backup!LoopStops \/ Backup!Tick \/ Backup!SetsBack
        \/ Backup!RestoreCopies \/ Backup!RestoreEnds
        \/ \E a \in Backup!Actors : Backup!CopyFails(a) \/ Backup!Reports(a)
        \/ \E a \in Backup!Actors : Backup!Begins(a) \/ Backup!CopyEnds(a) \/ Backup!Lists(a)
                                    \/ Backup!Removes(a) \/ Backup!RemoveFails(a)
        \/ \E n \in Backup!Names : Backup!RestoreRemoves(n)
    BY <1>2, <2>1, Zenon DEF Backup!Next, Backup!LoopStep, Backup!ActorStep
  <2> QED
    BY <2>2, OwnerKeeps, EndsKeep, BeginsKeeps, CopyEndsKeeps, ListsKeeps, RemovesKeeps,
       RestoreKeeps
<1> QED
  BY <1>1, <1>2

\* What is reported was the last backup made, alone.
LEMMA BackupReported == BackupInv => Backup!ReportedExists
BY DEF BackupInv, Backup!ReportedExists, LastKept, BackingUp

\* Only CleanupOldBackups removes a backup.
LEMMA BackupRemoves ==
  ASSUME BackupInv, [Backup!Next]_backupVars,
         NEW n \in Backup!Names, backups[n] # "none", backups'[n] = "none"
  PROVE  Backup!Cardinality({m \in Backup!Existing : m > n}) >= MaxBackups
<1>1. PICK a \in Backup!Actors : Backup!Removes(a) \/ Backup!RemoveFails(a)
  <2>1. \/ UNCHANGED backups
        \/ \E a \in Backup!Actors : \/ Backup!Begins(a) \/ Backup!CopyEnds(a)
                                    \/ Backup!Removes(a) \/ Backup!RemoveFails(a)
    BY Zenon
    DEF Backup!Next, Backup!LoopStep, Backup!ActorStep, Backup!StartAutoBackup,
        Backup!StopStores, Backup!StopJoins, Backup!LoopStops, Backup!Tick, Backup!SetsBack,
        Backup!RestoreCopies, Backup!RestoreEnds, Backup!CopyFails, Backup!Reports,
        Backup!Lists, Backup!RestoreRemoves, Backup!diskVars, Backup!Actors, backupVars
  <2>2. \A a \in Backup!Actors : Backup!Begins(a) \/ Backup!CopyEnds(a) => backups'[n] # "none"
    BY DEF Backup!Begins, Backup!CopyEnds, BackupInv, Backup!TypeOK
  <2> QED
    BY <2>1, <2>2
<1>2. n \in doomed[a] /\ backupPc[a] = "remove"
  BY <1>1 DEF Backup!Removes, Backup!RemoveFails, BackupInv, Backup!TypeOK
<1> QED
  BY <1>2, BackupCardinality DEF BackupInv, DoomedOld, Newer

---------------------------------------------------------------------------
(* Codecs                                                                  *)

\* A number that has 32 bits, the number that 16 of its bits make, and the
\* numbers that two and four bytes make.
Fits(n) == n \div 16777216 < 256
Low(n) == n % 65536
Joined(b0, b1) == b0 + 256 * b1
JoinedAll(b0, b1, b2, b3) == Joined(b0, b1) + 65536 * Joined(b2, b3)

\* A number's bytes are bytes and make the number again.
LEMMA BytesMake ==
  ASSUME NEW n \in Nat
  PROVE  /\ Codec!Byte(n, 0) \in Nat /\ Codec!Byte(n, 1) \in Nat
         /\ Codec!Byte(n, 2) \in Nat /\ Codec!Byte(n, 3) \in Nat
         /\ Joined(Codec!Byte(n, 0), Codec!Byte(n, 1)) = Low(n) /\ Low(n) \in Nat
         /\ Fits(n) => n = JoinedAll(Codec!Byte(n, 0), Codec!Byte(n, 1), Codec!Byte(n, 2),
                                     Codec!Byte(n, 3))
<1>1. <<1, 256, 65536, 16777216>>[1] = 1 /\ <<1, 256, 65536, 16777216>>[2] = 256
      /\ <<1, 256, 65536, 16777216>>[3] = 65536 /\ <<1, 256, 65536, 16777216>>[4] = 16777216
  BY SMT
<1>2. n \div 1 = n
  BY SMT
<1>3. /\ Codec!Byte(n, 0) = n % 256 /\ Codec!Byte(n, 1) = (n \div 256) % 256
      /\ Codec!Byte(n, 2) = (n \div 65536) % 256 /\ Codec!Byte(n, 3) = (n \div 16777216) % 256
  BY SMT, <1>1, <1>2 DEF Codec!Byte
<1>4. /\ (n % 256) + 256 * ((n \div 256) % 256) = n % 65536
      /\ n % 256 \in Nat /\ (n \div 256) % 256 \in Nat
      /\ (n \div 65536) % 256 \in Nat /\ (n \div 16777216) % 256 \in Nat /\ n % 65536 \in Nat
  BY SMT
<1>5. ASSUME n \div 16777216 < 256
      PROVE  ((n \div 65536) % 256) + 256 * ((n \div 16777216) % 256) = n \div 65536
  <2>1. (n \div 16777216) % 256 = n \div 16777216
    BY SMT, <1>5
  <2>2. ((n \div 65536) % 256) + 256 * (n \div 16777216) = n \div 65536
    BY SMT
  <2> QED
    BY SMT, <2>1, <2>2
<1>6. n = (n % 65536) + 65536 * (n \div 65536)
  BY SMT
<1> QED
  BY SMT, <1>3, <1>4, <1>5, <1>6 DEF Joined, JoinedAll, Low, Fits

\* The bytes of a number, behind others, are read back as the number.
LEMMA FourReads ==
  ASSUME NEW n \in Nat, Fits(n), NEW s \in Seq(Nat), NEW i \in Nat,
         i + 4 <= Len(s), \A j \in 1..4 : s[i + j] = Codec!LittleEndian(n)[j]
  PROVE  Codec!Four(s, i + 1) = n
<1>1. /\ s[i + 1] = Codec!Byte(n, 0) /\ s[i + 2] = Codec!Byte(n, 1)
      /\ s[i + 3] = Codec!Byte(n, 2) /\ s[i + 4] = Codec!Byte(n, 3)
  BY DEF Codec!LittleEndian
<1>2. (i + 1) + 1 = i + 2 /\ (i + 1) + 2 = i + 3 /\ ((i + 1) + 2) + 1 = i + 4
  OBVIOUS
<1>3. Codec!Four(s, i + 1) = JoinedAll(s[i + 1], s[i + 2], s[i + 3], s[i + 4])
  BY <1>2 DEF Codec!Four, Codec!Two, Joined, JoinedAll
<1> QED
  BY <1>1, <1>3, BytesMake, Zenon

\* A number is written with four bytes.
LEMMA LittleEndianIs ==
  ASSUME NEW n \in Nat
  PROVE  Codec!LittleEndian(n) \in Seq(Nat) /\ Len(Codec!LittleEndian(n)) = 4
<1>1. /\ Codec!Byte(n, 0) \in Nat /\ Codec!Byte(n, 1) \in Nat
      /\ Codec!Byte(n, 2) \in Nat /\ Codec!Byte(n, 3) \in Nat
  BY BytesMake, Zenon
<1> QED
  BY <1>1 DEF Codec!LittleEndian

\* MCX: the size modulo 2^16 is decoded, when that much has arrived.
LEMMA McxDecodes ==
  ASSUME NEW n \in Nat, NEW len \in Nat
  PROVE  Codec!McxDeserialize(Codec!McxSerialize(n), len) =
           IF len >= 5 + Low(n) THEN Codec!Got("data", Low(n), Low(n)) ELSE Codec!Refused
<1> DEFINE h == Codec!McxSerialize(n)
<1>1. h[1] = 77 /\ h[2] = 1 /\ h[4] = Codec!Byte(n, 0) /\ h[5] = Codec!Byte(n, 1)
  BY DEF Codec!McxSerialize
<1>2. Codec!Two(h, 4) = Joined(h[4], h[5])
  BY DEF Codec!Two, Joined
<1>3. Codec!Two(h, 4) = Low(n) /\ Low(n) \in Nat
  BY <1>1, <1>2, BytesMake, Zenon
<1> HIDE DEF h
<1> QED
  BY <1>1, <1>3 DEF Codec!McxDeserialize, Codec!McxWhole, h

\* A sequence in front of another.
LEMMA InFront ==
  ASSUME NEW s \in Seq(Nat), NEW t \in Seq(Nat)
  PROVE  /\ s \o t \in Seq(Nat) /\ Len(s \o t) = Len(s) + Len(t)
         /\ \A i \in 1..Len(s) : (s \o t)[i] = s[i]
         /\ \A i \in 1..Len(t) : (s \o t)[Len(s) + i] = t[i]
OBVIOUS

\* An RCON packet begins with its length, and the two ints after it.
LEMMA RconHead ==
  ASSUME NEW m \in Nat, NEW h,
         h = Codec!LittleEndian(m) \o Codec!LittleEndian(1) \o Codec!LittleEndian(2)
  PROVE  h \in Seq(Nat) /\ Len(h) = 12 /\ \A j \in 1..4 : h[0 + j] = Codec!LittleEndian(m)[j]
<1>1. /\ Codec!LittleEndian(m) \in Seq(Nat) /\ Len(Codec!LittleEndian(m)) = 4
      /\ Codec!LittleEndian(1) \in Seq(Nat) /\ Len(Codec!LittleEndian(1)) = 4
      /\ Codec!LittleEndian(2) \in Seq(Nat) /\ Len(Codec!LittleEndian(2)) = 4
  BY LittleEndianIs
<1> DEFINE g == Codec!LittleEndian(m) \o Codec!LittleEndian(1)
<1>2. /\ g \in Seq(Nat) /\ Len(g) = Len(Codec!LittleEndian(m)) + Len(Codec!LittleEndian(1))
      /\ \A j \in 1..Len(Codec!LittleEndian(m)) : g[j] = Codec!LittleEndian(m)[j]
  BY <1>1, InFront, Zenon
<1>3. h = g \o Codec!LittleEndian(2)
  OBVIOUS
<1> HIDE DEF g
<1>4. /\ h \in Seq(Nat) /\ Len(h) = Len(g) + Len(Codec!LittleEndian(2))
      /\ \A j \in 1..Len(g) : h[j] = g[j]
  <2>1. LET f == g \o Codec!LittleEndian(2) IN
        /\ f \in Seq(Nat) /\ Len(f) = Len(g) + Len(Codec!LittleEndian(2))
        /\ \A j \in 1..Len(g) : f[j] = g[j]
    BY <1>1, <1>2, InFront, Zenon
  <2> QED
    BY <1>3, <2>1, Zenon
<1>5. Len(g) = 8 /\ Len(h) = 12
  <2>1. Len(g) = 4 + 4
    BY <1>1, <1>2, Zenon
  <2>2. Len(h) = (4 + 4) + 4
    BY <1>1, <1>4, <2>1, Zenon
  <2>3. 4 + 4 = 8 /\ (4 + 4) + 4 = 12
    OBVIOUS
  <2> QED
    BY <2>1, <2>2, <2>3, Zenon
<1>6. \A j \in 1..4 : j \in 1..8 /\ 0 + j = j
  OBVIOUS
<1> QED
  BY <1>1, <1>2, <1>4, <1>5, <1>6, Zenon

\* RCON: the size comes back, and of the payload what has arrived.
LEMMA RconDecodes ==
  ASSUME NEW n \in Nat, Fits(10 + n), NEW len \in Nat, len >= 12
  PROVE  Codec!RconReceive(Codec!RconSerialize(n), len) =
           Codec!Got("data", n, IF len - 12 < n THEN len - 12 ELSE n)
<1> DEFINE h == Codec!RconSerialize(n)
           m == 10 + n
<1>0. m \in Nat /\ Fits(m) /\ m - 8 = n + 2
  OBVIOUS
<1>1. h = Codec!LittleEndian(m) \o Codec!LittleEndian(1) \o Codec!LittleEndian(2)
  BY DEF Codec!RconSerialize
<1> HIDE DEF m, h
<1>2. h \in Seq(Nat) /\ Len(h) = 12 /\ \A j \in 1..4 : h[0 + j] = Codec!LittleEndian(m)[j]
  BY <1>0, <1>1, RconHead, Zenon
<1>3. Codec!Four(h, 1) = m
  <2>1. Codec!Four(h, 0 + 1) = m
    <3>1. 0 \in Nat /\ 0 + 4 <= Len(h)
      BY <1>2
    <3> QED
      BY <1>0, <1>2, <3>1, FourReads, Zenon
  <2> QED
    BY <2>1
<1>4. /\ ~(Codec!Four(h, 1) - 8 <= 0) /\ ~(Codec!Four(h, 1) - 8 < 2)
      /\ (Codec!Four(h, 1) - 8) - 2 = n /\ ~(len < 12)
  BY <1>0, <1>3
<1> QED
  BY <1>4 DEF Codec!RconReceive, Codec!RconPayload, h

\* What a WebSocket frame begins with: a byte, those of the length, the mask.
Framing(x, t) == (<<129>> \o x) \o t

LEMMA Framed ==
  ASSUME NEW x \in Seq(Nat), NEW t \in Seq(Nat)
  PROVE  /\ Len(Framing(x, t)) = (1 + Len(x)) + Len(t)
         /\ \A i \in 1..Len(x) : Framing(x, t)[1 + i] = x[i]
<1> DEFINE first == <<129>>
           g == first \o x
<1>1. first \in Seq(Nat) /\ Len(first) = 1
  OBVIOUS
<1>2. Framing(x, t) = g \o t
  BY DEF Framing
<1> HIDE DEF first
<1>3. /\ g \in Seq(Nat) /\ Len(g) = 1 + Len(x)
      /\ \A i \in 1..Len(x) : g[1 + i] = x[i]
  <2>1. /\ g \in Seq(Nat) /\ Len(g) = Len(first) + Len(x)
        /\ \A i \in 1..Len(x) : g[Len(first) + i] = x[i]
    BY <1>1, InFront, Zenon
  <2> QED
    BY <1>1, <2>1, Zenon
<1> HIDE DEF g
<1>4. Len(g \o t) = Len(g) + Len(t) /\ \A i \in 1..Len(g) : (g \o t)[i] = g[i]
  BY <1>3, InFront, Zenon
<1>5. \A i \in 1..Len(x) : 1 + i \in 1..(1 + Len(x))
  <2>1. Len(x) \in Nat
    OBVIOUS
  <2> QED
    BY <2>1
<1> QED
  BY <1>2, <1>3, <1>4, <1>5, Zenon

\* A short length is in the second byte; HandleClient receives at most 1024.
Short(n) == n < 126
Received(n) == n <= 1024
Mask(mask) == IF mask THEN 128 ELSE 0
Key(mask) == IF mask THEN <<7, 7, 7, 7>> ELSE <<>>
Marked(mask) == Mask(mask) + 126

LEMMA KeyIs ==
  ASSUME NEW mask \in BOOLEAN
  PROVE  /\ Key(mask) \in Seq(Nat) /\ Len(Key(mask)) = IF mask THEN 4 ELSE 0
         /\ Len(Key(mask)) \in Nat /\ Mask(mask) \in Nat
BY DEF Key, Mask

\* A length below 126 is in the second byte, one of 16 bits in two more.
LEMMA FrameIs ==
  ASSUME NEW n \in Nat, NEW mask \in BOOLEAN
  PROVE  LET h == Codec!WsEncode(n, mask) IN
         /\ Len(h) \in Nat
         /\ Short(n) => h[2] = Mask(mask) + n /\ Len(h) = 2 + Len(Key(mask))
         /\ ~Short(n) /\ Received(n) =>
              /\ h[2] = Marked(mask) /\ h[3] = Codec!Byte(n, 1) /\ h[4] = Codec!Byte(n, 0)
              /\ Len(h) = 4 + Len(Key(mask))
<1> DEFINE h == Codec!WsEncode(n, mask)
<1>1. /\ Codec!Byte(n, 0) \in Nat /\ Codec!Byte(n, 1) \in Nat
      /\ Codec!Byte(n, 2) \in Nat /\ Codec!Byte(n, 3) \in Nat
  BY BytesMake, Zenon
<1>2. /\ Key(mask) \in Seq(Nat) /\ Len(Key(mask)) \in Nat /\ Mask(mask) \in Nat
  BY KeyIs, Zenon
<1>3. CASE Short(n)
  <2> DEFINE x == <<Mask(mask) + n>>
  <2>1. h = Framing(x, Key(mask))
    BY SMT, <1>3 DEF Codec!WsEncode, Framing, Mask, Key, Short
  <2>2. x \in Seq(Nat) /\ Len(x) = 1 /\ x[1] = Mask(mask) + n /\ 1 \in 1..1
    BY <1>2
  <2> HIDE DEF x, h
  <2>3. Len(h) = (1 + 1) + Len(Key(mask)) /\ h[1 + 1] = Mask(mask) + n
    <3>1. /\ Len(h) = (1 + Len(x)) + Len(Key(mask))
          /\ \A i \in 1..Len(x) : h[1 + i] = x[i]
      BY <1>2, <2>1, <2>2, Framed, Zenon
    <3> QED
      BY <2>2, <3>1, Zenon
  <2>4. Len(h) = 2 + Len(Key(mask)) /\ h[2] = Mask(mask) + n
    BY <2>3
  <2>5. Len(h) \in Nat
    BY <1>2, <2>4
  <2> QED
    BY <1>3, <2>4, <2>5, Zenon DEF h
<1>4. CASE ~Short(n) /\ Received(n)
  <2> DEFINE x == <<Marked(mask), Codec!Byte(n, 1), Codec!Byte(n, 0)>>
  <2>1. h = Framing(x, Key(mask))
    BY SMT, <1>4 DEF Codec!WsEncode, Framing, Mask, Key, Short, Received, Marked
  <2>2. /\ x \in Seq(Nat) /\ Len(x) = 3
        /\ x[1] = Marked(mask) /\ x[2] = Codec!Byte(n, 1) /\ x[3] = Codec!Byte(n, 0)
        /\ 1 \in 1..3 /\ 2 \in 1..3 /\ 3 \in 1..3
    BY SMT, <1>1, <1>2 DEF Marked
  <2> HIDE DEF x, h
  <2>3. /\ Len(h) = (1 + 3) + Len(Key(mask)) /\ h[1 + 1] = Marked(mask)
        /\ h[1 + 2] = Codec!Byte(n, 1) /\ h[1 + 3] = Codec!Byte(n, 0)
    <3>1. /\ Len(h) = (1 + Len(x)) + Len(Key(mask))
          /\ \A i \in 1..Len(x) : h[1 + i] = x[i]
      BY <1>2, <2>1, <2>2, Framed, Zenon
    <3>2. Len(h) = (1 + 3) + Len(Key(mask)) /\ \A i \in 1..3 : h[1 + i] = x[i]
      BY <2>2, <3>1, Zenon
    <3>3. h[1 + 1] = x[1] /\ h[1 + 2] = x[2] /\ h[1 + 3] = x[3]
      BY <2>2, <3>2, Zenon
    <3> QED
      BY <2>2, <3>2, <3>3, Zenon
  <2>4. /\ Len(h) = 4 + Len(Key(mask)) /\ h[2] = Marked(mask)
        /\ h[3] = Codec!Byte(n, 1) /\ h[4] = Codec!Byte(n, 0)
    BY <2>3
  <2>5. Len(h) \in Nat
    BY <1>2, <2>4
  <2> QED
    BY <1>4, <2>4, <2>5, Zenon DEF h
<1>5. CASE ~Short(n) /\ ~Received(n)
  <2>1. PICK x \in Seq(Nat) : h = Framing(x, Key(mask))
    <3> DEFINE y == <<Marked(mask), Codec!Byte(n, 1), Codec!Byte(n, 0)>>
               z == <<Mask(mask) + 127, 0, 0, 0, 0, Codec!Byte(n, 3), Codec!Byte(n, 2),
                      Codec!Byte(n, 1), Codec!Byte(n, 0)>>
    <3>1. y \in Seq(Nat) /\ z \in Seq(Nat)
      BY SMT, <1>1, <1>2 DEF Marked
    <3>2. h = Framing(y, Key(mask)) \/ h = Framing(z, Key(mask))
      BY SMT, <1>5 DEF Codec!WsEncode, Framing, Mask, Key, Short, Marked
    <3> QED
      BY <3>1, <3>2, Zenon
  <2>2. Len(x) \in Nat /\ Len(h) = (1 + Len(x)) + Len(Key(mask))
    <3> HIDE DEF h
    <3>1. Len(h) = (1 + Len(x)) + Len(Key(mask))
      BY <1>2, <2>1, Framed, Zenon
    <3> QED
      BY <3>1, LenProperties
  <2>3. Len(h) \in Nat
    BY <1>2, <2>2
  <2> QED
    BY <1>5, <2>3, Zenon DEF h
<1> QED
  BY <1>3, <1>4, <1>5, Zenon

\* The bytes of a length that is received at all.
LEMMA ReceivedBytes ==
  ASSUME NEW n \in Nat, Received(n)
  PROVE  /\ Codec!Byte(n, 1) * 256 + Codec!Byte(n, 0) = n
         /\ Codec!Byte(n, 0) \in Nat /\ Codec!Byte(n, 0) = n % 256
         /\ Codec!Byte(n, 1) \in Nat /\ Codec!Byte(n, 1) < 128
<1>1. <<1, 256, 65536, 16777216>>[1] = 1 /\ <<1, 256, 65536, 16777216>>[2] = 256
  BY SMT
<1>2. n \div 1 = n
  BY SMT
<1>3. Codec!Byte(n, 0) = n % 256 /\ Codec!Byte(n, 1) = (n \div 256) % 256
  BY SMT, <1>1, <1>2 DEF Codec!Byte
<1>4. n % 256 \in Nat /\ (n \div 256) % 256 \in Nat /\ (n \div 256) % 256 = n \div 256
      /\ n = 256 * (n \div 256) + (n % 256) /\ n \div 256 < 128
  <2>1. n <= 1024
    BY DEF Received
  <2>2. n \div 256 \in Nat /\ n \div 256 < 128
    BY SMT, <2>1
  <2>3. (n \div 256) % 256 = n \div 256
    BY SMT, <2>2
  <2>4. n % 256 \in Nat /\ n = 256 * (n \div 256) + (n % 256)
    BY SMT
  <2> QED
    BY <2>2, <2>3, <2>4, Zenon
<1> QED
  BY SMT, <1>3, <1>4

\* Two bytes of a length are read as the number they make, or as a huge one.
LEMMA Length16 ==
  ASSUME NEW n \in Nat, Received(n)
  PROVE  LET p == Codec!WsLength16(Codec!Byte(n, 1), Codec!Byte(n, 0)) IN
         /\ n % 256 < 128 => p = n
         /\ p \in Nat /\ (p = n \/ p > n)
<1>1. /\ Codec!Byte(n, 1) * 256 + Codec!Byte(n, 0) = n
      /\ Codec!Byte(n, 0) \in Nat /\ Codec!Byte(n, 0) = n % 256
      /\ Codec!Byte(n, 1) \in Nat /\ Codec!Byte(n, 1) < 128
  BY ReceivedBytes, Zenon
<1>2. Codec!Huge \in Nat /\ Codec!Huge > n
  BY SMT DEF Codec!Huge, Received
<1>3. /\ n % 256 < 128 => Codec!WsLength16(Codec!Byte(n, 1), Codec!Byte(n, 0)) = n
      /\ Codec!WsLength16(Codec!Byte(n, 1), Codec!Byte(n, 0)) \in {n, Codec!Huge}
  BY SMT, <1>1 DEF Codec!WsLength16, Codec!Signed
<1> QED
  BY SMT, <1>2, <1>3

\* A payload below 126 bytes is found.
LEMMA ShortDecodes ==
  ASSUME NEW h, NEW n \in Nat, NEW len \in Nat, NEW mask \in BOOLEAN, NEW j \in Nat,
         Short(n), h[2] = Mask(mask) + n, j = (IF mask THEN 4 ELSE 0),
         len >= (2 + j) + n, mask \/ len = (2 + j) + n
  PROVE  Codec!WsDecode(h, len) = Codec!Got("data", n, n)
<1>1. CASE mask
  <2>1. h[2] = 128 + n /\ len >= 6 + n /\ n < 126
    BY SMT, <1>1 DEF Mask, Short
  <2>2. h[2] % 128 = n /\ h[2] >= 128
    BY SMT, <2>1
  <2> QED
    BY SMT, <2>1, <2>2 DEF Codec!WsDecode
<1>2. CASE ~mask
  <2>1. h[2] = n /\ len = 2 + n /\ n < 126
    BY SMT, <1>2 DEF Mask, Short
  <2>2. h[2] % 128 = n /\ ~(h[2] >= 128)
    BY SMT, <2>1
  <2> QED
    BY SMT, <2>1, <2>2 DEF Codec!WsDecode
<1> QED
  BY <1>1, <1>2

\* So is a longer one, if the length is read right or nothing follows it.
LEMMA LongDecodes ==
  ASSUME NEW h, NEW n \in Nat, NEW len \in Nat, NEW mask \in BOOLEAN, NEW j \in Nat,
         ~Short(n), Received(n), h[2] = Marked(mask), j = (IF mask THEN 4 ELSE 0),
         h[3] = Codec!Byte(n, 1), h[4] = Codec!Byte(n, 0),
         len >= (4 + j) + n, mask \/ len = (4 + j) + n, mask => n % 256 < 128
  PROVE  Codec!WsDecode(h, len) = Codec!Got("data", n, n)
<1> DEFINE p == Codec!WsLength16(h[3], h[4])
<1>0. (n % 256 < 128 => p = n) /\ p \in Nat /\ (p = n \/ p > n)
  BY Length16, Zenon
<1>1. CASE mask
  <2>1. h[2] = 254 /\ len >= 8 + n /\ p = n
    BY SMT, <1>0, <1>1 DEF Mask, Marked
  <2>2. h[2] % 128 = 126 /\ h[2] >= 128
    BY SMT, <2>1
  <2> HIDE DEF p
  <2> QED
    BY SMT, <2>1, <2>2 DEF Codec!WsDecode, p
<1>2. CASE ~mask
  <2>1. h[2] = 126 /\ len = 4 + n
    BY SMT, <1>2 DEF Mask, Marked
  <2>2. h[2] % 128 = 126 /\ ~(h[2] >= 128)
    BY SMT, <2>1
  <2>3. ~(len < 2) /\ ~(len < 4) /\ ~(4 + 0 > len) /\ len - (4 + 0) = n
    BY SMT, <2>1
  <2> HIDE DEF p
  <2>4. (IF p < len - (4 + 0) THEN p ELSE len - (4 + 0)) = n
    BY SMT, <1>0, <2>3
  <2> QED
    BY SMT, <2>1, <2>2, <2>3, <2>4 DEF Codec!WsDecode, p
<1> QED
  BY <1>1, <1>2

\* A payload that has arrived within 1024 bytes is shorter still.
LEMMA Room ==
  ASSUME NEW n \in Nat, NEW len \in Nat, NEW k \in Nat, Received(len), len >= k + n
  PROVE  Received(n) /\ \A i \in Nat : k = i => len >= i + n /\ (len = k + n => len = i + n)
BY SMT DEF Received

\* A frame that has arrived whole is decoded, or the lower byte of its length
\* is 128 or more; an unmasked one when nothing else has arrived.
LEMMA WsDecodes ==
  ASSUME NEW n \in Nat, NEW len \in Nat, NEW mask \in BOOLEAN, Received(len),
         NEW k, k = Len(Codec!WsEncode(n, mask)), len >= k + n, mask \/ len = k + n
  PROVE  \/ Codec!WsDecode(Codec!WsEncode(n, mask), len) = Codec!Got("data", n, n)
         \/ mask /\ ~Short(n) /\ ~(n % 256 < 128)
<1> DEFINE h == Codec!WsEncode(n, mask)
           j == Len(Key(mask))
<1>1. /\ k \in Nat
      /\ Short(n) => h[2] = Mask(mask) + n /\ k = 2 + j
      /\ ~Short(n) /\ Received(n) =>
           /\ h[2] = Marked(mask) /\ h[3] = Codec!Byte(n, 1) /\ h[4] = Codec!Byte(n, 0)
           /\ k = 4 + j
  BY FrameIs, Zenon
<1>2. j \in Nat /\ j = IF mask THEN 4 ELSE 0
  BY KeyIs, Zenon
<1> HIDE DEF h, j
<1>3. 2 + j \in Nat /\ 4 + j \in Nat
  BY <1>2
<1>4. Received(n)
  BY <1>1, Room, Zenon
<1>5. CASE Short(n)
  <2>1. len >= (2 + j) + n /\ (mask \/ len = (2 + j) + n)
    BY <1>1, <1>3, <1>5, Room, Zenon
  <2>2. Codec!WsDecode(h, len) = Codec!Got("data", n, n)
    BY <1>1, <1>2, <1>5, <2>1, ShortDecodes, Zenon
  <2> QED
    BY <2>2 DEF h
<1>6. CASE ~Short(n)
  <2>1. len >= (4 + j) + n /\ (mask \/ len = (4 + j) + n)
    BY <1>1, <1>3, <1>4, <1>6, Room, Zenon
  <2>2. CASE mask => n % 256 < 128
    <3>1. Codec!WsDecode(h, len) = Codec!Got("data", n, n)
      BY <1>1, <1>2, <1>4, <1>6, <2>1, <2>2, LongDecodes, Zenon
    <3> QED
      BY <3>1 DEF h
  <2> QED
    BY <1>6, <2>2, Zenon
<1> QED
  BY <1>5, <1>6, Zenon

\* The head of the packet, and what is made of it.
HeadOf == CASE codec = "mcx" -> Codec!McxSerialize(size)
            [] codec = "rcon" -> Codec!RconSerialize(size)
            [] OTHER -> Codec!WsEncode(size, codec = "masked")
Decoding == CASE codec = "mcx" -> Codec!McxDeserialize(head, arrived)
              [] codec = "rcon" -> Codec!RconReceive(head, arrived)
              [] OTHER -> Codec!WsDecode(head, arrived)

\* One packet is encoded, and what has been received of it is decoded.
PacketInv ==
  /\ codec \in {"mcx", "rcon", "masked", "unmasked", "serializer"}
  /\ size \in Nat /\ Fits(10 + size)
  /\ head = <<>> \/ (codec # "serializer" /\ head = HeadOf)
  /\ arrived \in Nat /\ (arrived > 0 => head # <<>> /\ arrived <= Codec!Limit)
  /\ got = Codec!NotYet \/ (arrived > 0 /\ got = Decoding)

\* Every head has a length.
LEMMA HeadLength ==
  ASSUME NEW n \in Nat, NEW mask \in BOOLEAN
  PROVE  /\ Len(Codec!McxSerialize(n)) \in Nat /\ Len(Codec!RconSerialize(n)) \in Nat
         /\ Len(Codec!WsEncode(n, mask)) \in Nat
<1>1. Len(Codec!McxSerialize(n)) \in Nat
  BY DEF Codec!McxSerialize
<1>2. Len(Codec!RconSerialize(n)) \in Nat
  <2>1. 10 + n \in Nat /\ 12 \in Nat
    OBVIOUS
  <2> QED
    BY <2>1, RconHead, Zenon DEF Codec!RconSerialize
<1>3. Len(Codec!WsEncode(n, mask)) \in Nat
  BY FrameIs, Zenon
<1> QED
  BY <1>1, <1>2, <1>3, Zenon

LEMMA PacketInitInv == Codec!Init => PacketInv
<1> SUFFICES ASSUME Codec!Init PROVE PacketInv
  OBVIOUS
<1>1. size \in Nat /\ size + 10 <= 2147483647
  BY CodecsAssumption, SMT DEF Codec!Init, Codec!SizesAssumption
<1>2. Fits(10 + size)
  BY <1>1, SMT DEF Fits
<1> QED
  BY <1>1, <1>2 DEF Codec!Init, PacketInv

LEMMA PacketStepInv == PacketInv /\ [Codec!Next]_codecVars => PacketInv'
<1> SUFFICES ASSUME PacketInv, [Codec!Next]_codecVars PROVE PacketInv'
  OBVIOUS
<1>1. CASE UNCHANGED <<codec, size, head, arrived, got>>
  BY <1>1 DEF PacketInv, HeadOf, Decoding, Codec!Limit, Codec!NotYet, Codec!Got
<1>2. CASE Codec!Encode
  <2>1. codec # "serializer" /\ head' = HeadOf' /\ head = <<>>
        /\ UNCHANGED <<codec, size, arrived, got>>
    BY <1>2 DEF Codec!Encode, HeadOf
  <2>2. arrived = 0
    BY <2>1 DEF PacketInv
  <2> QED
    BY <2>1, <2>2 DEF PacketInv, Codec!NotYet, Codec!Got
<1>3. CASE Codec!Arrive
  <2>1. /\ head # <<>> /\ arrived = 0 /\ UNCHANGED <<codec, size, head, got>>
        /\ arrived' \in {Codec!Total + d : d \in Parts} \cup {1, 3, Len(head)}
        /\ arrived' > 0 /\ arrived' <= Codec!Limit
    BY <1>3 DEF Codec!Arrive
  <2>2. Len(head) \in Nat
    <3>1. (codec = "masked") \in BOOLEAN
      OBVIOUS
    <3> QED
      BY <2>1, <3>1, HeadLength DEF PacketInv, HeadOf
  <2>3. Codec!Total \in Nat /\ Parts \subseteq Int
    BY <2>2, CodecsAssumption DEF PacketInv, Codec!Total, Codec!SizesAssumption
  <2>4. arrived' \in Nat
    <3>1. arrived' \in Int
      BY <2>1, <2>2, <2>3
    <3> QED
      BY <2>1, <3>1
  <2>5. Codec!Limit' = Codec!Limit /\ HeadOf' = HeadOf /\ Codec!NotYet' = Codec!NotYet
    BY <2>1 DEF Codec!Limit, HeadOf, Codec!NotYet, Codec!Got
  <2> QED
    BY <2>1, <2>4, <2>5 DEF PacketInv
<1>4. CASE Codec!Decode
  <2>1. arrived > 0 /\ got' = Decoding' /\ UNCHANGED <<codec, size, head, arrived>>
    BY <1>4 DEF Codec!Decode, Decoding
  <2>2. Codec!Limit' = Codec!Limit /\ HeadOf' = HeadOf
    BY <2>1 DEF Codec!Limit, HeadOf
  <2> QED
    BY <2>1, <2>2 DEF PacketInv
<1> QED
  BY <1>1, <1>2, <1>3, <1>4
  DEF Codec!Next, codecVars, Codec!Serialize, Codec!Deserialize

\* The four codecs give back what was encoded.
LEMMA PacketsExact ==
  PacketInv => /\ Codec!McxExact /\ Codec!RconExact /\ Codec!MaskedExact /\ Codec!UnmaskedExact
<1> SUFFICES ASSUME PacketInv, got # Codec!NotYet
             PROVE  /\ Codec!McxExact /\ Codec!RconExact /\ Codec!MaskedExact
                    /\ Codec!UnmaskedExact
  BY DEF Codec!McxExact, Codec!RconExact, Codec!MaskedExact, Codec!UnmaskedExact, Codec!Decoded
<1>1. /\ size \in Nat /\ Fits(10 + size) /\ arrived \in Nat /\ arrived <= Codec!Limit
      /\ head = HeadOf /\ got = Decoding
  BY DEF PacketInv
<1>2. Codec!McxExact
  <2> SUFFICES ASSUME codec = "mcx"
               PROVE  got = IF arrived >= 5 + Low(size)
                            THEN Codec!Got("data", Low(size), Low(size))
                            ELSE Codec!Refused
    BY DEF Codec!McxExact, Low
  <2>1. head = Codec!McxSerialize(size) /\ got = Codec!McxDeserialize(head, arrived)
    BY <1>1 DEF HeadOf, Decoding
  <2> QED
    BY <1>1, <2>1, McxDecodes, Zenon
<1>3. Codec!RconExact
  <2> SUFFICES ASSUME codec = "rcon", arrived >= 12
               PROVE  got = Codec!Got("data", size,
                                      IF arrived - 12 < size THEN arrived - 12 ELSE size)
    BY DEF Codec!RconExact
  <2>1. head = Codec!RconSerialize(size) /\ got = Codec!RconReceive(head, arrived)
    BY <1>1 DEF HeadOf, Decoding
  <2> QED
    BY <1>1, <2>1, RconDecodes, Zenon
<1>4. ASSUME codec \in {"masked", "unmasked"}, arrived >= Codec!Total,
             codec = "masked" \/ arrived = Codec!Total
      PROVE  got = Codec!Got("data", size, size)
             \/ (codec = "masked" /\ ~Short(size) /\ ~(size % 256 < 128))
  <2> DEFINE mask == codec = "masked"
  <2>0. mask \in BOOLEAN /\ (mask <=> codec = "masked")
    OBVIOUS
  <2>1. head = Codec!WsEncode(size, mask) /\ got = Codec!WsDecode(head, arrived)
    BY <1>1, <1>4 DEF HeadOf, Decoding
  <2>2. Received(arrived)
    BY <1>1, <1>4 DEF Received, Codec!Limit
  <2> HIDE DEF mask
  <2>3. PICK k \in Nat : k = Len(head)
    BY <1>1, <2>0, <2>1, HeadLength, Zenon
  <2>4. Codec!Total = k + size
    BY <1>1, <1>4, <2>3 DEF Codec!Total
  <2>5. arrived >= k + size /\ (mask \/ arrived = k + size)
    BY <1>4, <2>0, <2>4, Zenon
  <2>6. k = Len(Codec!WsEncode(size, mask))
    BY <2>1, <2>3, Zenon
  <2>7. \/ Codec!WsDecode(Codec!WsEncode(size, mask), arrived) = Codec!Got("data", size, size)
        \/ mask /\ ~Short(size) /\ ~(size % 256 < 128)
    BY <1>1, <2>0, <2>2, <2>5, <2>6, WsDecodes, Zenon
  <2> QED
    BY <2>0, <2>1, <2>7
<1>5. Codec!MaskedExact
  <2> SUFFICES ASSUME codec = "masked", arrived >= Codec!Total
               PROVE  got = Codec!Got("data", size, size) \/ (size > 126 /\ size % 256 >= 128)
    BY DEF Codec!MaskedExact, Codec!Whole
  <2>1. ~Short(size) /\ ~(size % 256 < 128) => size > 126 /\ size % 256 >= 128
    BY <1>1, SMT DEF Short
  <2> QED
    BY <1>4, <2>1, Zenon
<1>6. Codec!UnmaskedExact
  <2> SUFFICES ASSUME codec = "unmasked", arrived = Codec!Total
               PROVE  got = Codec!Got("data", size, size)
    BY DEF Codec!UnmaskedExact
  <2>1. arrived >= Codec!Total
    BY <1>1
  <2> QED
    BY <1>4, <2>1
<1> QED
  BY <1>2, <1>3, <1>5, <1>6

\* at[i] is where the first i values that were put end in the stream, where
\* the next begins with its number.
Laid(at) ==
  /\ at[0] = 0 /\ at[Len(put)] = Len(stream)
  /\ \A i \in 1..Len(put) : /\ at[i - 1] + 4 <= Len(stream)
                            /\ Codec!Four(stream, at[i - 1] + 1) = put[i].n
                            /\ at[i] = at[i - 1] + Codec!Width(put[i])

\* What was taken are the first values put, and the offset is behind them.
SerialInv ==
  /\ stream \in Seq(Nat) /\ put \in Seq(Codec!Item) /\ taken \in Seq(Codec!Item)
  /\ Len(taken) <= Len(put) /\ \A i \in 1..Len(taken) : taken[i] = put[i]
  /\ \E at \in [Nat -> Nat] : Laid(at) /\ offset = at[Len(taken)]

\* What can be put has 32 bits; its bytes are as many as its width says.
LEMMA ItemIs ==
  ASSUME NEW item \in Codec!Item
  PROVE  /\ item.n \in Nat /\ Fits(item.n) /\ Codec!Width(item) \in Nat
         /\ Codec!Bytes(item) \in Seq(Nat) /\ Len(Codec!Bytes(item)) = Codec!Width(item)
         /\ Codec!Width(item) >= 4
         /\ \A j \in 1..4 : Codec!Bytes(item)[j] = Codec!LittleEndian(item.n)[j]
         /\ item = [kind |-> item.kind, n |-> item.n]
<1>1. /\ item.n \in Nat /\ Fits(item.n) /\ item = [kind |-> item.kind, n |-> item.n]
      /\ item.kind \in {"string", "uint32"}
  <2>1. item.kind \in {"string", "uint32"} /\ item.n \in Values
        /\ item = [kind |-> item.kind, n |-> item.n]
    BY DEF Codec!Item
  <2>2. Values \subseteq Nat /\ \A n \in Values : Fits(n)
    BY CodecsAssumption, SMT DEF Codec!ValuesAssumption, Fits
  <2> QED
    BY <2>1, <2>2
<1>2. Codec!Width(item) \in Nat /\ Codec!Width(item) >= 4
  BY <1>1 DEF Codec!Width
<1> DEFINE t == IF item.kind = "string" THEN [i \in 1..item.n |-> 255] ELSE <<>>
           f == Codec!LittleEndian(item.n)
<1>3. t \in Seq(Nat) /\ Codec!Width(item) = 4 + Len(t)
  <2>1. CASE item.kind = "string"
    <3>1. [i \in 1..item.n |-> 255] \in Seq(Nat) /\ Len([i \in 1..item.n |-> 255]) = item.n
      BY <1>1
    <3> QED
      BY <2>1, <3>1 DEF Codec!Width
  <2>2. CASE item.kind # "string"
    BY <1>1, <2>2 DEF Codec!Width
  <2> QED
    BY <2>1, <2>2
<1>4. f \in Seq(Nat) /\ Len(f) = 4
  BY <1>1, LittleEndianIs, Zenon
<1>5. Codec!Bytes(item) = f \o t
  BY DEF Codec!Bytes
<1> HIDE DEF f, t
<1>6. /\ f \o t \in Seq(Nat) /\ Len(f \o t) = Len(f) + Len(t)
      /\ \A i \in 1..Len(f) : (f \o t)[i] = f[i]
  BY <1>3, <1>4, InFront, Zenon
<1>7. Len(f \o t) = 4 + Len(t) /\ \A i \in 1..4 : (f \o t)[i] = f[i]
  BY <1>4, <1>6, Zenon
<1>8. /\ Codec!Bytes(item) \in Seq(Nat) /\ Len(Codec!Bytes(item)) = Codec!Width(item)
      /\ \A j \in 1..4 : Codec!Bytes(item)[j] = f[j]
  BY <1>3, <1>5, <1>6, <1>7, Zenon
<1> QED
  BY <1>1, <1>2, <1>8, Zenon DEF f

LEMMA SerialInitInv == Codec!Init => SerialInv
<1> SUFFICES ASSUME Codec!Init PROVE SerialInv
  OBVIOUS
<1> DEFINE at == [i \in Nat |-> 0]
<1>1. at \in [Nat -> Nat] /\ at[0] = 0
  OBVIOUS
<1>2. stream = <<>> /\ put = <<>> /\ taken = <<>> /\ offset = 0
  BY DEF Codec!Init
<1>3. /\ stream \in Seq(Nat) /\ put \in Seq(Codec!Item) /\ taken \in Seq(Codec!Item)
      /\ Len(stream) = 0 /\ Len(put) = 0 /\ Len(taken) = 0
  BY <1>2, EmptySeq
<1> HIDE DEF at
<1>4. Laid(at)
  BY <1>1, <1>3 DEF Laid
<1> QED
  BY <1>1, <1>2, <1>3, <1>4 DEF SerialInv

\* What is laid stays where it is.
LEMMA LaidStays ==
  ASSUME NEW at, Laid(at), stream' = stream, put' = put
  PROVE  Laid(at)'
<1>1. /\ Len(put') = Len(put) /\ Len(stream') = Len(stream)
      /\ \A i : /\ put'[i] = put[i]
                /\ Codec!Four(stream', at[i - 1] + 1) = Codec!Four(stream, at[i - 1] + 1)
                /\ Codec!Width(put'[i]) = Codec!Width(put[i])
  BY Zenon
<1> QED
  BY <1>1, Zenon DEF Laid

\* A value is put behind the others, where its bytes begin.
LEMMA SerializeKeeps ==
  ASSUME SerialInv, NEW item \in Codec!Item, Codec!Serialize(item)
  PROVE  SerialInv'
<1>1. PICK at \in [Nat -> Nat] : Laid(at) /\ offset = at[Len(taken)]
  BY DEF SerialInv
<1>2. /\ stream \in Seq(Nat) /\ put \in Seq(Codec!Item) /\ taken = <<>>
      /\ stream' = stream \o Codec!Bytes(item) /\ put' = Append(put, item)
      /\ taken' = taken /\ offset' = offset
  BY DEF SerialInv, Codec!Serialize
<1>3. PICK k \in Nat, l \in Nat : k = Len(put) /\ l = Len(stream)
  BY <1>2, LenProperties
<1>4. /\ item.n \in Nat /\ Fits(item.n) /\ Codec!Width(item) \in Nat
      /\ Codec!Bytes(item) \in Seq(Nat) /\ Len(Codec!Bytes(item)) = Codec!Width(item)
      /\ Codec!Width(item) >= 4
      /\ \A j \in 1..4 : Codec!Bytes(item)[j] = Codec!LittleEndian(item.n)[j]
  BY ItemIs, Zenon
<1> DEFINE w == Codec!Width(item)
<1>5. w \in Nat /\ w >= 4
  BY <1>4
<1>6. /\ stream' \in Seq(Nat) /\ Len(stream') = l + w
      /\ \A i \in 1..l : stream'[i] = stream[i]
      /\ \A i \in 1..w : stream'[l + i] = Codec!Bytes(item)[i]
  <2>1. LET f == stream \o Codec!Bytes(item) IN
        /\ f \in Seq(Nat) /\ Len(f) = Len(stream) + Len(Codec!Bytes(item))
        /\ \A i \in 1..Len(stream) : f[i] = stream[i]
        /\ \A i \in 1..Len(Codec!Bytes(item)) : f[Len(stream) + i] = Codec!Bytes(item)[i]
    BY <1>2, <1>4, InFront, Zenon
  <2> QED
    BY <1>2, <1>3, <1>4, <2>1, Zenon
<1>7. put' \in Seq(Codec!Item) /\ Len(put') = k + 1 /\ put'[k + 1] = item
      /\ \A i \in 1..k : put'[i] = put[i]
  BY <1>2, <1>3, AppendProperties
<1> HIDE DEF w
<1> DEFINE to == [at EXCEPT ![k + 1] = l + w]
<1>8. /\ to \in [Nat -> Nat] /\ to[k + 1] = l + w
      /\ \A i \in 0..k : to[i] = at[i]
  <2>1. k + 1 \in Nat /\ l + w \in Nat /\ \A i \in 0..k : i \in Nat /\ i # k + 1
    BY <1>5
  <2> QED
    BY <2>1
<1> HIDE DEF to
<1>9. /\ at[0] = 0 /\ at[k] = l
      /\ \A i \in 1..k : /\ at[i - 1] + 4 <= l /\ Codec!Four(stream, at[i - 1] + 1) = put[i].n
                         /\ at[i] = at[i - 1] + Codec!Width(put[i])
  BY <1>1, <1>3 DEF Laid
<1>10. ASSUME NEW i \in 1..(k + 1)
      PROVE  /\ to[i - 1] + 4 <= l + w
             /\ Codec!Four(stream', to[i - 1] + 1) = put'[i].n
             /\ to[i] = to[i - 1] + Codec!Width(put'[i])
  <2>1. CASE i \in 1..k
    <3>0. i - 1 \in 0..k /\ i \in 0..k /\ i - 1 \in Nat
      BY <2>1
    <3>1. to[i - 1] = at[i - 1] /\ to[i] = at[i] /\ put'[i] = put[i] /\ at[i - 1] \in Nat
      BY <1>7, <1>8, <2>1, <3>0
    <3>2. at[i - 1] + 4 <= l /\ at[i] = at[i - 1] + Codec!Width(put[i])
          /\ Codec!Four(stream, at[i - 1] + 1) = put[i].n
      BY <1>9, <2>1
    <3> DEFINE a == at[i - 1]
    <3>3. a \in Nat /\ a + 4 <= l
      BY <3>1, <3>2
    <3> HIDE DEF a
    <3>4. /\ a + 1 \in 1..l /\ (a + 1) + 1 \in 1..l
          /\ (a + 1) + 2 \in 1..l /\ ((a + 1) + 2) + 1 \in 1..l
      BY <3>3
    <3>5. Codec!Four(stream', a + 1) = Codec!Four(stream, a + 1)
      <4>1. /\ stream'[a + 1] = stream[a + 1] /\ stream'[(a + 1) + 1] = stream[(a + 1) + 1]
            /\ stream'[(a + 1) + 2] = stream[(a + 1) + 2]
            /\ stream'[((a + 1) + 2) + 1] = stream[((a + 1) + 2) + 1]
        BY <1>6, <3>4, Zenon
      <4> QED
        BY <4>1, SMT DEF Codec!Four, Codec!Two
    <3>6. a + 4 <= l + w
      BY <1>5, <3>3
    <3> QED
      BY <3>1, <3>2, <3>5, <3>6, Zenon DEF a
  <2>2. CASE i = k + 1
    <3>1. i - 1 = k /\ k \in 0..k
      BY <1>3, <2>2
    <3>2. to[i - 1] = l /\ to[i] = l + w /\ put'[i] = item
      BY <1>7, <1>8, <1>9, <2>2, <3>1
    <3>3. \A j \in 1..4 : j \in 1..w
      BY <1>5
    <3>4. \A j \in 1..4 : stream'[l + j] = Codec!LittleEndian(item.n)[j]
      BY <1>4, <1>6, <3>3, Zenon
    <3>5. l + 4 <= l + w
      BY <1>5
    <3>6. Codec!Four(stream', l + 1) = item.n
      <4>1. l + 4 <= Len(stream')
        BY <1>6, <3>5
      <4> QED
        BY <1>3, <1>4, <1>6, <3>4, <4>1, FourReads, Zenon
    <3> QED
      BY <3>2, <3>5, <3>6, Zenon DEF w
  <2> QED
    BY <2>1, <2>2
<1>11. Laid(to)'
  <2>1. to[0] = 0 /\ k + 1 \in Nat
    BY <1>8, <1>9
  <2> QED
    BY <1>6, <1>7, <1>8, <1>10, <2>1, Zenon DEF Laid, w
<1>12. offset' = to[Len(taken')] /\ Len(taken') = 0 /\ taken' \in Seq(Codec!Item)
  <2>1. Len(taken) = 0
    BY <1>2
  <2>2. offset = at[0]
    BY <1>1, <2>1, Zenon
  <2>3. 0 \in 0..k
    OBVIOUS
  <2> QED
    BY <1>2, <1>8, <2>1, <2>2, <2>3, EmptySeq
<1>13. Len(taken') <= Len(put') /\ \A i \in 1..Len(taken') : taken'[i] = put'[i]
  BY <1>7, <1>12
<1> QED
  BY <1>6, <1>7, <1>8, <1>11, <1>12, <1>13, Zenon DEF SerialInv

\* What is taken is the value that was put, and the offset goes behind it.
LEMMA DeserializeKeeps ==
  ASSUME SerialInv, Codec!Deserialize
  PROVE  SerialInv'
<1>1. PICK at \in [Nat -> Nat] : Laid(at) /\ offset = at[Len(taken)]
  BY DEF SerialInv
<1> DEFINE item == [kind |-> put[Len(taken) + 1].kind, n |-> Codec!Four(stream, offset + 1)]
<1>2. /\ stream \in Seq(Nat) /\ put \in Seq(Codec!Item) /\ taken \in Seq(Codec!Item)
      /\ \A i \in 1..Len(taken) : taken[i] = put[i]
      /\ stream' = stream /\ put' = put /\ Len(taken) < Len(put)
      /\ taken' = Append(taken, item) /\ offset' = offset + Codec!Width(item)
  BY DEF SerialInv, Codec!Deserialize
<1>3. PICK k \in Nat : k = Len(taken) /\ k + 1 \in 1..Len(put) /\ (k + 1) - 1 = k
  <2>1. PICK k \in Nat, l \in Nat : k = Len(taken) /\ l = Len(put)
    BY <1>2, LenProperties, Zenon
  <2>2. k < l
    BY <1>2, <2>1, Zenon
  <2>3. k + 1 \in 1..l /\ (k + 1) - 1 = k
    BY <2>2
  <2> QED
    BY <2>1, <2>3, Zenon
<1>4. put[k + 1] \in Codec!Item
  BY <1>2, <1>3, ElementOfSeq
<1>5. Codec!Four(stream, at[k] + 1) = put[k + 1].n /\ at[k + 1] = at[k] + Codec!Width(put[k + 1])
  BY <1>1, <1>3 DEF Laid
<1>6. item = put[k + 1]
  <2>1. put[k + 1] = [kind |-> put[k + 1].kind, n |-> put[k + 1].n]
    BY <1>4, ItemIs, Zenon
  <2> QED
    BY <1>1, <1>3, <1>5, <2>1, Zenon
<1> HIDE DEF item
<1>7. /\ taken' \in Seq(Codec!Item) /\ Len(taken') = k + 1 /\ taken'[k + 1] = item
      /\ \A i \in 1..k : taken'[i] = taken[i]
  BY <1>2, <1>3, <1>4, <1>6, AppendProperties
<1>8. \A i \in 1..(k + 1) : taken'[i] = put[i]
  <2>1. \A i \in 1..(k + 1) : i \in 1..k \/ i = k + 1
    OBVIOUS
  <2> QED
    BY <1>2, <1>3, <1>6, <1>7, <2>1, Zenon
<1>9. offset' = at[k + 1]
  BY <1>1, <1>2, <1>3, <1>5, <1>6, Zenon
<1>10. Laid(at)'
  BY <1>1, <1>2, LaidStays, Zenon
<1>11. Len(taken') <= Len(put')
  BY <1>2, <1>3, <1>7
<1> QED
  BY <1>2, <1>7, <1>8, <1>9, <1>10, <1>11, Zenon DEF SerialInv

LEMMA SerialStepInv == SerialInv /\ [Codec!Next]_codecVars => SerialInv'
<1> SUFFICES ASSUME SerialInv, [Codec!Next]_codecVars PROVE SerialInv'
  OBVIOUS
<1>1. CASE UNCHANGED <<stream, put, taken, offset>>
  <2>1. stream' = stream /\ put' = put /\ taken' = taken /\ offset' = offset
    BY <1>1
  <2>2. \A at : Laid(at) => Laid(at)'
    BY <2>1, LaidStays, Zenon
  <2> QED
    BY <2>1, <2>2, Zenon DEF SerialInv
<1> QED
  BY <1>1, SerializeKeeps, DeserializeKeeps
  DEF Codec!Next, codecVars, Codec!Encode, Codec!Arrive, Codec!Decode

\* What is taken is a prefix of what was put.
LEMMA SerialReads == SerialInv => Codec!ReadsBack
<1> SUFFICES ASSUME SerialInv PROVE Codec!ReadsBack
  OBVIOUS
<1>1. PICK k \in Nat : k = Len(taken)
  BY LenProperties DEF SerialInv
<1>2. SubSeq(taken, 1, Len(taken)) = taken
  BY SubSeqFull DEF SerialInv
<1>3. /\ SubSeq(put, 1, k) \in Seq(Codec!Item) /\ Len(SubSeq(put, 1, k)) = k
      /\ \A j \in 1..k : SubSeq(put, 1, k)[j] = put[j]
  <2>1. PICK l \in Nat : l = Len(put) /\ k <= l
    BY <1>1, LenProperties, Zenon DEF SerialInv
  <2>2. k \in 0..l /\ \A j \in 1..k : j \in 1..l
    BY <2>1
  <2>3. put \in Seq(Codec!Item) /\ \A j \in 1..k : put[j] \in Codec!Item
    BY <2>1, <2>2, ElementOfSeq, Zenon DEF SerialInv
  <2> QED
    BY <2>1, <2>2, <2>3
<1>4. SubSeq(put, 1, k) = taken
  BY <1>1, <1>3, SeqEqual DEF SerialInv
<1> QED
  BY <1>1, <1>2, <1>4 DEF Codec!ReadsBack, Codec!IsPrefix, SerialInv

---------------------------------------------------------------------------
(* The parts together                                                      *)

\* Each part's invariant holds at first.
LEMMA PartsInit == Init => WatchInv /\ BackupInv /\ InstallInv /\ PacketInv /\ SerialInv
BY WatchInitInv, BackupInitInv, InstallInitInv, PacketInitInv, SerialInitInv DEF Init

\* A step is one of the part that runs and leaves the others as they are.
LEMMA PartsNext ==
  [Next]_vars => /\ [Watcher!Next]_watchVars /\ [Backup!Next]_backupVars
                 /\ [Install!Next]_installVars /\ [Codec!Next]_codecVars
<1> SUFFICES ASSUME [Next]_vars
             PROVE  /\ [Watcher!Next]_watchVars /\ [Backup!Next]_backupVars
                    /\ [Install!Next]_installVars /\ [Codec!Next]_codecVars
  OBVIOUS
<1>1. CASE UNCHANGED vars
  BY <1>1, Zenon DEF vars
<1>2. CASE Next
  BY <1>2, Zenon DEF Next
<1> QED
  BY <1>1, <1>2

\* The invariants together.
LEMMA Invariance == Spec => [](WatchInv /\ BackupInv /\ InstallInv /\ PacketInv /\ SerialInv)
<1>1. WatchInv /\ BackupInv /\ InstallInv /\ PacketInv /\ SerialInv /\ [Next]_vars =>
        (WatchInv /\ BackupInv /\ InstallInv /\ PacketInv /\ SerialInv)'
  BY PartsNext, WatchStepInv, BackupStepInv, InstallStepInv, PacketStepInv, SerialStepInv
<1> QED
  BY PartsInit, <1>1, PTL DEF Spec

\* A callback that returns while the owner is not in Stop: it has not stopped.
StepQuiet == thread = "callback" /\ thread' # "callback" => owner = "join" \/ running

LEMMA CallbackRuns == WatchInv => [StepQuiet]_(Watcher!vars)
BY DEF WatchInv, Watcher!TypeOK, StepQuiet

\* Only MakesDirectory changes a directory, with the archive in the cache.
StepDownloaded ==
  \A v \in Install!Versions : dir'[v] # dir[v] => cache = [v |-> v, whole |-> TRUE]

LEMMA DirectoryChanges ==
  InstallInv /\ [Install!Next]_installVars => [StepDownloaded]_(Install!vars)
<1> SUFFICES ASSUME InstallInv, [Install!Next]_installVars PROVE StepDownloaded
  OBVIOUS
<1>1. CASE Install!MakesDirectory
  <2>1. pc = "directory" /\ dir' = [dir EXCEPT ![rel.v] = "empty"]
    BY <1>1 DEF Install!MakesDirectory
  <2>2. /\ cache = [v |-> rel.v, whole |-> TRUE]
        /\ dir \in [Install!Versions -> {"whole", "empty", "absent"}]
    BY <2>1 DEF InstallInv, Install!TypeOK
  <2>3. \A v \in Install!Versions : v # rel.v => dir'[v] = dir[v]
    BY <2>1, <2>2
  <2> QED
    BY <2>2, <2>3 DEF StepDownloaded
<1>2. CASE ~Install!MakesDirectory
  <2>1. UNCHANGED dir
    BY <1>2
    DEF Install!Next, Install!Step, Install!Publish, Install!Begins, Install!Fails,
        Install!Fetches, Install!Creates, Install!Downloads, Install!Extracts,
        Install!Launches, Install!files, installVars
  <2> QED
    BY <2>1 DEF StepDownloaded
<1> QED
  BY <1>1, <1>2

\* A backup that a step removes had maxBackups_ newer ones.
StepOld == \A n \in Backup!Names : backups[n] # "none" /\ backups'[n] = "none" =>
             Backup!Cardinality({m \in Backup!Existing : m > n}) >= MaxBackups

LEMMA OldRemoved == BackupInv /\ [Backup!Next]_backupVars => [StepOld]_(Backup!vars)
BY BackupRemoves DEF StepOld

(* However often the file is written, replaced, removed and put back and   *)
(* the watcher started and stopped: while the path names the watched inode *)
(* and no event waits the configuration in use is the file's, unless it    *)
(* was changed before the watch was made or the inode was put back; a      *)
(* replacement is noticed once the old inode is gone, and while it is kept *)
(* nothing is promised; after Stop has returned no callback runs.          *)
THEOREM ConfigIsFollowed == Spec => ConfigFollows
<1>1. WatchInv => Watcher!TypeOK /\ Watcher!FreshWhileWatched /\ Watcher!ReplacementNoticed
  BY DEF WatchInv, Watcher!ReplacementNoticed
<1>2. Spec => [](Watcher!TypeOK /\ Watcher!FreshWhileWatched /\ Watcher!ReplacementNoticed)
  BY <1>1, Invariance, PTL
<1>3. Spec => [][StepQuiet]_(Watcher!vars)
  BY CallbackRuns, Invariance, PTL
<1> QED
  BY <1>2, <1>3 DEF ConfigFollows, Watcher!QuietWhenStopped, StepQuiet

(* For every maxBackups_ from 1 and every clock, with two threads that     *)
(* back up and restore at the same time: what is reported exists and is as *)
(* whole as the world was, and a failed restore leaves a whole backup,     *)
(* unless the clock was set back or operations overlapped; and even then   *)
(* only a backup that maxBackups_ newer ones replace is removed.           *)
THEOREM BackupsAreKept == Spec => BackupsKept
<1>1. BackupInv => Backup!TypeOK /\ Backup!ReportedExists /\ Backup!WorldRecoverable
  BY BackupReported DEF BackupInv
<1>2. Spec => [](Backup!TypeOK /\ Backup!ReportedExists /\ Backup!WorldRecoverable)
  BY <1>1, Invariance, PTL
<1>3. BackupInv /\ [Next]_vars => [StepOld]_(Backup!vars)
  BY PartsNext, OldRemoved
<1>4. Spec => [][StepOld]_(Backup!vars)
  BY <1>3, Invariance, PTL DEF Spec
<1> QED
  BY <1>2, <1>4, PTL DEF BackupsKept, Backup!RemovesOnlyOld, StepOld

(* For any releases and any commands, interrupted anywhere: the recorded   *)
(* release stays whole unless it is installed anew, what is extracted is   *)
(* the whole archive that was fetched, and a directory is removed only     *)
(* when the archive that replaces it has arrived.                          *)
THEOREM InstalledIsKept == Spec => InstalledKept
<1>1. InstallInv => Install!TypeOK /\ Install!RecordedRunnable /\ Install!ArchiveComplete
  BY DEF InstallInv, Install!ArchiveComplete
<1>2. Spec => [](Install!TypeOK /\ Install!RecordedRunnable /\ Install!ArchiveComplete)
  BY <1>1, Invariance, PTL
<1>3. InstallInv /\ [Next]_vars => [StepDownloaded]_(Install!vars)
  BY PartsNext, DirectoryChanges
<1>4. Spec => [][StepDownloaded]_(Install!vars)
  BY <1>3, Invariance, PTL DEF Spec
<1> QED
  BY <1>2, <1>4 DEF InstalledKept, Install!RemovedAfterDownload, StepDownloaded

(* For every set of sizes whose packets an int can count and every cut: an *)
(* MCX payload below 65536 bytes comes back exactly when it is whole, and  *)
(* a longer one modulo 65536; an RCON payload comes back, with zeros for   *)
(* what is missing; a whole masked frame does but for sizes above 126 with *)
(* a low byte of 128 or more; an unmasked one below 65536 does if nothing  *)
(* follows it.  What a PacketSerializer is given comes back in order.      *)
THEOREM CodecsAreExact == Spec => []CodecsExact
<1>1. PacketInv /\ SerialInv => CodecsExact
  BY PacketsExact, SerialReads DEF CodecsExact
<1> QED
  BY <1>1, Invariance, PTL
=============================================================================
