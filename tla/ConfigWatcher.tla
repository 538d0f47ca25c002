--------------------------- MODULE ConfigWatcher ---------------------------
(***************************************************************************)
(* src/core/config_watcher.cpp, the Linux half: a thread that watches the  *)
(* inode its path names when the thread begins, for IN_MODIFY.  The owner  *)
(* reads the file, starts the watcher, and its callback reads the file     *)
(* again.  The file is rewritten in place or replaced by another inode;    *)
(* the old inode dies, or lives on under another name.                     *)
(***************************************************************************)
EXTENDS Naturals

CONSTANTS MaxVersion, \* bound on the changes of the file
          MaxStarts   \* bound on calls of Start
WatcherAssumption == MaxVersion \in Nat /\ MaxStarts \in Nat

VARIABLES
  running, \* running_
  thread,  \* watcherThread_: the statement it is at
  owner,   \* the thread that calls Start and Stop
  inode,   \* the inode the path names, 0 for none
  version, \* changes of the file so far
  watch,   \* the inode that is watched, 0 for none; the path may name another
  base,    \* history: version when the watch was made
  queue,   \* unread inotify events; equal ones are one
  seen,    \* version that the owner or the callback has read last
  returned,\* history: the watched inode got its name back, and no event since
  starts,  \* calls of Start so far
  dead     \* the process has been terminated
fileVars == <<inode, version, returned>>
watchVars == <<watch, base, queue, seen>>
vars == <<running, thread, owner, fileVars, watchVars, starts, dead>>

Inode == 0..MaxVersion + 1

Init == /\ running = FALSE /\ thread = "none" /\ owner = "idle"
        /\ inode \in {0, 1} /\ version = 0
        /\ watch = 0 /\ base = 0 /\ queue = {} /\ seen = 0
        /\ returned = FALSE /\ starts = 0 /\ dead = FALSE

---------------------------------------------------------------------------
\* The owner reads the file before it starts the watcher.
Start == /\ owner = "idle" /\ starts < MaxStarts
         /\ running' = TRUE /\ starts' = starts + 1
         /\ dead' = (thread # "none")   \* a joinable thread is assigned to
         /\ thread' = IF dead' THEN thread ELSE "watch"
         /\ seen' = version
         /\ UNCHANGED <<owner, fileVars, watch, base, queue>>

StopStores == /\ owner = "idle" /\ running' = FALSE /\ owner' = "join"
              /\ UNCHANGED <<thread, fileVars, watchVars, starts, dead>>

StopJoins == /\ owner = "join" /\ thread \in {"none", "ended"}
             /\ thread' = "none" /\ owner' = "idle"
             /\ UNCHANGED <<running, fileVars, watchVars, starts, dead>>

---------------------------------------------------------------------------
Goes(to) == thread' = to /\ UNCHANGED <<running, owner, fileVars, starts, dead>>

\* Faulty variant: an event is read and not reported.
ReadsOnly == thread = "select" /\ queue # {} /\ queue' = {} /\ Goes("test") /\ UNCHANGED <<watch, base, seen>>

Watches == /\ thread = "watch" /\ inode # 0
           /\ watch' = inode /\ base' = version /\ queue' = {}
           /\ Goes("test") /\ UNCHANGED seen
\* There is no file, or the system has no inotify instance or watch left.
WatchFails == thread = "watch" /\ Goes("ended") /\ UNCHANGED watchVars

LoopTests == /\ thread = "test"
             /\ IF running THEN Goes("select") /\ UNCHANGED watchVars
                ELSE Goes("ended") /\ watch' = 0 /\ queue' = {} /\ UNCHANGED <<base, seen>>

\* Faulty variant: select has no timeout.
WaitsForEvent == thread = "select" /\ queue # {} /\ Goes("test") /\ UNCHANGED watchVars
TimesOut == thread = "select" /\ queue = {} /\ Goes("test") /\ UNCHANGED watchVars

\* The buffer holds every event that can be queued.
Reads == /\ thread = "select" /\ queue # {}
         /\ queue' = {} /\ Goes("callback") /\ UNCHANGED <<watch, base, seen>>

CallbackReturns == /\ thread = "callback" /\ seen' = version
                   /\ Goes("test") /\ UNCHANGED <<watch, base, queue>>

\* The callback throws, or calls Stop or Start, which join or assign to the
\* thread they run on.
CallbackKills == /\ thread = "callback" /\ dead' = TRUE
                 /\ UNCHANGED <<running, thread, owner, fileVars, watchVars, starts>>

---------------------------------------------------------------------------
\* The kernel reports a write to the watched inode, and IN_IGNORED once when
\* that inode is gone; it then watches nothing.  A rename is not asked for.
Unmoved == UNCHANGED <<running, thread, owner, base, seen, starts, dead>>
Changes(to) == version < MaxVersion /\ version' = version + 1 /\ inode' = to /\ Unmoved
Written == queue' = queue \cup {"IN_MODIFY"} /\ UNCHANGED watch
Gone == queue' = queue \cup {"IN_IGNORED"} /\ watch' = 0
Watched == watch # 0 /\ watch = inode

Modify == /\ inode # 0 /\ Changes(inode)
          /\ IF Watched THEN Written /\ returned' = FALSE
             ELSE UNCHANGED <<queue, watch, returned>>

\* The old inode dies, or is kept: renamed away, linked or open elsewhere.
Moves(to) == /\ Changes(to) /\ returned' = FALSE
             /\ (Watched /\ Gone) \/ UNCHANGED <<queue, watch>>
Replace == Moves(version + 2)
Remove == inode # 0 /\ Moves(0)

\* What was kept is renamed back, written under its other name, or dies.
Kept == watch \notin {0, inode}
Restore == Kept /\ Changes(watch) /\ returned' = TRUE /\ UNCHANGED <<queue, watch>>
KeptChanges == Kept /\ (Written \/ Gone) /\ Unmoved /\ UNCHANGED fileVars

ThreadStep == \/ Watches \/ WatchFails \/ LoopTests \/ TimesOut \/ Reads
              \/ CallbackReturns \/ CallbackKills
FileStep == Modify \/ Replace \/ Remove \/ Restore \/ KeptChanges
Next == ~dead /\ (Start \/ StopStores \/ StopJoins \/ ThreadStep \/ FileStep)
\* The thread is scheduled and the callback comes to an end; a Stop goes on.
Fairness == WF_vars(~dead /\ ThreadStep) /\ WF_vars(~dead /\ StopJoins)
Spec == Init /\ [][Next]_vars /\ Fairness

---------------------------------------------------------------------------
(* Every variable has a value of its type; a watch and its events belong   *)
(* to a thread that is in its loop.                                        *)
TypeOK == /\ {running, returned, dead} \subseteq BOOLEAN
          /\ thread \in {"none", "watch", "test", "select", "callback", "ended"}
          /\ owner \in {"idle", "join"} /\ starts \in 0..MaxStarts
          /\ {inode, watch} \subseteq Inode /\ {version, base, seen} \subseteq 0..MaxVersion
          /\ queue \subseteq {"IN_MODIFY", "IN_IGNORED"}
          /\ thread \in {"none", "watch", "ended"} => watch = 0 /\ queue = {}

(* While the path names the watched inode and no event waits, the          *)
(* configuration in use is the file's: several writes may share one        *)
(* callback, but the callback comes after the last of them.  What changed  *)
(* between the read and the watch is not seen, nor that a kept file was    *)
(* put back.                                                               *)
FreshWhileWatched ==
  thread \in {"test", "select"} /\ Watched /\ queue = {} /\ ~returned
    => seen = version \/ version = base

(* A replacement is noticed once the inode it replaced is gone, by the     *)
(* event that says so: the file has been read again since.  While that     *)
(* inode is kept nothing is noticed, and nothing is after the event.       *)
ReplacementNoticed ==
  thread = "select" /\ running /\ watch = 0 /\ queue = {} => seen > base

(* Once Stop has returned no callback runs. *)
QuietWhenStopped == [][thread = "callback" /\ thread' # "callback" => owner = "join" \/ running]_vars

(* Stop returns, whatever happens to the file. *)
StopReturns == owner = "join" ~> owner = "idle" \/ dead

(* A change that the kernel has queued leads to a callback unless the      *)
(* watcher is stopped.                                                     *)
ChangeReported == queue # {} ~> thread = "callback" \/ ~running \/ dead
=============================================================================
