----------------------------- MODULE Installer -----------------------------
(***************************************************************************)
(* launcher-rs: the commands download, install and launch, one process     *)
(* at a time over one install directory.  A command may be interrupted or  *)
(* meet an error at every step; what it has done on disk stays.            *)
(***************************************************************************)
EXTENDS Naturals

CONSTANTS MaxVersion, \* bound on the releases published
          Assets      \* what pick_asset_for_platform may choose: kinds of file
InstallAssumption == MaxVersion \in Nat \ {0}
NoAsset == "no asset"

VARIABLES
  latest,  \* the release the server names: [v, asset]
  cmd,     \* the command that runs
  pc,      \* the step it is at
  rel,     \* the release it has fetched
  cache,   \* the archive in cache/: [v, whole]; one name for every release
  output,  \* the file download writes, alike
  dir,     \* releases/<tag>, per version
  state,   \* installed version in launcher-state.json, 0 if there is none
  outcome, \* of the last command
  fault,   \* history: the last command met an error of network or disk
  removed  \* history: versions whose directory install has removed
vars == <<latest, cmd, pc, rel, cache, output, dir, state, outcome, fault, removed>>

Versions == 1..MaxVersion
NoFile == [v |-> 0, whole |-> FALSE]

\* What is installed was unpacked by hand or by another launcher.
Init == /\ latest \in [v : {1}, asset : Assets \cup {NoAsset}]
        /\ cmd = "none" /\ pc = "none" /\ rel = latest
        /\ cache = NoFile /\ output = NoFile
        /\ state \in 0..MaxVersion
        /\ dir = [v \in Versions |-> IF v = state THEN "whole" ELSE "absent"]
        /\ outcome = "none" /\ fault = FALSE /\ removed = {}

Publish == /\ latest.v < MaxVersion
           /\ \E a \in Assets : latest' = [v |-> latest.v + 1, asset |-> a]
           /\ UNCHANGED <<cmd, pc, rel, cache, output, dir, state, outcome, fault, removed>>

Begins(c) == /\ cmd = "none" /\ cmd' = c /\ fault' = FALSE /\ outcome' = "none"
             /\ pc' = IF c = "launch" THEN "launch" ELSE "fetch"
             /\ UNCHANGED <<latest, rel, cache, output, dir, state, removed>>

---------------------------------------------------------------------------
Ends(how) == cmd' = "none" /\ pc' = "none" /\ outcome' = how
Goes(to) == pc' = to /\ UNCHANGED <<cmd, outcome>>
files == <<cache, output, dir, state>>

\* An error is returned from main; a kill leaves the same on disk.
Fails == /\ cmd # "none" /\ Ends("failed") /\ fault' = TRUE
         /\ UNCHANGED <<latest, rel, files, removed>>

\* Faulty variant: the directory is made anew while the archive is still to
\* come.
CreatesDirectoryToo ==
  /\ pc = "create" /\ Goes("chunks") /\ cache' = [v |-> rel.v, whole |-> FALSE]
  /\ dir' = [dir EXCEPT ![rel.v] = "empty"] /\ removed' = removed \cup {rel.v}
  /\ UNCHANGED <<latest, rel, output, state, fault>>

Fetches == /\ pc = "fetch" /\ rel' = latest
           /\ IF latest.asset = NoAsset THEN Ends("failed") ELSE Goes("create")
           /\ UNCHANGED <<latest, files, fault, removed>>

\* download_file truncates the file after the server has answered.
Writes(whole) ==
  LET file == [v |-> rel.v, whole |-> whole]
  IN IF cmd = "install" THEN cache' = file /\ UNCHANGED output ELSE output' = file /\ UNCHANGED cache
Creates == /\ pc = "create" /\ Goes("chunks") /\ Writes(FALSE)
           /\ UNCHANGED <<latest, rel, dir, state, fault, removed>>
Downloads == /\ pc = "chunks" /\ Writes(TRUE)
             /\ IF cmd = "install" THEN Goes("directory") ELSE Ends("ok")
             /\ UNCHANGED <<latest, rel, dir, state, fault, removed>>

\* "empty" is a directory that is no longer whole, removed in part or new.
MakesDirectory == /\ pc = "directory" /\ Goes("extract")
                  /\ dir' = [dir EXCEPT ![rel.v] = "empty"]
                  /\ removed' = removed \cup {rel.v}
                  /\ UNCHANGED <<latest, rel, cache, output, state, fault>>

\* The archive's name is the asset's with ".download" after it, and
\* extract_archive goes by the end of the name: what would follow, locating
\* the executable and saving the state, is never reached.
ArchiveKind(asset) == "download"
Extracts == /\ pc = "extract" /\ ArchiveKind(rel.asset) \notin {"zip", "tar.gz"}
            /\ Ends("failed")
            /\ UNCHANGED <<latest, rel, files, fault, removed>>

Launches == /\ pc = "launch"
            /\ Ends(IF state # 0 /\ dir[state] = "whole" THEN "ok" ELSE "failed")
            /\ UNCHANGED <<latest, rel, files, fault, removed>>

Step == Fetches \/ Creates \/ Downloads \/ MakesDirectory \/ Extracts \/ Launches
Next == Publish \/ Fails \/ Step \/ \E c \in {"download", "install", "launch"} : Begins(c)
Spec == Init /\ [][Next]_vars /\ WF_vars(Step)

---------------------------------------------------------------------------
(* Every variable has a value of its type; download touches no directory.  *)
TypeOK == /\ {latest, rel} \subseteq [v : Versions, asset : Assets \cup {NoAsset}]
          /\ cmd \in {"none", "download", "install", "launch"}
          /\ pc \in {"none", "fetch", "create", "chunks", "directory", "extract", "launch"}
          /\ {cache, output} \subseteq [v : 0..MaxVersion, whole : BOOLEAN]
          /\ state \in 0..MaxVersion /\ fault \in BOOLEAN /\ removed \subseteq Versions
          /\ dir \in [Versions -> {"whole", "empty", "absent"}]
          /\ pc \in {"directory", "extract"} => cmd = "install"
          /\ outcome \in {"none", "ok", "failed"}

(* Installing another release, interrupted or not, never takes away the    *)
(* installed one: launch fails only after an install of the same version.  *)
RecordedRunnable == state \notin removed \cup {0} => dir[state] = "whole"

(* What is handed to extract_archive is the whole archive of the release   *)
(* that was fetched, whatever an earlier install left in the cache.        *)
ArchiveComplete == pc = "extract" => cache = [v |-> rel.v, whole |-> TRUE]

(* The old directory of a release is removed only after its archive has    *)
(* been downloaded: an error of the network costs no installation.         *)
RemovedAfterDownload ==
  [][\A v \in Versions : dir'[v] # dir[v] => cache = [v |-> v, whole |-> TRUE]]_vars

(* Every command ends. *)
CommandEnds == cmd # "none" ~> cmd = "none"

(* Violated: an install of a zip or a tar.gz that meets no error succeeds. *)
InstallSucceeds ==
  [][pc = "extract" /\ pc' = "none" /\ rel.asset \in {"zip", "tar.gz"} => fault' \/ outcome' = "ok"]_vars
=============================================================================
