------------------------------- MODULE Backup -------------------------------
(***************************************************************************)
(* core/backup/: the daily backup, its archives and their retention, and a *)
(* restore with its verification, beside an application that keeps writing *)
(* and a host that may stop at any step.                                   *)
(*                                                                         *)
(* The graph is two files (or two pages of one database) that the          *)
(* application writes one after the other, so that a copy shows whether it *)
(* is of one instant.  The other components are one value each.  A         *)
(* checksum is the value it was computed from, with the way it was.        *)
(***************************************************************************)
EXTENDS Integers, FiniteSets

CONSTANTS GraphKinds,       \* storage_backend: of "json", "sqlite", "postgres"
          Included,         \* include_*: of "graph", "audit", "custom_agents", "tasks"
          KeepDays,         \* retention_days
          MaxGraphWrites,   \* bound on the application's writes
          MaxBackupFaults,  \* bound on crashes and failing steps
          MaxDamage         \* bound on archives damaged on disk

ASSUME BackupAssumption ==
  /\ GraphKinds \subseteq {"json", "sqlite", "postgres"} /\ GraphKinds # {}
  /\ "graph" \in Included
  /\ Included \subseteq {"graph", "audit", "custom_agents", "tasks"}
  /\ {KeepDays, MaxGraphWrites, MaxBackupFaults, MaxDamage} \subseteq Nat

VARIABLES
  live,         \* version of each graph file, as the application wrote it
  backupLoop,   \* BackupScheduler: "sleeping", "due", "gone"
  job,          \* create_backup, where it runs
  archives,     \* backup-*.tar.gz
  backupFaults, damage

backupVars == <<live, backupLoop, job, archives, backupFaults, damage>>

Files == {"f1", "f2"}
AsCopied == [f \in Files |-> 0]
NoCopy == [f \in Files |-> -1]
NoBackup == [phase |-> "none", kind |-> "json", copy |-> NoCopy]
Placeholder == [f \in Files |-> -2]
Damaged == [f \in Files |-> -3]

BackupInit ==
  /\ live = [f \in Files |-> 0]
  /\ backupLoop = "due"
  /\ job = NoBackup
  /\ archives = {}
  /\ backupFaults = 0 /\ damage = 0

-----------------------------------------------------------------------------
\* The application: a node's file, then its link's
WriteGraph(f) ==
  /\ live[f] < MaxGraphWrites
  /\ IF f = "f1" THEN live["f1"] = live["f2"] ELSE live["f2"] < live["f1"]
  /\ live' = [live EXCEPT ![f] = @ + 1]
  /\ UNCHANGED <<backupLoop, job, archives, backupFaults, damage>>

-----------------------------------------------------------------------------
\* create_backup; the backend is configured once
BeginBackup(kind) ==
  /\ backupLoop = "due" /\ job.phase = "none"
  /\ \A a \in archives : kind = IF a.kind = "sqlite copy" THEN "sqlite" ELSE a.kind
  /\ job' = [phase |-> "copy", kind |-> kind, copy |-> NoCopy]
  /\ UNCHANGED <<live, backupLoop, archives, backupFaults, damage>>

\* snapshot_graph_json, and the file copy snapshot_graph_sqlite falls back to
CopyFile(f) ==
  /\ job.phase = "copy" /\ job.kind \in {"json", "sqlite"} /\ job.copy[f] = -1
  /\ job' = [job EXCEPT !.copy[f] = live[f],
                        !.phase = IF \A g \in Files \ {f} : job.copy[g] # -1
                                  THEN "tar" ELSE "copy",
                        !.kind = IF @ = "sqlite" THEN "sqlite copy" ELSE @]
  /\ UNCHANGED <<live, backupLoop, archives, backupFaults, damage>>

\* the other half of the fallback
CopyRest(f) ==
  /\ job.phase = "copy" /\ job.kind = "sqlite copy" /\ job.copy[f] = -1
  /\ job' = [job EXCEPT !.copy[f] = live[f], !.phase = "tar"]
  /\ UNCHANGED <<live, backupLoop, archives, backupFaults, damage>>

\* VACUUM INTO and pg_dump: one transaction
CopyAtOnce ==
  /\ job.phase = "copy" /\ job.kind \in {"sqlite", "postgres"} /\ job.copy = NoCopy
  /\ job' = [job EXCEPT !.copy = live, !.phase = "tar"]
  /\ UNCHANGED <<live, backupLoop, archives, backupFaults, damage>>

\* pg_dump fails, and a placeholder is archived in its stead
DumpFails ==
  /\ job.phase = "copy" /\ job.kind = "postgres" /\ backupFaults < MaxBackupFaults
  /\ job' = [job EXCEPT !.copy = Placeholder, !.phase = "tar"]
  /\ backupFaults' = backupFaults + 1
  /\ UNCHANGED <<live, backupLoop, archives, damage>>

\* Of a directory, paths and contents; of a single file, its contents only
ChecksumOf(c, kind, content) ==
  IF c = "tasks" \/ (c = "graph" /\ kind # "json") THEN <<"file", content>>
  ELSE <<"dir", content>>

\* the directory of a component inside the archive
DirOf(c) == IF c = "custom_agents" THEN "custom-agents" ELSE c

\* the manifest: each checksum is of the copy
SumsOf(j) == [c \in Included |-> ChecksumOf(c, j.kind, IF c = "graph" THEN j.copy ELSE AsCopied)]

ArchiveOf(j) ==
  [age |-> 0, whole |-> FALSE, kind |-> j.kind, sums |-> SumsOf(j),
   copied |-> [d \in {DirOf(c) : c \in Included} |-> IF d = "graph" THEN j.copy ELSE AsCopied],
   content |-> [d \in {DirOf(c) : c \in Included} |-> IF d = "graph" THEN j.copy ELSE AsCopied]]

\* Mutant: old archives make room before the new one is written
OpenArchiveLast ==
  /\ job.phase = "tar"
  /\ archives' = (archives \ {a \in archives : a.age >= KeepDays}) \cup {ArchiveOf(job)}
  /\ job' = [job EXCEPT !.phase = "close"]
  /\ UNCHANGED <<live, backupLoop, backupFaults, damage>>

\* tarfile.open(..., "w:gz"): the archive has its name while it is written
OpenArchive ==
  /\ job.phase = "tar"
  /\ archives' = archives \cup {ArchiveOf(job)}
  /\ job' = [job EXCEPT !.phase = "close"]
  /\ UNCHANGED <<live, backupLoop, backupFaults, damage>>

Today == CHOOSE a \in archives : a.age = 0 /\ ~a.whole

\* the archive is closed, then replaced by one with the final manifest
CloseArchive ==
  /\ job.phase = "close"
  /\ archives' = (archives \ {Today}) \cup {[Today EXCEPT !.whole = TRUE]}
  /\ job' = [job EXCEPT !.phase = "retain"]
  /\ UNCHANGED <<live, backupLoop, backupFaults, damage>>

Outdated == {a \in archives : a.age > KeepDays}

\* as many days old, to the second or not: today's, too, if none are kept
Borderline == {a \in archives : a.age = KeepDays}

\* apply_retention, by the file's age, and the end of the run
Retain ==
  /\ job.phase = "retain"
  /\ \E late \in SUBSET Borderline : archives' = archives \ (Outdated \cup late)
  /\ job' = NoBackup /\ backupLoop' = "sleeping"
  /\ UNCHANGED <<live, backupFaults, damage>>

\* A step raises, or the host stops and starts again: a half-written archive
\* stays, and _run_loop waits for the next day
BackupFails ==
  /\ job.phase # "none" /\ backupFaults < MaxBackupFaults
  /\ job' = NoBackup /\ backupLoop' = "sleeping"
  /\ backupFaults' = backupFaults + 1
  /\ UNCHANGED <<live, archives, damage>>

\* the next scheduled time; a day is longer than a backup
NextDay ==
  /\ backupLoop # "due" /\ job.phase = "none"
  /\ backupLoop' = IF backupLoop = "sleeping" THEN "due" ELSE backupLoop
  /\ archives' = {[a EXCEPT !.age = IF @ > KeepDays THEN @ ELSE @ + 1] : a \in archives}
  /\ UNCHANGED <<live, job, backupFaults, damage>>

\* One component of a closed archive goes bad on the disk
Damage(a, d) ==
  /\ damage < MaxDamage /\ a.whole /\ d \in DOMAIN a.content
  /\ archives' = (archives \ {a}) \cup {[a EXCEPT !.content[d] = Damaged]}
  /\ damage' = damage + 1
  /\ UNCHANGED <<live, backupLoop, job, backupFaults>>

-----------------------------------------------------------------------------
\* restore_from_tar

\* Mutant: the manifest is read, the checksums are not
VerifiedByManifest(a) == a.whole

\* The components whose directory the verification finds: it looks for the
\* component's name, and custom_agents is archived under another
Found(a, c) == c \in DOMAIN a.content
Verified(a) ==
  \A c \in Included : Found(a, c) => <<"dir", a.content[c]>> = a.sums[c]

\* The reports a restore can end with, and what it wrote.  A half-written
\* archive cannot be read to its end; one whose checksums differ is refused;
\* of the others the components asked for are written, and a write that fails
\* leaves those before it.
Restores(a, verify, asked) ==
  LET dirs == DOMAIN a.content \cap asked
      write(ds) == [d \in ds |-> a.content[d]]
      refused == [verified |-> FALSE, errors |-> TRUE, wrote |-> write({})]
  IN  IF ~a.whole \/ (verify /\ ~Verified(a)) THEN {refused}
      ELSE {[verified |-> verify, errors |-> FALSE, wrote |-> write(dirs)]}
             \cup {[verified |-> verify, errors |-> TRUE, wrote |-> write(dirs \ {d})] :
                     d \in dirs}

BackupRun ==
  \/ \E kind \in GraphKinds : BeginBackup(kind)
  \/ \E f \in Files : CopyFile(f) \/ CopyRest(f)
  \/ CopyAtOnce
  \/ OpenArchive
  \/ CloseArchive
  \/ Retain

BackupNext ==
  \/ \E f \in Files : WriteGraph(f)
  \/ BackupRun
  \/ DumpFails
  \/ BackupFails
  \/ NextDay
  \/ \E a \in archives, d \in {DirOf(c) : c \in Included} : Damage(a, d)

BackupSpec == BackupInit /\ [][BackupNext]_backupVars

\* The loop sleeps and runs; a day passes whatever happens
BackupFairSpec == BackupSpec /\ WF_backupVars(BackupRun) /\ WF_backupVars(NextDay)

-----------------------------------------------------------------------------
(***************************************************************************)
(* What a verified restore without errors wrote is what the backup copied, *)
(* whatever happened to the archive since, in the components it verifies.  *)
(***************************************************************************)
RestoredFaithfully ==
  \A a \in archives, asked \in {{"graph"}, {DirOf(c) : c \in Included}} :
    \A r \in Restores(a, TRUE, asked) :
      r.verified /\ ~r.errors =>
        \A c \in Included \cap asked : c \in DOMAIN a.copied => r.wrote[c] = a.copied[c]

(***************************************************************************)
(* "atomic point-in-time" (sources.py:49): a graph copied by its database  *)
(* is a state the database was in, the application writing on all along.   *)
(***************************************************************************)
PointInTime ==
  \A a \in archives :
    a.kind \in {"sqlite", "postgres"} /\ a.copied["graph"] # Placeholder =>
      a.copied["graph"]["f1"] - a.copied["graph"]["f2"] \in {0, 1}

(***************************************************************************)
(* Retention leaves a whole archive if there was one, with any number of   *)
(* backups that failed since: a failed run deletes nothing.  (Not so with  *)
(* a retention of no days, which may delete what it has just written.)     *)
(***************************************************************************)
WholeArchiveStays ==
  [][(\E a \in archives : a.whole) => (\E a \in archives' : a.whole)]_backupVars

(***************************************************************************)
(* A failed run does not stop the schedule: whatever becomes of a backup   *)
(* that began, there will be a whole archive of the day.                   *)
(***************************************************************************)
BackupsKeepComing == job.phase # "none" ~> \E a \in archives : a.whole /\ a.age = 0

(***************************************************************************)
(* "Algorithm (must match _recompute_component_checksum in restore.py)"    *)
(* (sources.py:213): an archive nothing happened to passes verification.   *)
(***************************************************************************)
CleanArchiveVerifies ==
  \A a \in archives : a.whole /\ a.content = a.copied => Verified(a)

(***************************************************************************)
(* An archive holds a state there was, and a restore brings back that one. *)
(***************************************************************************)
ArchivesFaithful == RestoredFaithfully /\ PointInTime
=============================================================================
