---------------------------- MODULE DatabaseFiles ----------------------------
(***************************************************************************)
(* The files of the database under the deployment's scripts                *)
(* (deploy/luxvps: snapshot-sqlite.sh, restore-sqlite.sh, deploy.sh), while *)
(* report-api writes them, stops cleanly or not, and is started again by    *)
(* its container's restart policy.  One script runs at a time.  A file's    *)
(* content is the set of transactions it holds; a write-ahead log belongs   *)
(* to the main file it was begun on.  The shared-memory file is rebuilt     *)
(* from the log, so only its presence matters.  mcp does not open the       *)
(* database and is left out.                                               *)
(***************************************************************************)
EXTENDS Naturals, FiniteSets

CONSTANTS
  MaxTx,         \* bound on transactions
  MaxArchives, MaxBackups,   \* bounds on snapshots kept and on different files backed up
  MaxFailures,   \* bound on commands of a script that fail
  MaxKills,      \* bound on scripts that end without their exit trap
  FreshHost,     \* the state directory is empty, and nothing runs yet
  BetweenStarts, \* report-api may be between two starts when a script lists what runs
  PsFails        \* docker compose ps may fail, which no script notices

FilesAssumption ==
  /\ {MaxTx, MaxArchives, MaxBackups, MaxFailures, MaxKills} \subseteq Nat
  /\ {FreshHost, BetweenStarts, PsFails} \subseteq BOOLEAN

VARIABLES
  disk,        \* the three files in the state directory
  service,     \* report-api: stopped, restarting, running, or running cut off from the files
  job, step,   \* the script under way and its next command
  listed,      \* running_services holds report-api
  stage,       \* the script's copies, or the archive it unpacked
  archives, backups,
  ok,          \* how the last script ended
  acked,       \* history: transactions committed to a database that was no mix
  failures, kills

script == <<job, step, listed, stage>>
kept == <<archives, backups>>
faults == <<failures, kills>>
vars == <<disk, service, script, kept, ok, acked, faults>>

Tx == 1 .. MaxTx
Names == {"main", "wal", "shm"}
Files == [has : SUBSET Names, main : SUBSET Tx, base : SUBSET Tx, wal : SUBSET Tx]
Nothing == [has |-> {}, main |-> {}, base |-> {}, wal |-> {}]

(* What SQLite reads, and when log and main file are not of one database.   *)
Contents(f) == IF "wal" \in f.has THEN f.base \cup f.wal ELSE f.main
Mixed(f) == "wal" \in f.has /\ ~(f.base \subseteq f.main /\ f.main \subseteq Contents(f))

(* An opened database has all three files; after a clean close the main     *)
(* file holds everything and the others are gone.                           *)
Opened(f) == IF "wal" \in f.has THEN [f EXCEPT !.has = Names]
             ELSE [has |-> Names, main |-> f.main, base |-> f.main, wal |-> {}]
Closed(f) == IF Mixed(f) THEN f ELSE [Nothing EXCEPT !.has = {"main"}, !.main = Contents(f)]

(* f with some of its files taken from g, or removed where g has none.      *)
With(f, names, g) ==
  [has  |-> (f.has \ names) \cup (g.has \cap names),
   main |-> IF "main" \in names THEN g.main ELSE f.main,
   base |-> IF "wal" \in names THEN g.base ELSE f.base,
   wal  |-> IF "wal" \in names THEN g.wal ELSE f.wal]

Init ==
  /\ disk = IF FreshHost THEN Nothing ELSE Opened(Nothing)
  /\ service = IF FreshHost THEN "stopped" ELSE "running"
  /\ job = "none" /\ step = "none" /\ listed = FALSE /\ stage = Nothing
  /\ archives = {} /\ backups = {}
  /\ ok = TRUE
  /\ acked = {}
  /\ failures = 0 /\ kills = 0

----------------------------------------------------------------------------
(* report-api *)

(* The first write after a checkpoint begins the log anew.                  *)
Commit ==
  /\ service \in {"running", "cut off"} /\ Cardinality(acked) < MaxTx
  /\ LET t == Cardinality(acked) + 1 IN
       /\ ~Mixed(disk) \/ service = "cut off"
       /\ acked' = acked \cup {t}
       /\ disk' = IF service = "cut off" THEN disk
                  ELSE IF disk.main = Contents(disk) THEN [disk EXCEPT !.base = disk.main, !.wal = {t}]
                  ELSE [disk EXCEPT !.wal = @ \cup {t}]
  /\ UNCHANGED <<service, script, kept, ok, faults>>

Checkpoint ==
  /\ service = "running" /\ ~Mixed(disk)
  /\ disk.main # Contents(disk)
  /\ disk' = [disk EXCEPT !.main = Contents(disk)]
  /\ UNCHANGED <<service, script, kept, ok, acked, faults>>

Crashes ==
  /\ service \in {"running", "cut off"}
  /\ service' = "restarting"
  /\ UNCHANGED <<disk, script, kept, ok, acked, faults>>

Restarts ==
  /\ service = "restarting"
  /\ service' = "running" /\ disk' = Opened(disk)
  /\ UNCHANGED <<script, kept, ok, acked, faults>>

----------------------------------------------------------------------------
(* What the scripts share *)

Begins(j, s) ==
  /\ job = "none"
  /\ job' = j /\ step' = s /\ listed' = FALSE
  /\ UNCHANGED <<disk, service, kept, ok, acked, faults>>

Goes(s) == step' = s /\ UNCHANGED <<job, ok, faults>>

(* The exit trap: what was listed is started again.                         *)
Ends(well) ==
  /\ job' = "none" /\ step' = "none" /\ listed' = FALSE /\ stage' = Nothing
  /\ ok' = well

Trapped(f) ==
  /\ service' = IF listed /\ service = "stopped" THEN "running" ELSE service
  /\ disk' = IF listed /\ service = "stopped" THEN Opened(f) ELSE f

(* docker compose ps --status running leaves out a container between two    *)
(* starts; when it fails the list is empty, and the script goes on.         *)
List ==
  /\ step = "list"
  /\ BetweenStarts \/ service # "restarting"
  /\ listed' \in {service \in {"running", "cut off"}} \cup (IF PsFails THEN {FALSE} ELSE {})
  /\ Goes("stop")
  /\ UNCHANGED <<disk, service, stage, kept, acked>>

AfterStopOfSnapshot == IF job = "snapshot" THEN "copy main" ELSE "backup"

AfterStop == IF job = "restore" THEN "backup" ELSE "copy main"

StopNothing(clean) ==
  /\ step = "stop" /\ clean
  /\ Goes(AfterStop)
  /\ UNCHANGED <<disk, service, listed, stage, kept, acked>>

(* Stopped within the grace period, or killed after it.                     *)
Stop(clean) ==
  /\ step = "stop"
  /\ IF listed
       THEN /\ service' = "stopped"
            /\ disk' = IF clean /\ service = "running" THEN Closed(disk) ELSE disk
       ELSE clean /\ UNCHANGED <<service, disk>>
  /\ Goes(AfterStop)
  /\ UNCHANGED <<listed, stage, kept, acked>>

(* A command fails: set -e ends the script, through the trap.               *)
Fails ==
  /\ step \notin {"none", "check", "list"} /\ failures < MaxFailures
  /\ failures' = failures + 1
  /\ Ends(FALSE) /\ Trapped(disk)
  /\ UNCHANGED <<kept, acked, kills>>

(* The host or the script is killed, or the services do not start again.    *)
Killed ==
  /\ step # "none" /\ kills < MaxKills
  /\ kills' = kills + 1
  /\ Ends(FALSE)
  /\ UNCHANGED <<disk, service, kept, acked, failures>>

----------------------------------------------------------------------------
(* snapshot-sqlite.sh, alone or within deploy.sh *)

BeginSnapshot == Cardinality(archives) < MaxArchives /\ Begins("snapshot", "check") /\ UNCHANGED stage
BeginDeploy == Cardinality(archives) < MaxArchives /\ Begins("deploy", "check") /\ UNCHANGED stage

Check ==
  /\ step = "check"
  /\ IF "main" \in disk.has
       THEN Goes("list") /\ UNCHANGED <<listed, stage>>
       ELSE Ends(FALSE) /\ UNCHANGED faults
  /\ UNCHANGED <<disk, service, kept, acked>>

CopyMain ==
  /\ step = "copy main"
  /\ stage' = With(Nothing, {"main"}, disk)
  /\ Goes("copy sidecars")
  /\ UNCHANGED <<disk, service, listed, kept, acked>>

NoSidecars ==
  /\ step = "copy sidecars"
  /\ Goes("archive")
  /\ UNCHANGED <<disk, service, listed, stage, kept, acked>>

CopySidecars ==
  /\ step = "copy sidecars"
  /\ stage' = With(stage, {"wal", "shm"}, disk)
  /\ Goes("archive")
  /\ UNCHANGED <<disk, service, listed, kept, acked>>

(* Checksums and archive are of all three files, or else of the main file.  *)
Packed == IF stage.has = Names THEN stage ELSE With(Nothing, {"main"}, stage)

Archive ==
  /\ step = "archive"
  /\ archives' = archives \cup {Packed}
  /\ IF job = "snapshot"
       THEN Ends(TRUE) /\ Trapped(disk) /\ UNCHANGED faults
       ELSE Goes("up") /\ listed' = FALSE /\ stage' = Nothing /\ Trapped(disk)
  /\ UNCHANGED <<backups, acked>>

(* compose up recreates report-api from the new image and starts it.        *)
Up(clean) ==
  /\ step = "up"
  /\ service' = "running"
  /\ disk' = Opened(IF clean /\ service = "running" THEN Closed(disk) ELSE disk)
  /\ Ends(TRUE)
  /\ UNCHANGED <<kept, acked, faults>>

----------------------------------------------------------------------------
(* restore-sqlite.sh *)

BeginRestore(a) == Cardinality(backups) < MaxBackups /\ Begins("restore", "list") /\ stage' = a

BackupMain ==
  /\ step = "backup"
  /\ backups' = backups \cup {With(Nothing, {"main"}, disk)}
  /\ Goes("install main")
  /\ UNCHANGED <<disk, service, listed, stage, archives, acked>>

Backup ==
  /\ step = "backup"
  /\ backups' = backups \cup {disk}
  /\ Goes("install main")
  /\ UNCHANGED <<disk, service, listed, stage, archives, acked>>

(* A file is moved over the old one: a process that has the old one open    *)
(* goes on with what nobody else sees.                                      *)
Installed(name) ==
  /\ disk' = With(disk, {name}, stage)
  /\ service' = IF service = "running" THEN "cut off" ELSE service

InstallMain ==
  /\ step = "install main"
  /\ Installed("main")
  /\ Goes("install wal")
  /\ UNCHANGED <<listed, stage, kept, acked>>

InstallWalIfAny ==
  /\ step = "install wal"
  /\ IF "wal" \in stage.has THEN Installed("wal") ELSE UNCHANGED <<disk, service>>
  /\ Goes("install shm")
  /\ UNCHANGED <<listed, stage, kept, acked>>

InstallWal ==
  /\ step = "install wal"
  /\ Installed("wal")
  /\ Goes("install shm")
  /\ UNCHANGED <<listed, stage, kept, acked>>

InstallShm ==
  /\ step = "install shm"
  /\ Installed("shm")
  /\ Goes("exit")
  /\ UNCHANGED <<listed, stage, kept, acked>>

ExitUntrapped ==
  /\ step = "exit"
  /\ Ends(TRUE)
  /\ UNCHANGED <<disk, service, kept, acked, faults>>

Exit ==
  /\ step = "exit"
  /\ Ends(TRUE) /\ Trapped(disk)
  /\ UNCHANGED <<kept, acked, faults>>

----------------------------------------------------------------------------
ScriptStep ==
  \/ List \/ (\E clean \in BOOLEAN : Stop(clean)) \/ Check
  \/ CopyMain \/ CopySidecars \/ Archive \/ (\E clean \in BOOLEAN : Up(clean))
  \/ Backup \/ InstallMain \/ InstallWal \/ InstallShm \/ Exit

Next ==
  \/ Commit \/ Checkpoint \/ Crashes \/ Restarts
  \/ BeginSnapshot \/ BeginDeploy \/ (\E a \in archives : BeginRestore(a))
  \/ ScriptStep \/ Fails \/ Killed

Spec == Init /\ [][Next]_vars

(* Commands of a script end, and Docker starts what its policy says.        *)
FairSpec == Spec /\ WF_vars(ScriptStep) /\ WF_vars(Restarts)

TypeOK ==
  /\ disk \in Files /\ stage \in Files
  /\ archives \subseteq Files /\ backups \subseteq Files
  /\ service \in {"stopped", "restarting", "running", "cut off"}
  /\ job \in {"none", "snapshot", "restore", "deploy"}
  /\ step \in {"none", "check", "list", "stop", "copy main", "copy sidecars", "archive", "up", "backup",
               "install main", "install wal", "install shm", "exit"}
  /\ job = "none" <=> step = "none"
  /\ step \in {"backup", "install main", "install wal", "install shm", "exit"} => job = "restore"
  /\ listed \in BOOLEAN
  /\ ok \in BOOLEAN
  /\ acked \subseteq Tx
  /\ failures \in 0 .. MaxFailures /\ kills \in 0 .. MaxKills

----------------------------------------------------------------------------
Touches == {"copy main", "copy sidecars", "archive", "backup", "install main", "install wal", "install shm"}

(* Files are copied or replaced only while report-api does not have them    *)
(* open ("takes a quiesced SQLite snapshot", README.md:86).                 *)
TouchedOnlyWhenQuiet == step \in Touches => service \notin {"running", "cut off"}

(* No transaction that was committed is lost for good: it is on disk, or in *)
(* the copy a restore made before it replaced anything, wherever scripts    *)
(* fail or are killed.                                                     *)
CommittedIsKept ==
  \A t \in acked :
    \/ t \in Contents(disk) /\ ~Mixed(disk)
    \/ \E b \in backups : t \in Contents(b) /\ ~Mixed(b)

(* What the database promised, wherever its files are.                     *)
CommittedIsSomewhere == CommittedIsKept /\ TouchedOnlyWhenQuiet

(* A snapshot that ends well holds what the database held                   *)
(* (snapshot-sqlite.sh:11, README.md:123).                                  *)
SnapshotIsWhole ==
  [][\A a \in archives' \ archives : Contents(a) = Contents(disk)]_vars

(* A restore that ends well leaves the archive's content, and no log of     *)
(* another database beside it.                                             *)
RestoredIsTheArchive ==
  [][job = "restore" /\ job' = "none" /\ ok' => Contents(disk') = Contents(stage) /\ (Mixed(disk') => Mixed(stage))]_vars

(* Log and main file of two databases are beside each other only within a   *)
(* restore or after one that did not end well.                              *)
MixOnlyByFailure == Mixed(disk) => job = "restore" \/ failures + kills > 0

(* What a restore replaces is what it kept a copy of                        *)
(* (restore-sqlite.sh:12).                                                  *)
ReplacedIsKept == step = "install main" => disk \in backups

(* What a script stopped runs again, however the script ends.               *)
RunsAgain == service = "stopped" ~> service # "stopped"

(* A deployment in which no command fails recreates the services            *)
(* (README.md:85-88).                                                      *)
DeployRecreates ==
  [][job = "deploy" /\ job' = "none" /\ faults' = <<0, 0>> => ok']_vars
=============================================================================
