-------------------------- MODULE SchemaMigrations --------------------------
(***************************************************************************)
(* Opening the auditor's database (sqliteRepository.ts, migrate): builds of *)
(* different age open one file, read how far its schema is, and apply what  *)
(* is missing, one transaction per migration.  The version is read once,    *)
(* outside any transaction, so what it says may be old when a lock is had.  *)
(* A process that fails to open ends and is started again.  Tables are kept *)
(* as the set of migrations that made them; of their rows, the policies,    *)
(* whose table migration 6 makes anew.                                      *)
(***************************************************************************)
EXTENDS Naturals, FiniteSets, FiniteSetsExt

CONSTANTS
  Processes,
  Supported,      \* the schema version each process's build knows
  Created,        \* versions a file may have when it is first seen; 0: no file
  PolicyIds,
  MaxRevision,    \* bound on the policies saved
  MaxFaults,      \* bound on crashes and failed statements
  None

ASSUME SchemaAssumption ==
  /\ Supported \in [Processes -> Nat \ {0}]
  /\ Created \subseteq Nat
  /\ MaxRevision \in Nat /\ MaxFaults \in Nat
  /\ None \notin Processes

VARIABLES
  pc,        \* per process: down, log, read, begin, body, record, open
  at,        \* the migration in hand, decided by the version read
  db,        \* what is committed: log (schema_migrations), applied, tables, policies
  writer,    \* who holds the write lock, or None
  work,      \* the writer's uncommitted database
  faults     \* crashes and failed statements so far

process == <<pc, at>>
lock == <<writer, work>>
vars == <<process, db, lock, faults>>

KeyedByRevision == 6     \* the migration that lets a policy have later revisions
Latest(s) == IF s = {} THEN 0 ELSE Max(s)
Versions == 1 .. Latest({Supported[p] : p \in Processes} \cup Created)
Policies == [id : PolicyIds, revision : 1 .. MaxRevision]

Databases == [log : BOOLEAN, applied : SUBSET Versions, tables : SUBSET Versions,
              policies : SUBSET Policies]

Fresh(v, rows) == [log |-> v > 0, applied |-> 1 .. v, tables |-> 1 .. v, policies |-> rows]

Init ==
  /\ pc = [p \in Processes |-> "down"]
  /\ at = [p \in Processes |-> 0]
  /\ db \in {Fresh(v, {}) : v \in Created} \cup
            {Fresh(v, {[id |-> i, revision |-> 1]}) : v \in Created \ {0}, i \in PolicyIds}
  /\ writer = None /\ work = db
  /\ faults = 0

EndsInTransaction(p) ==
  /\ pc' = [pc EXCEPT ![p] = "down"]
  /\ UNCHANGED <<at, db, lock>>

(* A process ends, and SQLite undoes what it had not committed.             *)
Ends(p) ==
  /\ pc' = [pc EXCEPT ![p] = "down"]
  /\ writer' = IF writer = p THEN None ELSE writer
  /\ work' = IF writer = p THEN db ELSE work
  /\ UNCHANGED <<at, db>>

Start(p) ==
  /\ pc[p] = "down"
  /\ pc' = [pc EXCEPT ![p] = "log"]
  /\ UNCHANGED <<at, db, lock, faults>>

CreateLog(p) ==
  /\ pc[p] = "log"
  /\ db' = [db EXCEPT !.log = TRUE]
  /\ pc' = [pc EXCEPT ![p] = "read"]
  /\ UNCHANGED <<at, lock, faults>>

(* The next migration after v, or none and the repository is open.          *)
GoesOn(p, v) ==
  /\ pc' = [pc EXCEPT ![p] = IF v < Supported[p] THEN "begin" ELSE "open"]
  /\ at' = [at EXCEPT ![p] = IF v < Supported[p] THEN v + 1 ELSE v]

ReadAlways(p) ==
  /\ pc[p] = "read"
  /\ LET v == Latest(db.applied) IN
       /\ GoesOn(p, v)
  /\ UNCHANGED <<db, lock, faults>>

Read(p) ==
  /\ pc[p] = "read"
  /\ LET v == Latest(db.applied) IN
       /\ v <= Supported[p]
       /\ GoesOn(p, v)
  /\ UNCHANGED <<db, lock, faults>>

RefusesOwn(p) ==
  /\ pc[p] = "read"
  /\ Latest(db.applied) >= Supported[p]
  /\ Ends(p) /\ UNCHANGED faults

RefusesNewer(p) ==
  /\ pc[p] = "read"
  /\ Latest(db.applied) > Supported[p]
  /\ Ends(p) /\ UNCHANGED faults

Begin(p) ==
  /\ pc[p] = "begin" /\ writer = None
  /\ writer' = p /\ work' = db
  /\ pc' = [pc EXCEPT ![p] = "body"]
  /\ UNCHANGED <<at, db, faults>>

(* busy_timeout is over while another process holds the lock.               *)
Busy(p) ==
  /\ pc[p] = "begin" /\ writer \notin {None, p}
  /\ Ends(p) /\ UNCHANGED faults

MigratedRowsDropped(m, rows) == IF m = KeyedByRevision THEN {} ELSE rows

MigratedRows(m, rows) == rows

(* As if the statements of a migration were outside its transaction.        *)
BodyCommits(p) ==
  /\ pc[p] = "body" /\ at[p] \notin work.tables
  /\ work' = [work EXCEPT !.tables = @ \cup {at[p]}]
  /\ db' = work'
  /\ pc' = [pc EXCEPT ![p] = "record"]
  /\ UNCHANGED <<at, writer, faults>>

Body(p) ==
  /\ pc[p] = "body" /\ at[p] \notin work.tables
  /\ work' = [work EXCEPT !.tables = @ \cup {at[p]}, !.policies = MigratedRows(at[p], @)]
  /\ pc' = [pc EXCEPT ![p] = "record"]
  /\ UNCHANGED <<at, db, writer, faults>>

(* CREATE TABLE, or the key of the version row, says it was done already.   *)
Conflict(p) ==
  /\ pc[p] \in {"body", "record"}
  /\ at[p] \in (IF pc[p] = "body" THEN work.tables ELSE work.applied)
  /\ Ends(p) /\ UNCHANGED faults

RecordAndOpen(p) ==
  /\ pc[p] = "record"
  /\ db' = [work EXCEPT !.applied = @ \cup {at[p]}]
  /\ writer' = None /\ work' = db'
  /\ pc' = [pc EXCEPT ![p] = "open"]
  /\ UNCHANGED <<at, faults>>

Record(p) ==
  /\ pc[p] = "record" /\ at[p] \notin work.applied
  /\ db' = [work EXCEPT !.applied = @ \cup {at[p]}]
  /\ writer' = None /\ work' = db'
  /\ GoesOn(p, at[p])
  /\ UNCHANGED faults

(* A statement fails, or the process is killed, or it is closed.            *)
Crash(p) ==
  /\ pc[p] # "down" /\ faults < MaxFaults
  /\ faults' = faults + 1
  /\ Ends(p)

(* INSERT OR IGNORE: the keys of the table that is there decide.  The       *)
(* routes ask for the revision after the latest.                            *)
SavePolicy(p, i) ==
  /\ pc[p] = "open" /\ writer = None
  /\ LET row == [id |-> i, revision |-> 1 + Latest({r.revision : r \in db.policies})] IN
       /\ row.revision \in 1 .. MaxRevision
       /\ KeyedByRevision \in db.tables \/ \A r \in db.policies : r.id # i
       /\ db' = [db EXCEPT !.policies = @ \cup {row}]
  /\ UNCHANGED <<process, lock, faults>>

Steps(p) ==
  \/ Start(p) \/ CreateLog(p) \/ Read(p) \/ RefusesNewer(p) \/ Begin(p)
  \/ Body(p) \/ Conflict(p) \/ Record(p)

Next == \E p \in Processes :
  \/ Steps(p) \/ Busy(p) \/ Crash(p)
  \/ \E i \in PolicyIds : SavePolicy(p, i)

Spec == Init /\ [][Next]_vars

(* A process runs on, and the container's restart policy starts it again.   *)
FairSpec == Spec /\ \A p \in Processes : WF_vars(Steps(p))

TypeOK ==
  /\ pc \in [Processes -> {"down", "log", "read", "begin", "body", "record", "open"}]
  /\ at \in [Processes -> Nat]
  /\ db \in Databases /\ work \in Databases
  /\ writer \in Processes \cup {None}
  /\ \A p \in Processes : writer = p <=> pc[p] \in {"body", "record"}
  /\ faults \in 0 .. MaxFaults

----------------------------------------------------------------------------
(* The version rows are those of the first n migrations, and exactly their  *)
(* tables exist: migrate() never leaves half a migration, a gap, or a row   *)
(* without its tables, whoever crashed or was in the way.                   *)
SchemaIsAPrefix == db.applied = db.tables /\ db.applied = 1 .. Cardinality(db.applied)

(* An open repository has at least every table its build asks for.          *)
OpenHasItsTables == \A p \in Processes : pc[p] = "open" => 1 .. Supported[p] \subseteq db.tables

(* A build never opens a schema newer than its own (:841): one read before  *)
(* another process migrated further must not lead to an open repository.    *)
NeverOpensNewer ==
  [][\A p \in Processes : pc[p] # "open" /\ pc'[p] = "open" => Latest(db'.applied) <= Supported[p]]_vars

(* No migration loses a row, migration 6 with its copied table included.    *)
RowsSurvive == [][db.policies \subseteq db'.policies]_vars

(* Whoever raced whom, every build that is not too old for the file opens   *)
(* it in the end and stays so.                                              *)
OpensUnlessTooOld ==
  \A p \in Processes : <>[](pc[p] = "open" \/ Supported[p] < Latest(db.applied))
=============================================================================
