----------------------------- MODULE MCStorage -----------------------------
(***************************************************************************)
(* What AgentPay keeps: the schema of the database,                        *)
(* its files under the maintenance scripts, and the artifacts operators    *)
(* sign.  They share no state here, so each behaviour runs one of them and *)
(* leaves the others as they started.                                      *)
(***************************************************************************)
EXTENDS SchemaMigrations, TLC

CONSTANTS
  \* The files and the scripts that copy them.
  MaxTx, MaxArchives, MaxBackups, MaxFailures, MaxKills,
  FreshHost, BetweenStarts, PsFails,
  \* The artifacts that operators sign.
  Operators, Workers, Challenges, Kinds, Texts,
  ChallengeTtl, SessionTtl, HandedOn, LastRevision, MaxTime

VARIABLES
  part,                                               \* the component that runs
  disk, service, job, step, listed, stage, archives, backups, ok, acked, failures,
  kills,                                              \* DatabaseFiles
  now, challenge, signed, session, artifacts, revoked, effort, lost   \* OperatorAuth

fileVars == <<disk, service, job, step, listed, stage, archives, backups, ok, acked, failures, kills>>
authVars == <<now, challenge, signed, session, artifacts, revoked, effort, lost>>
storageVars == <<part, vars, fileVars, authVars>>

Scripts == INSTANCE DatabaseFiles
Controls == INSTANCE OperatorAuth WITH
  rows <- artifacts, work <- effort, Contents <- Texts, MaxRevision <- LastRevision

ASSUME StorageAssumption == Scripts!FilesAssumption /\ Controls!OperatorAuthAssumption

(* Two processes of the current build, and one of the build before it.     *)
MCProcesses == {"earlier", "current", "twin"}
MCSupported == [p \in MCProcesses |-> IF p = "earlier" THEN 5 ELSE 6]

Symmetry == Permutations(Challenges) \union Permutations(Workers) \union Permutations(Texts)

----------------------------------------------------------------------------
StorageInit ==
  /\ part \in {"schema", "files", "controls"}
  /\ Init
  /\ Scripts!Init
  /\ Controls!Init
  /\ part # "schema" => db = Fresh(0, {})

StorageNext ==
  \/ part = "schema" /\ Next /\ UNCHANGED <<part, fileVars, authVars>>
  \/ part = "files" /\ Scripts!Next /\ UNCHANGED <<part, vars, authVars>>
  \/ part = "controls" /\ Controls!Next /\ UNCHANGED <<part, vars, fileVars>>

StorageSpec == StorageInit /\ [][StorageNext]_storageVars

----------------------------------------------------------------------------
(* No transaction that was committed is lost for good: it is on disk, or   *)
(* in the copy a restore made before it replaced anything, which it does   *)
(* only while the service has the files closed.                            *)
CommittedIsSomewhere == Scripts!CommittedIsSomewhere

(* A signature has one effect, of what was signed, whichever workers race, *)
(* or none for a reason, and a token is refused exactly when its signed    *)
(* revocation is stored.                                                   *)
SignaturesAreSpentOnce == Controls!SignaturesAreSpentOnce

(* Policies and provider decisions are the append-only log of SignedLog.   *)
SignedLogImplemented == Controls!SignedLogImplemented
============================================================================
