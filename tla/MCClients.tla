----------------------------- MODULE MCClients -----------------------------
(***************************************************************************)
(* The clients of AgentPay on small instances: the checked call of the MCP *)
(* bridge and its retries, the audit flow of the web page, the rules its   *)
(* operators sign, and the commands of the CLI.  They share no state here, *)
(* so each behaviour runs one of them and leaves the others as they        *)
(* started.                                                                *)
(***************************************************************************)
EXTENDS CheckedCall, TLC

CONSTANTS
  \* The audit page: what it has checked, and what a second instance has.
  PageKeys, Nonces, Charges, MaxProbes, MaxTasks, MaxPagePolls, OtherKeys, OtherProbes,
  \* The rules of operators.
  Operators, Tabs, Savers, Assets, Series, Charge, MaxCap, Settings,
  WebDefault, CliDefault, MaxRevision, MaxSwitch,
  \* The command line.
  Shells, Files, KeyedFiles, Names, Given, MaxRuns, SignsMessages, HashForm

VARIABLES
  part,                                               \* the component that runs
  page, text, probe, pageCheck, pageKey, settlement, observation, receipt, payment, previous,
  tasks, probes, minted, db, ledger, matched, receiptsShown, anchored, sent,  \* AuditFlow
  log, account, token, chosen, job, login, switches,  \* OperatorRules
  cmd, audited, booked, controls, runs, exits         \* CliCommands

auditVars == <<page, text, probe, pageCheck, pageKey, settlement, observation, receipt, payment, previous,
               tasks, probes, minted, db, ledger, matched, receiptsShown, anchored, sent>>
rulesVars == <<log, account, token, chosen, job, login, switches>>
cliVars == <<cmd, audited, booked, controls, runs, exits>>
clientVars == <<part, vars, auditVars, rulesVars, cliVars>>

(* A page that has a charge checked again, and one that reads more charges. *)
Rechecking == INSTANCE AuditFlow WITH
  token <- page, check <- pageCheck, key <- pageKey, chain <- ledger, receipts <- receiptsShown,
  Keys <- PageKeys, MaxPolls <- MaxPagePolls
Charging == INSTANCE AuditFlow WITH
  token <- page, check <- pageCheck, key <- pageKey, chain <- ledger, receipts <- receiptsShown,
  Keys <- OtherKeys, MaxPolls <- MaxPagePolls, MaxProbes <- OtherProbes

Rules == INSTANCE OperatorRules WITH key <- chosen, Commands <- Savers

Cli == INSTANCE CliCommands WITH checks <- audited, settled <- booked

ASSUME ClientsAssumption ==
  /\ Charging!BoundsAssumption
  /\ Rechecking!BoundsAssumption
  /\ Rules!OperatorRulesAssumption
  /\ Cli!CliAssumption

(* The options that a command may be given.                                *)
MCGiven == {{}, {"token"}, {"session"}, {"key"}, {"session", "key"}}

(* The components run alone and may share names: what one of them calls by  *)
(* these may be exchanged.                                                 *)
Symmetry == Permutations(Attempts) \union Permutations(Terms)

----------------------------------------------------------------------------
ClientsInit ==
  /\ part \in {"call", "charges", "rechecks", "rules", "cli"}
  /\ Init
  /\ IF part = "charges" THEN Charging!Init ELSE Rechecking!Init
  /\ Rules!Init
  /\ Cli!Init
  /\ part # "rules" => account = [t \in Tabs |-> CHOOSE o \in Operators : TRUE]

ClientsNext ==
  \/ part = "call" /\ Next /\ UNCHANGED <<part, auditVars, rulesVars, cliVars>>
  \/ part = "charges" /\ Charging!Next /\ UNCHANGED <<part, vars, rulesVars, cliVars>>
  \/ part = "rechecks" /\ Rechecking!Next /\ UNCHANGED <<part, vars, rulesVars, cliVars>>
  \/ part = "rules" /\ Rules!Next /\ UNCHANGED <<part, vars, auditVars, cliVars>>
  \/ part = "cli" /\ Cli!Next /\ UNCHANGED <<part, vars, auditVars, rulesVars>>

ClientsSpec == ClientsInit /\ [][ClientsNext]_clientVars

----------------------------------------------------------------------------
(* The wallet's signature goes only to a service whose charge a check of   *)
(* this page approved, whatever answers arrive late, no nonce is signed    *)
(* for two checks, and nothing goes on after the visitor has signed out.   *)
OnlyApprovedIsSent == Rechecking!OnlyApprovedIsSent

(* A rule is stored only for the operator who signed it, and a tab asks    *)
(* the wallet to sign only for the operator of its token, whatever is      *)
(* switched, pasted or signed out in between.                              *)
StoredIsOwn == Rules!StoredIsOwn

(* A script that runs a check again, or twice at a time, books one payment *)
(* and reads one verdict from the exit codes, the one on record.           *)
RerunsAgree == Cli!RerunsAgree
============================================================================
