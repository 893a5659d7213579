----------------------------- MODULE MCProgress -----------------------------
(***************************************************************************)
(* What must end, on small instances: the answers to report buyers, the    *)
(* jobs of the receipt publisher, the repair of the bridge, and the runs   *)
(* of the evidence page.  They share no state here, so each behaviour runs *)
(* one of them, under the fairness that its code justifies.                *)
(***************************************************************************)
EXTENDS Naturals, FiniteSets, TLC

CONSTANT None

VARIABLES
  part,                                               \* the component that runs
  now, priced, building, quotes, sold, pending, settledTransactionQuotes, call, chain,
  delivered, buys, restarts,                          \* ReportQuotes
  stored, job, wait, step, batch, doing, carries, ledger, answer, crashes, reopens,
  lost,                                               \* AnchorPublisher
  config, breaks,                                     \* RegistryReadiness
  state, quote, paid, receipt, verification, tamper, registry, payload, tasks, quoted,
  bought, recorded, runs                              \* EvidenceRun

quoteVars == <<now, priced, building, quotes, sold, pending, settledTransactionQuotes, call, chain,
               delivered, buys, restarts>>
anchorVars == <<stored, job, wait, step, batch, doing, carries, ledger, answer, crashes, reopens, lost>>
configVars == <<config, breaks>>
runVars == <<state, quote, paid, receipt, verification, tamper, registry, payload, tasks, quoted,
             bought, recorded, runs>>
progressVars == <<part, quoteVars, anchorVars, configVars, runVars>>

(* Two buyers of one quote share a settlement; the server restarts once.   *)
Buying == INSTANCE ReportQuotes WITH
  Quotes <- {"q1"}, Requests <- {"b1", "b2"}, Auths <- {"a1"}, ValidBefore <- [a \in {"a1"} |-> 3],
  QuoteTtl <- 2, MaxActiveQuotes <- 1, Attempts <- 2, FacilitatorRepeats <- TRUE,
  MaxTime <- 2, MaxRestarts <- 1, MaxBuys <- 4

(* Two receipts and a publisher that takes one job at a time.              *)
Publishing == INSTANCE AnchorPublisher WITH
  chain <- ledger,
  Receipts <- {"r1", "r2"}, Publishers <- {"p1"}, Txs <- {"t1", "t2"}, MaxAttempts <- 2,
  RetryBase <- 1, MaxRetry <- 1, BatchSize <- 1, MaxCrashes <- 1, MaxReopens <- 1,
  NoTx <- "no transaction", NoReceipt <- "no receipt"

(* Configurations that fail at most three checks, and a setting that       *)
(* breaks once.                                                            *)
Settings == INSTANCE RegistryReadiness WITH MaxBreaks <- 1

FewFail(c) ==
  Cardinality(Settings!Blockers(Settings!Checks(c)))
    + Cardinality(Settings!Blockers(Settings!ReceiptChecks(c))) <= 3
AnyConfig == CHOOSE c \in Settings!Configs : Settings!Possible(c)

(* Two quotes, of which one has a report that does not fit its root; the   *)
(* visitor asks for hashes and may press Reset.                            *)
Runs == INSTANCE EvidenceRun WITH
  sold <- bought,
  Quotes <- {"q1", "q2"}, Sound <- {"q1"},
  Facts <- [q \in {"q1", "q2"} |-> IF q = "q1" THEN "boolean" ELSE "number"],
  Resets <- TRUE, Symbols <- FALSE, MaxRuns <- 2, MaxTasks <- 2

ASSUME ProgressAssumption ==
  /\ Buying!QuotesAssumption
  /\ Settings!BreaksAssumption
  /\ Runs!EvidenceRunAssumption

----------------------------------------------------------------------------
ProgressInit ==
  /\ part \in {"buying", "publishing", "settings", "runs"}
  /\ Buying!Init
  /\ Publishing!Init
  /\ IF part = "settings" THEN Settings!Init /\ FewFail(config) ELSE config = AnyConfig /\ breaks = 0
  /\ Runs!Init
  /\ part # "publishing" => stored = {}

(* A step of the component that runs. *)
BuyingStep(A) == part = "buying" /\ A /\ UNCHANGED <<part, anchorVars, configVars, runVars>>
PublishingStep(A) == part = "publishing" /\ A /\ UNCHANGED <<part, quoteVars, configVars, runVars>>
SettingsStep(A) == part = "settings" /\ A /\ UNCHANGED <<part, quoteVars, anchorVars, runVars>>
RunsStep(A) == part = "runs" /\ A /\ UNCHANGED <<part, quoteVars, anchorVars, configVars>>

ProgressNext ==
  \/ BuyingStep(Buying!Next)
  \/ PublishingStep(Publishing!Next)
  \/ SettingsStep(Settings!Next)
  \/ RunsStep(Runs!Next)

(* The fairness of each component, for the one that runs.                  *)
ProgressFairness ==
  /\ \A r \in {"b1", "b2"} : WF_progressVars(BuyingStep(Buying!Handler(r)))
  /\ WF_progressVars(PublishingStep(Publishing!Tick))
  /\ WF_progressVars(PublishingStep(Publishing!StartBatch("p1")))
  /\ WF_progressVars(PublishingStep(Publishing!TakeJob("p1")))
  /\ WF_progressVars(PublishingStep(Publishing!EndBatch("p1")))
  /\ WF_progressVars(PublishingStep(Publishing!Submitting("p1")))
  /\ WF_progressVars(PublishingStep(Publishing!Confirming("p1")))
  /\ WF_progressVars(PublishingStep(Publishing!Reading("p1")))
  /\ WF_progressVars(SettingsStep(Settings!RepairRegistry))
  /\ WF_progressVars(SettingsStep(Settings!RepairReceipts))
  /\ \A c \in Runs!Chains : WF_progressVars(RunsStep(Runs!Timely(c)))

ProgressSpec == ProgressInit /\ [][ProgressNext]_progressVars /\ ProgressFairness

----------------------------------------------------------------------------
(* Every buy request is answered, also the ones that joined another's      *)
(* settlement, unless the process stops.                                   *)
BuysAreAnswered == Buying!BuysAreAnswered

(* Every job that is enqueued ends confirmed or failed, through back-off,  *)
(* batches of other jobs and restarts of the publisher.                    *)
JobsEnd == Publishing!JobsEnd

(* Repairing one named reason after the other leads to a bridge that can   *)
(* record decisions and receipts.                                          *)
ReasonsLeadToReady == part = "settings" => Settings!ReasonsLeadToReady

(* A run of a hash comes to its end: the deadlines of the calls it chains  *)
(* see to it.                                                              *)
RunsEnd == Runs!RunsEnd
=============================================================================
