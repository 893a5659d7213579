----------------------------- MODULE MCRegistry -----------------------------
(***************************************************************************)
(* What is recorded on the registry contract, on small instances: receipt  *)
(* anchors, the receipts and shares they belong to, and the decisions the  *)
(* MCP bridge records.  They share no state here, so each behaviour runs   *)
(* one of them and leaves the others as they started.                      *)
(***************************************************************************)
EXTENDS AnchorPublisher, TLC

CONSTANTS
  \* Purchase receipts and their shares.
  Checks, Observations, Payments, Pays, Workers, Publishing, Shares, ShareTtl,
  LastShareTime, MaxReissues, NoCheck,
  \* Decision records.
  Reports, Decisions, DecisionOf, Calls, TtlMs, MaxCapabilities, Tries, RegistryHash,
  LastBridgeTime, MaxBuys, MaxSent, MaxRestarts,
  None

VARIABLES
  part,                                               \* the component that runs
  now, settled, observation, receipt, receiptJob, writing, share, reissues,
  told, savedBy, revocations,                         \* Receipts
  bridgeNow, capabilities, recording, registry, bought, answers, restarts \* DecisionRecords

receiptVars == <<now, settled, observation, receipt, receiptJob, writing, share, reissues,
                 told, savedBy, revocations>>
recordVars == <<bridgeNow, capabilities, recording, registry, bought, answers, restarts>>
registryVars == <<part, vars, receiptVars, recordVars>>

Issuing == INSTANCE Receipts WITH
  job <- receiptJob, call <- writing, reopens <- reissues, answers <- told,
  Txs <- Payments, MaxTime <- LastShareTime, MaxReopens <- MaxReissues

Recording == INSTANCE DecisionRecords WITH
  now <- bridgeNow, call <- recording, chain <- registry,
  Attempts <- Tries, MaxTime <- LastBridgeTime

ASSUME RegistryAssumption == Issuing!ReceiptsAssumption /\ Recording!DecisionRecordsAssumption

(* The payment "p1" is the one check "c1" approved, "p2" pays somebody else. *)
MCPays == [p \in Payments |-> IF p = "p1" THEN "c1" ELSE NoCheck]
MCDecisionOf == [r \in Reports |-> "approved"]

(* The components run alone and may share names: what one of them calls by  *)
(* these may be exchanged.                                                 *)
Symmetry == UNION {Permutations(S) : S \in {Receipts, Txs, Calls}}

----------------------------------------------------------------------------
RegistryInit ==
  /\ part \in {"anchors", "receipts", "records"}
  /\ Init
  /\ Issuing!Init
  /\ Recording!Init
  /\ part # "anchors" => stored = {}

RegistryNext ==
  \/ part = "anchors" /\ Next /\ UNCHANGED <<part, receiptVars, recordVars>>
  \/ part = "receipts" /\ Issuing!Next /\ UNCHANGED <<part, vars, recordVars>>
  \/ part = "records" /\ Recording!Next /\ UNCHANGED <<part, vars, receiptVars>>

RegistrySpec == RegistryInit /\ [][RegistryNext]_registryVars

----------------------------------------------------------------------------
(* A receipt is of the payment its check approved, one observation of a    *)
(* check is accepted, by whichever worker and in whichever race, repeating *)
(* it is never refused, and of two revocations of a share one is done.     *)
ReceiptsAgree == Issuing!ReceiptsAgree

(* No more records of a report are ever under way than it was paid for,    *)
(* what they record is the decision derived from it, and a purchase is not *)
(* left claimed by a request that has ended.                               *)
RecordsAreBought ==
  Recording!InFlightNeedsPurchase /\ Recording!RecordIsWhatWasPaid /\ Recording!PendingHasOwner
=============================================================================
