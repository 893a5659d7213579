------------------------- MODULE RegistryReadiness -------------------------
(***************************************************************************)
(* What registry_status tells an operator of the MCP bridge: whether the   *)
(* configuration lets the bridge record decisions and receipts, and if not *)
(* what has to be repaired first.                                          *)
(***************************************************************************)
EXTENDS Naturals, FiniteSets

CONSTANT MaxBreaks      \* bound

BreaksAssumption == MaxBreaks \in Nat

Settings == {"none", "bad", "ok"}

Configs == [testnet : BOOLEAN,             \* CASPER_CHAIN_NAME, CASPER_NETWORK
            package : Settings,            \* AGENT_PAY_REGISTRY_PACKAGE_HASH
            rpc : Settings,                \* CASPER_RPC_URL: unset, silent, answering
            scriptAllowed : BOOLEAN,       \* the default one, or custom ones allowed
            scriptIsDefault : BOOLEAN,
            scriptRuns : BOOLEAN,          \* it exists and is executable
            key : Settings,                \* CASPER_SECRET_KEY_PATH
            client : BOOLEAN,              \* CASPER_CLIENT_COMMAND is found
            recorderKey : Settings \union {"the buyer's"},
            contract : Settings,           \* AGENT_PAY_REGISTRY_CONTRACT_HASH
            receiptScriptAllowed : BOOLEAN,
            receiptScriptRuns : BOOLEAN]

VARIABLES config, breaks

vars == <<config, breaks>>

Possible(c) ==
  /\ c.scriptIsDefault => c.scriptAllowed
  /\ c.recorderKey = "the buyer's" => c.key = "ok"

Init == config \in {c \in Configs : Possible(c)} /\ breaks = 0

-----------------------------------------------------------------------------
(* registryReason and the reason of a receipt's package hash.              *)
ReasonPackageSwapped(c) == IF c.package = "none" THEN "agent_pay_registry_package_hash_invalid"
                           ELSE "agent_pay_registry_package_hash_required"

ReasonPackage(c) == IF c.package = "bad" THEN "agent_pay_registry_package_hash_invalid"
                    ELSE "agent_pay_registry_package_hash_required"

(* The key file is looked for only if the script needs the client.         *)
ChecksKeyOfDefault(c) ==
  << [fails |-> ~ c.testnet, reason |-> "botchain_write_network_not_testnet"],
     [fails |-> c.package # "ok", reason |-> ReasonPackage(c)],
     [fails |-> c.rpc = "none", reason |-> "botchain_rpc_url_required"],
     [fails |-> ~ c.scriptAllowed \/ ~ c.scriptRuns,
      reason |-> "agent_pay_record_script_required"],
     [fails |-> c.scriptIsDefault /\ c.key # "ok", reason |-> "botchain_secret_key_required"],
     [fails |-> c.scriptIsDefault /\ ~ c.client, reason |-> "botchain_client_required"],
     [fails |-> c.rpc = "bad", reason |-> "botchain_rpc_status_check_failed"] >>

(* The checks of getRegistryStatus in their order, each with the reason    *)
(* registryReason gives for it.                                            *)
Checks(c) ==
  << [fails |-> ~ c.testnet, reason |-> "botchain_write_network_not_testnet"],
     [fails |-> c.package # "ok", reason |-> ReasonPackage(c)],
     [fails |-> c.rpc = "none", reason |-> "botchain_rpc_url_required"],
     [fails |-> ~ c.scriptAllowed \/ ~ c.scriptRuns,
      reason |-> "agent_pay_record_script_required"],
     [fails |-> c.key # "ok", reason |-> IF c.key = "bad" THEN "botchain_secret_key_unreadable"
                                         ELSE "botchain_secret_key_required"],
     [fails |-> c.scriptIsDefault /\ ~ c.client, reason |-> "botchain_client_required"],
     [fails |-> c.rpc = "bad", reason |-> "botchain_rpc_status_check_failed"] >>

(* The checks of getReceiptAnchorStatus, the other part of the answer.     *)
ReceiptChecks(c) ==
  << [fails |-> c.recorderKey = "none", reason |-> "registry_recorder_key_required"],
     [fails |-> c.recorderKey = "bad", reason |-> "registry_recorder_key_unreadable"],
     [fails |-> c.recorderKey = "the buyer's" /\ c.key # "none",
      reason |-> "registry_recorder_key_must_be_dedicated"],
     [fails |-> c.package # "ok", reason |-> ReasonPackage(c)],
     [fails |-> c.contract # "ok",
      reason |-> IF c.contract = "bad" THEN "agent_pay_registry_contract_hash_invalid"
                 ELSE "agent_pay_registry_contract_hash_required"],
     [fails |-> ~ c.receiptScriptAllowed, reason |-> "agent_pay_custom_record_script_not_allowed"],
     [fails |-> ~ c.receiptScriptRuns, reason |-> "agent_pay_receipt_record_script_required"] >>

Blockers(checks) == {i \in DOMAIN checks : checks[i].fails}

FirstReason(checks) ==
  IF Blockers(checks) = {} THEN "ready"
  ELSE checks[CHOOSE i \in Blockers(checks) : \A j \in Blockers(checks) : i <= j].reason

RegistryReason == FirstReason(Checks(config))
ReceiptReason == FirstReason(ReceiptChecks(config))

Status ==
  CASE RegistryReason = "ready" -> "ready"
    [] RegistryReason = "botchain_rpc_status_check_failed" -> "rpc_unavailable"
    [] OTHER -> "configuration_required"

ReceiptStatus == IF ReceiptReason = "ready" THEN "ready" ELSE "configuration_required"

PublicStatusOfRegistry == Status

(* publicRegistryStatus: what anyone may see.                              *)
PublicStatus ==
  CASE Status = "rpc_unavailable" -> "rpc_unavailable"
    [] Status = "ready" /\ ReceiptStatus = "ready" -> "ready"
    [] OTHER -> "configuration_required"

PublicReason ==
  CASE PublicStatus = "ready" -> "ready"
    [] PublicStatus = "rpc_unavailable" -> "botchain_rpc_status_check_failed"
    [] PublicStatus # "ready" /\ Status = "ready" -> "receipt_recording_configuration_required"
    [] OTHER -> "agent_pay_registry_configuration_required"

(* recordAgentPayDecision and the script it starts.                        *)
RecordIsRefused ==
  \/ ~ config.testnet
  \/ config.package # "ok"
  \/ config.rpc = "none"
  \/ config.key # "ok"
  \/ ~ config.scriptAllowed
  \/ ~ config.scriptRuns

-----------------------------------------------------------------------------
(* An operator repairs what a reason names and nothing else.               *)
Repaired(reason) ==
  CASE reason = "botchain_write_network_not_testnet" -> [config EXCEPT !.testnet = TRUE]
    [] reason = "agent_pay_registry_package_hash_required" /\ config.package = "none" ->
         [config EXCEPT !.package = "ok"]
    [] reason = "agent_pay_registry_package_hash_invalid" /\ config.package = "bad" ->
         [config EXCEPT !.package = "ok"]
    [] reason \in {"botchain_rpc_url_required", "botchain_rpc_status_check_failed"} ->
         [config EXCEPT !.rpc = "ok"]
    [] reason = "agent_pay_record_script_required" ->
         [config EXCEPT !.scriptAllowed = TRUE, !.scriptRuns = TRUE]
    [] reason \in {"botchain_secret_key_required", "botchain_secret_key_unreadable"} ->
         [config EXCEPT !.key = "ok"]
    [] reason = "botchain_client_required" -> [config EXCEPT !.client = TRUE]
    [] reason \in {"registry_recorder_key_required", "registry_recorder_key_unreadable",
                   "registry_recorder_key_must_be_dedicated"} ->
         [config EXCEPT !.recorderKey = "ok"]
    [] reason \in {"agent_pay_registry_contract_hash_required",
                   "agent_pay_registry_contract_hash_invalid"} ->
         [config EXCEPT !.contract = "ok"]
    [] reason = "agent_pay_custom_record_script_not_allowed" ->
         [config EXCEPT !.receiptScriptAllowed = TRUE]
    [] reason = "agent_pay_receipt_record_script_required" ->
         [config EXCEPT !.receiptScriptRuns = TRUE]
    [] OTHER -> config

RepairRegistry ==
  /\ RegistryReason # "ready"
  /\ config' = Repaired(RegistryReason)
  /\ UNCHANGED breaks

RepairReceipts ==
  /\ ReceiptReason # "ready"
  /\ config' = Repaired(ReceiptReason)
  /\ UNCHANGED breaks

(* A file disappears, or the node stops answering.                         *)
Break ==
  /\ breaks < MaxBreaks
  /\ breaks' = breaks + 1
  /\ \/ config.key = "ok" /\ config.recorderKey # "the buyer's"
        /\ config' = [config EXCEPT !.key = "bad"]
     \/ config.rpc = "ok" /\ config' = [config EXCEPT !.rpc = "bad"]
     \/ config.scriptRuns /\ config' = [config EXCEPT !.scriptRuns = FALSE]
     \/ config.recorderKey = "ok" /\ config' = [config EXCEPT !.recorderKey = "bad"]

Next == RepairRegistry \/ RepairReceipts \/ Break

Spec == Init /\ [][Next]_vars

(* The operator goes on repairing.                                         *)
Fairness == WF_vars(RepairRegistry) /\ WF_vars(RepairReceipts)
FairSpec == Spec /\ Fairness

-----------------------------------------------------------------------------
(* When registry_status says ready, recording a decision is not refused    *)
(* for its configuration: two functions look at the same settings in two   *)
(* orders (src/apps/mcp-server/src/botchainClient.ts:222).                 *)
ReadyIsEnough == Status = "ready" => ~ RecordIsRefused

(* The public answer is ready only if decisions and receipts can both be   *)
(* recorded, and blames the receipts only when the registry is ready       *)
(* (src/apps/mcp-server/src/app.ts:239).                                   *)
PublicStatusIsTrue ==
  /\ PublicStatus = "ready" => ~ RecordIsRefused /\ Blockers(ReceiptChecks(config)) = {}
  /\ PublicReason = "receipt_recording_configuration_required" => ~ RecordIsRefused

(* Repairing one named reason after the other leads to a bridge that can   *)
(* record decisions and receipts: no reason names a setting that is not    *)
(* the one to repair (src/apps/mcp-server/src/botchainClient.ts:362).      *)
ReasonsLeadToReady == <>[](PublicStatus = "ready")
=============================================================================
