----------------------------- MODULE MCEvidence -----------------------------
(***************************************************************************)
(* What the report API finds out and decides, on small instances: the      *)
(* probe of an x402 resource, the evaluation of a payment on chain         *)
(* evidence, the evidence about an account, the trust rules, and the       *)
(* Merkle proofs of a dataset.  Each behaviour runs one of them and leaves *)
(* the others as they started: the states are those of each alone.         *)
(***************************************************************************)
EXTENDS X402Probe, TLC

CONSTANTS
  four, six, private, name,   \* two public addresses, a private one, a host name
  Offers, Loader, MaxFaults, MaxTime,                 \* PolicyEvaluation
  Attempts, DustMotes, MaxChanges,                    \* AccountEvidence
  YoungBlocks, YoungAccountBlocks, Null, Junk,        \* TrustRules
  Evidence, MaxLeaves, MaxProof                       \* MerkleDataset

VARIABLES
  part,                                           \* the component that runs
  in, clock, evaluation, evidence, faults, decision, receipt, \* PolicyEvaluation
  account, lookup, attempt, found, seen, changes, \* AccountEvidence
  subject, facts,                                 \* TrustRules
  dataset, record, proof, current                 \* MerkleDataset

evaluationVars == <<in, clock, evaluation, evidence, faults, decision, receipt>>
accountVars == <<account, lookup, attempt, found, seen, changes>>
ruleVars == <<subject, facts>>
proofVars == <<dataset, record, proof, current>>
evidenceVars == <<part, vars, evaluationVars, accountVars, ruleVars, proofVars>>

----------------------------------------------------------------------------
(* One name, a public address of each family and a private one.            *)
Url(s, h, c) == [scheme |-> s, host |-> h, clean |-> c]
MCUrls == {Url("https", name, TRUE), Url("http", name, TRUE), Url("ftp", name, TRUE),
           Url("https", name, FALSE), Url("https", private, TRUE), Url("https", six, TRUE)}
MCFamily == (six :> 6) @@ [a \in {four, private} |-> 4]
MCAnswers == {<<>>, <<six, four>>, <<four>>, <<six, private>>, <<private>>, <<six, four, six>>}

(* A payment that is right in everything, and all that differ from it in   *)
(* at most two fields.                                                     *)
Written(who) == [of |-> who, lower |-> TRUE]
Mixed(who) == [of |-> who, lower |-> FALSE]
Signed(kind, covers, expires, ceiling) ==
  [kind |-> kind, covers |-> covers, expires |-> expires, ceiling |-> ceiling]
Pin == Signed("pin", TRUE, 9, 2)
Deny == Signed("deny", TRUE, 9, 2)

Good ==
  [request |-> TRUE, version |-> 2, resource |-> TRUE, accepts |-> "one", requirement |-> TRUE,
   asset |-> "evm", amount |-> 2, sameHost |-> TRUE, sameScheme |-> TRUE, samePath |-> TRUE,
   declaredDecimals |-> 6, declaredName |-> "token", timeout |-> 4,
   authorization |-> "valid", payerAllowed |-> TRUE, from |-> Written("payer"),
   to |-> Written("payee"), authorized |-> 2, sameAsset |-> TRUE, tokenName |-> "token",
   sameVersion |-> TRUE, digest |-> "computed", after |-> 0, before |-> 3,
   nonce |-> "bare", used |-> FALSE, sender |-> "payer",
   policy |-> TRUE, effectiveAt |-> 0, cap |-> 4, spent |-> 1, reserved |-> 1, active |-> 0,
   maxActive |-> 1, denied |-> {}, window |-> 4, maxAge |-> 1, reviewAdvisories |-> FALSE,
   tolerateScheme |-> TRUE, providers |-> <<Pin>>,
   package |-> "ok", contract |-> "ok", entries |-> "full", noKey |-> {},
   flag |-> None, decimals |-> 6]

(* What else a field may hold. *)
Others ==
  [f \in DOMAIN Good |->
     CASE f \in {"request", "resource", "requirement", "sameHost", "sameScheme", "samePath",
                 "payerAllowed", "sameAsset", "sameVersion", "policy", "tolerateScheme"} -> {FALSE}
       [] f = "version" -> {1}
       [] f = "accepts" -> {"none", "two"}
       [] f = "asset" -> {"package"}
       [] f = "declaredDecimals" -> {9, None}
       [] f = "declaredName" -> {"other"}
       [] f = "authorization" -> {"invalid", None}
       [] f = "from" -> {Mixed("payer"), Written("other")}
       [] f = "to" -> {Mixed("payee"), Written("other")}
       [] f \in {"authorized", "effectiveAt", "after", "active"} -> {1}
       [] f = "tokenName" -> {"other"}
       [] f = "digest" -> {"wrong"}
       [] f = "before" -> {1, 5}
       [] f = "nonce" -> {"0x"}
       [] f = "used" -> {TRUE}
       [] f = "sender" -> {"relayer"}
       [] f = "cap" -> {None, 3}
       [] f \in {"spent", "reserved"} -> {2}
       [] f = "denied" -> {{"origin"}, {"payee"}, {"asset"}}
       [] f = "window" -> {2, 6}
       [] f \in {"reviewAdvisories"} -> {TRUE}
       [] f = "entries" -> {"mintable", "other", "unreadable"}
       [] f = "providers" ->
            {<<>>, <<Deny, Pin>>, <<Pin, Deny>>, <<Signed("deny", FALSE, 9, 2), Pin>>,
             <<Signed("pin", TRUE, 1, 2)>>, <<Signed("pin", TRUE, 9, 1)>>}
       [] f = "package" -> {"gone", "notPackage", "noVersion"}
       [] f = "contract" -> {"notContract", "foreign"}
       [] f = "noKey" -> {{"name"}, {"symbol"}, {"decimals"}}
       [] f = "flag" -> {TRUE, FALSE}
       [] OTHER -> {}]

Deviating ==
  UNION {{[Good EXCEPT ![f] = v] : v \in Others[f] \union {Good[f]}} : f \in DOMAIN Good}
MCOffers ==
  UNION {UNION {{[i EXCEPT ![f] = v] : v \in Others[f] \union {Good[f]}} : f \in DOMAIN Good} : i \in Deviating}

(* Up to three records, and a stranger to the dataset. *)
MCRecords == <<"a", "b", "c", "stranger">>

Evaluation == INSTANCE PolicyEvaluation WITH now <- clock, step <- evaluation, Inputs <- Offers

Lookup == INSTANCE AccountEvidence WITH step <- lookup, facts <- found

Rules == INSTANCE TrustRules WITH kind <- subject

Proofs == INSTANCE MerkleDataset

ASSUME EvidenceAssumption ==
  /\ Evaluation!EvaluationAssumption /\ Lookup!AccountEvidenceAssumption
  /\ Rules!TrustRulesAssumption /\ Proofs!MerkleDatasetAssumption

----------------------------------------------------------------------------
EvidenceInit ==
  /\ part \in {"probe", "evaluation", "account", "rules", "proofs"}
  /\ Init
  /\ part # "evaluation" => in = Good
  /\ Evaluation!Init
  /\ Lookup!Init
  /\ part # "account" => account = Lookup!Absent
  /\ IF part = "rules" THEN Rules!Init ELSE subject = "token" /\ facts = <<>>
  /\ IF part = "proofs" THEN Proofs!Init
     ELSE dataset = <<>> /\ record = None /\ proof = <<>> /\ current = None

EvidenceNext ==
  \/ /\ part = "probe" /\ Next
     /\ UNCHANGED <<part, evaluationVars, accountVars, ruleVars, proofVars>>
  \/ /\ part = "evaluation" /\ Evaluation!Next
     /\ UNCHANGED <<part, vars, accountVars, ruleVars, proofVars>>
  \/ /\ part = "account" /\ Lookup!Next
     /\ UNCHANGED <<part, vars, evaluationVars, ruleVars, proofVars>>
  \/ /\ part = "rules" /\ Rules!Next
     /\ UNCHANGED <<part, vars, evaluationVars, accountVars, proofVars>>
  \/ /\ part = "proofs" /\ Proofs!Next
     /\ UNCHANGED <<part, vars, evaluationVars, accountVars, ruleVars>>

EvidenceSpec == EvidenceInit /\ [][EvidenceNext]_evidenceVars

----------------------------------------------------------------------------
(* A PAY was decided on what the chain really holds, over calls that       *)
(* succeeded, within the freshness and validity windows at the moment of   *)
(* the decision, however long the calls took; and an account is approved   *)
(* only when it existed, with keys and a balance the chain held while it   *)
(* was looked up ("never a false CLEAR",                                   *)
(* src/apps/report-api/src/accountEvidence.ts:22).                         *)
AnswersRestOnTheChain == Evaluation!PayRestsOnTheChain /\ Lookup!NoFalseClear

(* A subject is never judged better because one of its facts got worse.    *)
RiskNeverHelps == Rules!RiskNeverHelps

(* No steps, however they are put together from hashes of the tree, prove  *)
(* a record the dataset does not hold, and the built ones prove every one. *)
OnlyRecordsVerify == part = "proofs" => Proofs!OnlyRecordsVerify /\ Proofs!BuiltProofsVerify
============================================================================
