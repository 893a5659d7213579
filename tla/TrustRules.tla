----------------------------- MODULE TrustRules -----------------------------
(***************************************************************************)
(* The deterministic policies that turn the facts of a paid report into an *)
(* aspect and a decision, for tokens and for accounts.  A step of this     *)
(* module changes one fact, so that action properties compare the verdicts *)
(* on two sets of facts.                                                   *)
(***************************************************************************)
EXTENDS Integers, FiniteSets

CONSTANTS
  YoungBlocks, YoungAccountBlocks, DustMotes,
  Junk,         \* a fact of another type than the one expected
  Null

TrustRulesAssumption ==
  /\ {YoungBlocks, YoungAccountBlocks, DustMotes} \subseteq Nat \ {0}
  /\ Junk # Null
  /\ Junk \notin BOOLEAN \cup Int /\ Null \notin BOOLEAN \cup Int

(* The values a fact is given here, from the safest to the riskiest.       *)
TokenRisk ==
  [mintBurnEnabled |-> <<FALSE, TRUE>>, publicMintEntrypoint |-> <<FALSE, TRUE>>,
   holderCount |-> <<2, 1>>, topHolderPct |-> <<94, 95>>,
   contractAgeBlocks |-> <<YoungBlocks, YoungBlocks - 1>>, lpHolderCount |-> <<2, 1>>]

AccountRisk ==
  [exists |-> <<TRUE, FALSE>>, balanceMotes |-> <<DustMotes, DustMotes - 1>>,
   associatedKeyCount |-> <<1, 2>>, deploymentThreshold |-> <<2, 1>>,
   keyManagementThreshold |-> <<2, 1>>, ageBlocks |-> <<YoungAccountBlocks, YoungAccountBlocks - 1>>]

RiskOf(k) == IF k = "token" THEN TokenRisk ELSE AccountRisk

Given(risk) == {risk[1], risk[2], Junk, Null}

TokenFacts ==
  [mintBurnEnabled : Given(TokenRisk.mintBurnEnabled),
   publicMintEntrypoint : Given(TokenRisk.publicMintEntrypoint),
   holderCount : Given(TokenRisk.holderCount), topHolderPct : Given(TokenRisk.topHolderPct),
   contractAgeBlocks : Given(TokenRisk.contractAgeBlocks),
   lpHolderCount : Given(TokenRisk.lpHolderCount)]

AccountFacts ==
  [exists : Given(AccountRisk.exists), balanceMotes : Given(AccountRisk.balanceMotes),
   associatedKeyCount : Given(AccountRisk.associatedKeyCount),
   deploymentThreshold : Given(AccountRisk.deploymentThreshold),
   keyManagementThreshold : Given(AccountRisk.keyManagementThreshold),
   ageBlocks : Given(AccountRisk.ageBlocks)]

VARIABLES kind, facts

vars == <<kind, facts>>

Init ==
  \/ kind = "token" /\ facts \in TokenFacts
  \/ kind = "account" /\ facts \in AccountFacts

-----------------------------------------------------------------------------
(* subjectSignalsFromFacts, accountSignalsFromFacts                        *)
Signals == [n \in DOMAIN facts |-> IF facts[n] = Junk THEN Null ELSE facts[n]]

Known(x) == x # Null

When(condition, code) == IF condition THEN {code} ELSE {}

TokenDangers(s) ==
  When(s.mintBurnEnabled = TRUE, "cep18_mint_burn_enabled")
  \union When(s.lpHolderCount = 1, "single_lp_holder")
  \union When(s.holderCount = 1 \/ (IF Known(s.topHolderPct) THEN s.topHolderPct >= 95 ELSE FALSE),
              "holder_concentration")

TokenCautions(s) ==
  When(s.mintBurnEnabled = Null /\ s.publicMintEntrypoint = TRUE, "public_mint_entrypoint")
  \union When(IF Known(s.contractAgeBlocks) THEN s.contractAgeBlocks < YoungBlocks ELSE FALSE,
              "very_new_contract")

(* Supply control is taken for checked.                                    *)
TokenNotCheckedEither(s) ==
  {n \in {"contractAgeBlocks", "holderCount", "topHolderPct"} : s[n] = Null}

TokenNotChecked(s) ==
  {n \in {"contractAgeBlocks", "holderCount", "topHolderPct"} : s[n] = Null}
  \union When(s.mintBurnEnabled = Null /\ s.publicMintEntrypoint = Null, "supplyControl")

TokenPassed(s) ==
  When(s.mintBurnEnabled = FALSE, "mint and burn disabled")
  \union When(s.mintBurnEnabled # FALSE /\ s.publicMintEntrypoint = FALSE, "no public mint")
  \union When(IF Known(s.contractAgeBlocks) THEN s.contractAgeBlocks >= YoungBlocks ELSE FALSE,
              "old enough")
  \union When(IF Known(s.holderCount) /\ Known(s.topHolderPct)
              THEN s.holderCount > 1 /\ s.topHolderPct < 95 ELSE FALSE, "not concentrated")

AccountDangers(s) == When(s.exists = FALSE, "account_not_found")

ManyKeys(s) == IF Known(s.associatedKeyCount) THEN s.associatedKeyCount > 1 ELSE FALSE

(* The age is compared the wrong way round.                                *)
AccountCautionsSwapped(s) ==
  When(ManyKeys(s) /\ IF Known(s.keyManagementThreshold) THEN s.keyManagementThreshold <= 1 ELSE FALSE,
       "weak_key_management")
  \union When(IF Known(s.balanceMotes) THEN s.balanceMotes < DustMotes ELSE FALSE, "dust_balance")
  \union When(IF Known(s.ageBlocks) THEN s.ageBlocks >= YoungAccountBlocks ELSE FALSE, "very_new_account")

AccountCautions(s) ==
  When(ManyKeys(s) /\ IF Known(s.keyManagementThreshold) THEN s.keyManagementThreshold <= 1 ELSE FALSE,
       "weak_key_management")
  \union When(IF Known(s.balanceMotes) THEN s.balanceMotes < DustMotes ELSE FALSE, "dust_balance")
  \union When(IF Known(s.ageBlocks) THEN s.ageBlocks < YoungAccountBlocks ELSE FALSE, "very_new_account")

AccountNotChecked(s) ==
  {n \in {"exists", "balanceMotes", "associatedKeyCount", "deploymentThreshold",
          "keyManagementThreshold"} : s[n] = Null}

AccountPassed(s) ==
  When(s.exists = TRUE, "exists")
  \union When(IF Known(s.balanceMotes) THEN s.balanceMotes >= DustMotes ELSE FALSE, "balance")
  \union When(s.associatedKeyCount = 1, "one key")
  \union When(ManyKeys(s) /\ IF Known(s.keyManagementThreshold) THEN s.keyManagementThreshold > 1 ELSE FALSE,
              "several keys needed")

Dangers(s) == IF kind = "token" THEN TokenDangers(s) ELSE AccountDangers(s)
Cautions(s) == IF kind = "token" THEN TokenCautions(s) ELSE AccountCautions(s)
NotChecked(s) == IF kind = "token" THEN TokenNotChecked(s) ELSE AccountNotChecked(s)
Passed(s) == IF kind = "token" THEN TokenPassed(s) ELSE AccountPassed(s)

(* A clean check weighs against a flag.                                    *)
DecisionByBalance(s) ==
  IF Dangers(s) # {} /\ Cardinality(Passed(s)) < 3 THEN "rejected"
  ELSE IF Cautions(s) \union NotChecked(s) # {} THEN "needs_review"
  ELSE "approved"

Decision(s) ==
  IF Dangers(s) # {} THEN "rejected"
  ELSE IF Cautions(s) \union NotChecked(s) # {} THEN "needs_review"
  ELSE "approved"

-----------------------------------------------------------------------------
(* A check is made after all, with whatever result.                        *)
Learn(fact) ==
  /\ Signals[fact] = Null
  /\ \E i \in DOMAIN RiskOf(kind)[fact] : facts' = [facts EXCEPT ![fact] = RiskOf(kind)[fact][i]]
  /\ UNCHANGED kind

(* A check could not be made this time.                                    *)
Forget(fact) ==
  /\ Signals[fact] # Null
  /\ facts' = [facts EXCEPT ![fact] = Null]
  /\ UNCHANGED kind

(* A measured fact is measured again and is riskier.                       *)
Worsen(fact) ==
  /\ Known(Signals[fact])
  /\ Signals[fact] = RiskOf(kind)[fact][1]
  /\ facts' = [facts EXCEPT ![fact] = RiskOf(kind)[fact][2]]
  /\ UNCHANGED kind

Next == \E fact \in DOMAIN facts : Learn(fact) \/ Forget(fact) \/ Worsen(fact)

Spec == Init /\ [][Next]_vars

-----------------------------------------------------------------------------
Rank(d) == CASE d = "approved" -> 0 [] d = "needs_review" -> 1 [] d = "rejected" -> 2

(* A subject is never judged better because one of its facts got worse:    *)
(* no threshold or exception of one rule undoes another                    *)
(* (src/packages/agent-pay-core/src/trust/rules.ts:23).                    *)
RiskNeverHelps ==
  [][(\E fact \in DOMAIN facts : Worsen(fact)) =>
       Rank(Decision(Signals')) >= Rank(Decision(Signals))]_vars

(* What is known to be dangerous stays rejected whatever else is found     *)
(* out: a later clean check cannot take a hard failure back                *)
(* (src/packages/agent-pay-core/src/trust/rules.ts:60).                    *)
DangerIsFinal ==
  [][(\E fact \in DOMAIN facts : Learn(fact)) =>
       (Decision(Signals) = "rejected" => Decision(Signals') = "rejected")]_vars

(* A verdict is approved only with a clean, listed result for every        *)
(* mandatory check: a check that could not be made, or was answered with   *)
(* another type, is never taken for a pass                                 *)
(* (src/packages/agent-pay-core/src/trust/accountRules.ts:10).             *)
ApprovedIsEarned ==
  Decision(Signals) = "approved" =>
     Cardinality(Passed(Signals)) >= 3
=============================================================================
