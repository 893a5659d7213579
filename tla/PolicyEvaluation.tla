-------------------------- MODULE PolicyEvaluation --------------------------
(***************************************************************************)
(* One payment check from the seller's offer to the purchase receipt: the  *)
(* offer is normalised, the evidence about the payment asset is read over  *)
(* several RPC calls, the verdict is computed from offer, authorization,   *)
(* signed controls, totals and evidence, and after a PAY the settled       *)
(* authorization is bound into a receipt that verifies itself.             *)
(*                                                                         *)
(* What the parties supply is a record of Inputs.  Addresses and hashes    *)
(* are a value and a spelling: the code keeps, lowers or strips it.        *)
(***************************************************************************)
EXTENDS Integers, FiniteSets, Sequences

CONSTANTS
  Inputs,       \* the offers, authorizations, controls and assets considered
  Loader,       \* "node": NodeRpcClient; "any": a loader for every asset
  MaxFaults,    \* bound on the RPC calls that fail
  MaxTime,      \* bound on the clock, in seconds
  None

Spelled == [of : {"payer", "payee", "other"}, lower : BOOLEAN]
Decisions == [kind : {"pin", "deny"}, covers : BOOLEAN, expires : Nat, ceiling : Nat]
Seconds == 0..MaxTime

EvaluationAssumption ==
  /\ Loader \in {"node", "any"}
  /\ MaxFaults \in Nat
  /\ MaxTime \in Nat
  /\ None # "token"
  /\ \A i \in Inputs :
       /\ i.from \in Spelled /\ i.to \in Spelled
       /\ i.providers \in Seq(Decisions)
       /\ {i.amount, i.authorized, i.timeout, i.after, i.before} \subseteq Nat
       /\ {i.spent, i.reserved, i.active, i.window, i.maxAge, i.maxActive} \subseteq Nat
       /\ i.package \in {"ok", "gone", "notPackage", "noVersion"}
       /\ i.contract \in {"ok", "notContract", "foreign"}
       /\ i.denied \subseteq {"origin", "payee", "asset"}
       /\ i.noKey \subseteq {"name", "symbol", "decimals"}

VARIABLES
  in,        \* the input, fixed from the start
  now,
  step,      \* what the check does next
  evidence,
  faults,    \* history: the calls that failed
  decision,
  receipt

vars == <<in, now, step, evidence, faults, decision, receipt>>

Mandatory == {"package", "activeContract", "entrypoint", "name", "symbol", "decimals"}
Calls == <<"package", "contract", "name", "symbol", "decimals", "flag">>
Steps == {Calls[k] : k \in 1..Len(Calls)} \union {"normalize", "decide", "settle", "end"}
Known == {TRUE, FALSE, None}   \* what evidence says; None is the code's null

NoEvidence(t) ==
  [package |-> None, active |-> None, entrypoint |-> None, name |-> None,
   decimals |-> None, mint |-> None, flag |-> None, missing |-> {}, at |-> t]

TypeOK ==
  /\ now \in Seconds
  /\ step \in Steps
  /\ evidence # None =>
       /\ {evidence.package, evidence.active, evidence.entrypoint,
           evidence.mint, evidence.flag} \subseteq Known
       /\ evidence.name \in {"token", None}
       /\ evidence.decimals \in {in.decimals, None}
       /\ evidence.missing \subseteq Mandatory \union {"supplyControl"}
       /\ evidence.at \in Seconds
  /\ faults \subseteq Steps
  /\ decision # None => decision.verdict \in {"pay", "review", "block"} /\ decision.at \in Seconds
  /\ receipt \in {None, "built", "refused"}

Init ==
  /\ in \in Inputs
  /\ now = 0
  /\ step = "normalize"
  /\ evidence = None
  /\ faults = {}
  /\ decision = None
  /\ receipt = None

----------------------------------------------------------------------------
(* The offer and the request as the service parses them.                   *)

(* Exactly one acceptance is exact and on the testnet.                     *)
Compatible == in.accepts = "one"
ValidRequest == in.request
ValidResource == in.resource
ValidRequirement == in.requirement
ValidAuthorization == in.authorization \in {"valid", None}

ParseAccepted ==
  /\ ValidRequest
  /\ in.version = 2
  /\ ValidResource
  /\ Compatible
  /\ ValidRequirement
  /\ ValidAuthorization

(* NodeRpcClient knows package hashes of 64 digits only.                   *)
Loadable == Loader = "node" => in.asset = "package"

Normalize ==
  /\ step = "normalize"
  /\ IF ParseAccepted /\ Loadable
     THEN step' = "package" /\ evidence' = NoEvidence(now)
     ELSE step' = "end" /\ UNCHANGED evidence
  /\ UNCHANGED <<in, now, faults, decision, receipt>>

----------------------------------------------------------------------------
(* The evidence about the asset: one RPC call a step.                      *)

Following(s) == LET k == CHOOSE k \in 1..Len(Calls) : Calls[k] = s
            IN IF k = Len(Calls) THEN "decide" ELSE Calls[k + 1]

LackQuietly(e, items) == e   \* mutant: what a call would have told is not noted
Lack(e, items) == [e EXCEPT !.missing = @ \union items]
AfterPackage == (Mandatory \ {"package"}) \union {"supplyControl"}
AfterContract == AfterPackage \ {"activeContract"}

(* The answer ends the load: nothing else is asked.                        *)
StopWith(e, items) == evidence' = Lack(e, items) /\ step' = "decide"

PackageAnswer ==
  /\ step = "package"
  /\ LET gone == [evidence EXCEPT !.package = FALSE, !.entrypoint = FALSE]
         found == [evidence EXCEPT !.package = TRUE]
     IN CASE in.package \in {"gone", "notPackage"} ->
               StopWith(gone, AfterPackage \union {"package"})
          [] in.package = "noVersion" ->
               StopWith([found EXCEPT !.entrypoint = FALSE], AfterPackage)
          [] OTHER -> evidence' = [found EXCEPT !.active = TRUE] /\ step' = "contract"
  /\ UNCHANGED <<in, now, faults, decision, receipt>>

(* The entry points of the contract: nothing is known if they are unreadable. *)
Authorizes(i) == i.entries \in {"full", "mintable"}
Mintable(i) == IF i.entries = "unreadable" THEN None ELSE i.entries = "mintable"

ContractAnswer ==
  /\ step = "contract"
  /\ IF in.contract # "ok"
     THEN StopWith([evidence EXCEPT !.entrypoint = FALSE], AfterContract)
     ELSE /\ evidence' = Lack([evidence EXCEPT !.entrypoint = Authorizes(in), !.mint = Mintable(in)],
                              IF Authorizes(in) THEN {} ELSE {"entrypoint"})
          /\ step' = "name"
  /\ UNCHANGED <<in, now, faults, decision, receipt>>

MetadataAnswer ==
  /\ step \in {"name", "symbol", "decimals"}
  /\ evidence' =
       IF step \in in.noKey THEN Lack(evidence, {step})
       ELSE IF step = "name" THEN [evidence EXCEPT !.name = "token"]
       ELSE IF step = "decimals" THEN [evidence EXCEPT !.decimals = in.decimals]
       ELSE evidence
  /\ step' = Following(step)
  /\ UNCHANGED <<in, now, faults, decision, receipt>>

FlagNeeded(e) == e.flag # None   \* mutant: a token without the flag lacks evidence
SupplyKnown(e) == e.flag # None \/ e.mint # None

FlagAnswer ==
  /\ step = "flag"
  /\ LET e == [evidence EXCEPT !.flag = in.flag]
     IN evidence' = IF SupplyKnown(e) THEN e ELSE Lack(e, {"supplyControl"})
  /\ step' = "decide"
  /\ UNCHANGED <<in, now, faults, decision, receipt>>

(* Only an answer that the package is missing says it does not exist.      *)
UnreachedIsGone(e) ==   \* mutant: any failure counts as a missing package
  [e EXCEPT !.package = FALSE, !.entrypoint = FALSE]
Unreached(e) == e

(* A call times out, is answered with an error or with what cannot be read. *)
CallFails ==
  /\ step \in {Calls[k] : k \in 1..Len(Calls)}
  /\ Cardinality(faults) < MaxFaults
  /\ faults' = faults \union {step}
  /\ CASE step = "package" -> StopWith(Unreached(evidence), AfterPackage \union {"package"})
       [] step = "contract" -> StopWith(evidence, AfterContract)
       [] step = "flag" ->
            /\ evidence' = IF SupplyKnown(evidence) THEN evidence
                           ELSE Lack(evidence, {"supplyControl"})
            /\ step' = "decide"
       [] OTHER -> evidence' = Lack(evidence, {step}) /\ step' = Following(step)
  /\ UNCHANGED <<in, now, decision, receipt>>

Tick ==
  /\ now < MaxTime
  /\ step # "end"
  /\ now' = now + 1
  /\ UNCHANGED <<in, step, evidence, faults, decision, receipt>>

----------------------------------------------------------------------------
(* The verdict.  i is the input, e the evidence, t the time of decision.   *)

Reason(code, result, holds) == IF holds THEN {[code |-> code, result |-> result]} ELSE {}

AnyPin(i) ==   \* mutant: a newer denial does not hide an older pin
  LET pins == {k \in 1..Len(i.providers) : i.providers[k].covers /\ i.providers[k].kind = "pin"}
  IN IF pins = {} THEN None ELSE i.providers[CHOOSE k \in pins : TRUE]
(* The newest signed decision that covers the tuple.                       *)
ProviderDecision(i) ==
  LET covering == {k \in 1..Len(i.providers) : i.providers[k].covers}
  IN IF covering = {} THEN None
     ELSE i.providers[CHOOSE k \in covering : \A m \in covering : k <= m]

ResourceReasons(i) ==
  Reason("resource_origin_mismatch", "block", ~i.sameHost)
  \union Reason("resource_scheme_mismatch", "review",
                /\ ~i.sameScheme
                /\ ~(/\ i.policy /\ i.tolerateScheme
                     /\ ProviderDecision(i) # None /\ ProviderDecision(i).kind = "pin"))
  \union Reason("provider_tuple_changed", "review", ~i.samePath)

NeverStale(i, e, t) == FALSE   \* mutant: evidence does not age
StaleAt(i, e, t) == i.policy /\ (e.at > t \/ t - e.at > i.maxAge)

EvidenceReasons(i, e, t) ==
  Reason("asset_package_not_found", "block", e.package = FALSE)
  \union Reason("authorization_entrypoint_missing", "block", e.entrypoint = FALSE)
  \union Reason("asset_decimals_mismatch", "block",
                i.declaredDecimals # None /\ e.decimals # None /\ i.declaredDecimals # e.decimals)
  \union Reason("authorization_field_mismatch", "block", e.name # None /\ i.declaredName # e.name)
  \union Reason("evidence_unavailable", "review",
                \/ None \in {e.package, e.active, e.entrypoint, e.decimals}
                \/ e.missing # {}
                \/ StaleAt(i, e, t))

ProviderReasons(i, t) ==
  LET d == ProviderDecision(i)
  IN IF d = None THEN Reason("provider_unapproved", "review", TRUE)
     ELSE IF d.expires <= t THEN Reason("provider_unapproved", "review", TRUE)
     ELSE IF d.kind = "deny" THEN Reason("operator_denied", "block", TRUE)
     ELSE Reason("policy_per_call_exceeded", "block", i.amount > d.ceiling)

OverCapAlone(i) == i.spent + i.amount > i.cap   \* mutant: reservations are not counted
OverCap(i) == i.spent + i.reserved + i.amount > i.cap

PolicyReasons(i, t) ==
  IF ~i.policy THEN Reason("policy_cap_missing", "review", TRUE)
  ELSE Reason("policy_cap_missing", "review", i.effectiveAt > t \/ i.cap = None)
       \union Reason("operator_denied", "block",
                     (i.authorization # None /\ ~i.payerAllowed) \/ i.denied # {})
       \union Reason("policy_daily_cap_exceeded", "block",
                     (i.cap # None /\ OverCap(i)) \/ i.active >= i.maxActive)

(* A 64-digit asset is no address of the typed data: there is no digest.   *)
Digest(i) == IF i.asset = "evm" THEN i.digest ELSE None

Lower(a) == a.of
FieldsDiffer(i) ==
  \/ Lower(i.from) # "payer"
  \/ Lower(i.to) # "payee"
  \/ i.authorized # i.amount
  \/ ~i.sameAsset
  \/ i.tokenName # i.declaredName
  \/ ~i.sameVersion
  \/ Digest(i) # "computed"

Replayed(i) == i.used
NoLifetimeLimit(i, t) == FALSE   \* mutant: any remaining lifetime is accepted
LivesTooLong(i, t) == i.before - t > i.timeout

AuthorizationReasons(i, t) ==
  IF i.authorization = None THEN Reason("authorization_required", "review", TRUE)
  ELSE Reason("authorization_field_mismatch", "block",
              \/ FieldsDiffer(i)
              \/ i.policy /\ i.before - i.after > i.window
              \/ LivesTooLong(i, t))
       \union Reason("authorization_not_yet_valid", "block", i.after > t)
       \union Reason("authorization_expired", "block", i.before <= t)
       \union Reason("authorization_replay", "block", Replayed(i))

AdvisoryReasons(i, e) ==
  Reason("supply_control", "review",
         /\ i.policy /\ i.reviewAdvisories
         /\ (e.flag = TRUE \/ e.mint = TRUE))

Reasons(i, e, t) ==
  ResourceReasons(i) \union EvidenceReasons(i, e, t) \union ProviderReasons(i, t)
  \union PolicyReasons(i, t) \union AuthorizationReasons(i, t) \union AdvisoryReasons(i, e)

UnknownVerdict(reasons) == IF reasons # {} THEN "deny" ELSE "pay"   \* mutant: a new verdict
Worst(reasons) ==
  IF \E r \in reasons : r.result = "block" THEN "block"
  ELSE IF reasons # {} THEN "review" ELSE "pay"

(* The repository looks for the nonce of a check and takes bare digits only. *)
KnownNonce(i) == i.authorization # None => i.nonce = "bare"
UnreadableNonce ==
  /\ step = "decide"
  /\ ~KnownNonce(in)
  /\ step' = "end"
  /\ UNCHANGED <<in, now, evidence, faults, decision, receipt>>

Decide ==
  /\ step = "decide"
  /\ KnownNonce(in)
  /\ decision' = [verdict |-> Worst(Reasons(in, evidence, now)), at |-> now]
  /\ step' = IF decision'.verdict = "pay" THEN "settle" ELSE "end"
  /\ UNCHANGED <<in, now, evidence, faults, receipt>>

----------------------------------------------------------------------------
(* The receipt of a PAY check whose authorization was executed.            *)

Exactly(a, who) == a = [of |-> who, lower |-> TRUE]

Covered(i, t) ==
  /\ i.effectiveAt <= t
  /\ ProviderDecision(i).expires > t
  /\ i.after <= t /\ t < i.before
  /\ i.before - i.after <= i.window
  /\ i.before - t <= i.timeout

Binds(i, e, d) ==
  /\ d.verdict = "pay"
  /\ i.payerAllowed
  /\ ProviderDecision(i).kind = "pin"
  /\ ProviderDecision(i).ceiling >= i.amount
  /\ i.cap # None /\ i.cap >= i.amount
  /\ Exactly(i.from, "payer")
  /\ Exactly(i.to, "payee")
  /\ i.authorized = i.amount
  /\ i.tokenName = i.declaredName
  /\ e.package = TRUE /\ e.entrypoint = TRUE
  /\ e.name = i.declaredName
  /\ i.declaredDecimals # None => e.decimals = i.declaredDecimals
  /\ Covered(i, d.at)

(* The decoded payer is the sender of the transaction, in lower case.       *)
TransferMatches(i) ==
  /\ i.sender = "payer"
  /\ Exactly(i.to, "payee")

BuildReceipt ==
  /\ step = "settle"
  /\ receipt' = IF Binds(in, evidence, decision) /\ TransferMatches(in) THEN "built" ELSE "refused"
  /\ step' = "end"
  /\ UNCHANGED <<in, now, evidence, faults, decision>>

Done == step = "end" /\ UNCHANGED vars

Next ==
  \/ Normalize \/ PackageAnswer \/ ContractAnswer \/ MetadataAnswer \/ FlagAnswer
  \/ CallFails \/ Tick \/ UnreadableNonce \/ Decide \/ BuildReceipt \/ Done

Spec == Init /\ [][Next]_vars

----------------------------------------------------------------------------
(* Properties.                                                             *)

Paid == decision # None /\ decision.verdict = "pay"

(* A PAY was decided on what the chain really holds, over calls that all   *)
(* succeeded but for the optional mint flag, and within the freshness and  *)
(* validity windows at the moment of the decision, however long the calls  *)
(* took.                                                                   *)
PayRestsOnTheChain ==
  Paid =>
    /\ in.package = "ok" /\ in.contract = "ok" /\ Authorizes(in)
    /\ in.noKey = {} /\ in.declaredName = "token"
    /\ in.declaredDecimals \in {None, in.decimals}
    /\ faults \subseteq {"flag"}
    /\ decision.at - evidence.at <= in.maxAge
    /\ in.after <= decision.at /\ decision.at < in.before

(* An outage is no verdict on the payment: what would be paid is sent to   *)
(* review, neither paid nor blocked, when only calls failed.               *)
Outage == faults # {} /\ ~faults \subseteq {"flag"}
FullEvidence(t) ==
  [package |-> TRUE, active |-> TRUE, entrypoint |-> TRUE, name |-> "token",
   decimals |-> in.decimals, mint |-> Mintable(in), flag |-> in.flag, missing |-> {}, at |-> t]
ChainFine == in.package = "ok" /\ in.contract = "ok" /\ Authorizes(in) /\ in.noKey = {}
OutageIsReviewed ==
  (decision # None /\ Outage /\ ChainFine
     /\ Worst(Reasons(in, FullEvidence(evidence.at), decision.at)) = "pay")
    => decision.verdict = "review"

(* More spending, more reservations, a withdrawn pin or a later moment     *)
(* never make a payment more acceptable than it was.                       *)
NewestDenies(i) ==
  [i EXCEPT !.providers = <<[kind |-> "deny", covers |-> TRUE, expires |-> MaxTime + 1, ceiling |-> 0]>> \o @]
NeverMoreAcceptable ==
  Paid =>
    /\ \A s \in 0..4 : Worst(Reasons([in EXCEPT !.spent = @ + s, !.reserved = @ + 1], evidence, decision.at)) = "pay"
                         => in.cap >= in.spent + s + in.reserved + 1 + in.amount
    /\ Worst(Reasons(NewestDenies(in), evidence, decision.at)) = "block"
    /\ Worst(Reasons([in EXCEPT !.active = in.maxActive], evidence, decision.at)) = "block"
    /\ Worst(Reasons(in, evidence, in.before)) # "pay"

(* A PAY whose authorization is then executed can be proved by a receipt.  *)
PayIsProvable == receipt # "refused"

(* It can when the addresses are written the way the chain reports them    *)
(* and the payer sends the transaction.                                    *)
Canonical == in.from.lower /\ in.to.lower /\ in.sender = "payer"
CanonicalPayIsProvable == Canonical => PayIsProvable

(* Whatever the parser lets through is answered with a decision.           *)
ParsedIsAnswered == (step = "end" /\ ParseAccepted) => decision # None

(* An offer that is right in everything, on a chain that answers, is paid. *)
AcceptableIsPaid ==
  (step = "end" /\ now = 0 /\ faults = {} /\ ParseAccepted /\ ChainFine /\ KnownNonce(in)
     /\ Worst(Reasons(in, FullEvidence(0), 0)) = "pay")
    => Paid
=============================================================================
