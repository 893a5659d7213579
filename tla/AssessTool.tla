----------------------------- MODULE AssessTool -----------------------------
(***************************************************************************)
(* assess_subject and assess_account as the MCP server wires them          *)
(* (apps/mcp-server/src/tools.ts, apiClient.ts): the subject is resolved,  *)
(* the report API is asked for a quote, a local signer pays it.  Several   *)
(* calls run in one bridge process; every request has its timer.  What     *)
(* follows a paid answer is module Assessment, which each call implements. *)
(***************************************************************************)
EXTENDS Naturals, FiniteSets

CONSTANTS
  Calls,
  Roots, Datasets, Terms,
  ApiNetworks,          \* [main |-> name, test |-> name]: networks as the report API spells them
  ApiResolves,          \* the report API serves /resolve and /resolve-account
  MaxFaults,            \* bound: failed requests in a behaviour
  MaxPrice,             \* AGENT_PAY_MAX_REPORT_AMOUNT
  PriceOf,              \* [Terms -> Nat]
  None

Networks == {"botchain-mainnet", "botchain-testnet"}

NamesAssumption ==
  /\ ApiNetworks.main # ApiNetworks.test
  /\ None \notin Networks \cup {"token", "account"}

(* "account-hash" stands for public keys as well. *)
Forms == {"hex64", "hash-hex64", "account-hash", "symbol", "name", "junk"}
Tools == {"assess_subject", "assess_account"}

VARIABLES
  bridge,     \* "up" or "down": the bridge process
  call,       \* [Calls -> what is known of the call]
  signer,     \* the key file of CASPER_SECRET_KEY_PATH is there and holds a key
  faults      \* requests that failed so far

vars == <<bridge, call, signer, faults>>

Unasked == [stage |-> "unasked", tool |-> None, kind |-> None, form |-> None, named |-> None, network |-> None,
            quote |-> None, paid |-> None, outcome |-> None]

Init ==
  /\ bridge = "up"
  /\ call = [c \in Calls |-> Unasked]
  /\ signer \in BOOLEAN
  /\ faults = 0

Over(c, outcome) == call' = [call EXCEPT ![c].stage = "over", ![c].outcome = outcome]

(* assess_account reads 64 bare digits as the hash of an account. *)
NormalizePrefixedOnly(form) == form
NormalizeAccountInput(form) == IF form = "hex64" THEN "account-hash" ELSE form

Exact(form) == form \in {"hex64", "hash-hex64", "account-hash"}
KindOf(form) == IF form = "account-hash" THEN "account" ELSE "token"

Entered(tool, form) == IF tool = "assess_account" THEN NormalizeAccountInput(form) ELSE form

(* The synchronous part of resolveCheckSubject: exact identifiers pass     *)
(* through, names and symbols are looked up, anything else is refused.     *)
Ask(c, tool, form, network) ==
  /\ bridge = "up" /\ call[c] = Unasked
  /\ LET entered == Entered(tool, form)
         asked == [Unasked EXCEPT !.tool = tool, !.form = form, !.named = network, !.network = network] IN
     call' = [call EXCEPT ![c] =
       IF \/ entered = "junk"
          \/ entered = "name" /\ network = "botchain-testnet"
         THEN [asked EXCEPT !.stage = "over", !.outcome = "invalid_input"]
       ELSE IF Exact(entered)
         THEN [asked EXCEPT !.stage = "quoting", !.kind = KindOf(entered)]
         ELSE [asked EXCEPT !.stage = "resolving"]]
  /\ UNCHANGED <<bridge, signer, faults>>

(* An unknown name is a 404, which resolveCsprName reads as "unassigned";  *)
(* an unknown symbol is an error of the API.  Both live on Mainnet.        *)
Resolve(c, known) ==
  /\ bridge = "up" /\ call[c].stage = "resolving"
  /\ LET found == [call[c] EXCEPT !.stage = "quoting", !.network = "botchain-mainnet",
                     !.kind = IF call[c].form = "name" THEN "account" ELSE "token"] IN
     IF ~ (ApiResolves /\ known)
       THEN Over(c, IF call[c].form = "name" THEN "invalid_input" ELSE "upstream")
     ELSE IF call[c].network \in {None, "botchain-mainnet"}
       THEN call' = [call EXCEPT ![c] = found]
       ELSE Over(c, "invalid_input")
  /\ UNCHANGED <<bridge, signer, faults>>

(* The report API reads a subject as parseSubject does and a network by    *)
(* the names it knows; without one it takes its own default.               *)
ApiKnows(network) == network \in {ApiNetworks.main, ApiNetworks.test}

ApiQuote(c, root, dataset, terms) ==
  [network |-> IF call[c].network = None THEN ApiNetworks.test ELSE call[c].network,
   root |-> root, dataset |-> dataset, terms |-> terms]

AcceptsQuote(c, quote) ==
  /\ quote.network \in Networks
  /\ call[c].network \in {None, quote.network}

Quote(c, root, dataset, terms) ==
  /\ bridge = "up" /\ call[c].stage = "quoting"
  /\ LET quote == ApiQuote(c, root, dataset, terms) IN
     IF call[c].network # None /\ ~ ApiKnows(call[c].network) THEN Over(c, "upstream")
     ELSE IF AcceptsQuote(c, quote)
       THEN call' = [call EXCEPT ![c].stage = "signing", ![c].quote = quote]
       ELSE Over(c, "internal")
  /\ UNCHANGED <<bridge, signer, faults>>

(* The key file is missing, unreadable or no key, or the quote offers no   *)
(* terms: the call ends with an answer of its own.                         *)
CannotSign(c) ==
  /\ bridge = "up" /\ call[c].stage = "signing"
  /\ ~signer \/ call[c].quote.terms = None
  /\ Over(c, IF signer THEN "internal" ELSE "not_configured")
  /\ UNCHANGED <<bridge, signer, faults>>

(* buildX402PaymentSignature is an async function whose promise is          *)
(* destructured: paymentPayload is undefined, whatever was signed.          *)
PaymentPayload(quote) == None

WithinPolicy(terms) == PriceOf[terms] <= MaxPrice

Sign(c) ==
  /\ bridge = "up" /\ call[c].stage = "signing"
  /\ signer /\ call[c].quote.terms # None
  /\ WithinPolicy(call[c].quote.terms)
  /\ call' = [call EXCEPT ![c].stage = "buying"]
  /\ UNCHANGED <<bridge, signer, faults>>

(* A spend policy that refuses rejects that promise, which nobody handles: *)
(* the process ends, and with it every call it was serving.                *)
UnhandledRejectionRetried(c) ==
  /\ bridge = "up" /\ call[c].stage = "signing"
  /\ signer /\ call[c].quote.terms # None /\ ~ WithinPolicy(call[c].quote.terms)
  /\ bridge' = "down"
  /\ call' = [d \in Calls |->
       IF call[d].stage \in {"unasked", "over"} THEN call[d] ELSE [call[d] EXCEPT !.stage = "quoting"]]
  /\ UNCHANGED <<signer, faults>>
UnhandledRejection(c) ==
  /\ bridge = "up" /\ call[c].stage = "signing"
  /\ signer /\ call[c].quote.terms # None
  /\ ~ WithinPolicy(call[c].quote.terms)
  /\ bridge' = "down"
  /\ call' = [d \in Calls |->
       IF call[d].stage \in {"unasked", "over"} THEN call[d]
       ELSE [call[d] EXCEPT !.stage = "over", !.outcome = "lost"]]
  /\ UNCHANGED <<signer, faults>>

Restart ==
  /\ bridge = "down"
  /\ bridge' = "up"
  /\ UNCHANGED <<call, signer, faults>>

(* What the API sells for a quote it settled; one leaf stands for all. *)
Leaf(network) ==
  [family |-> "account_identity", network |-> network, own |-> TRUE, proven |-> TRUE]

Report(quote) ==
  [network |-> quote.network, root |-> quote.root, dataset |-> quote.dataset,
   terms |-> quote.terms, executed |-> TRUE, receipt |-> TRUE, evidence |-> {Leaf(quote.network)}]

(* Without a PAYMENT-SIGNATURE header the answer is 402. *)
BuyWhenSigned(c) ==
  /\ bridge = "up" /\ call[c].stage = "buying"
  /\ PaymentPayload(call[c].quote) # None
  /\ call' = [call EXCEPT ![c].stage = "paid", ![c].paid = Report(call[c].quote)]
  /\ UNCHANGED <<bridge, signer, faults>>
Buy(c) ==
  /\ bridge = "up" /\ call[c].stage = "buying"
  /\ IF PaymentPayload(call[c].quote) = None
       THEN Over(c, "payment_required")
       ELSE call' = [call EXCEPT ![c].stage = "paid", ![c].paid = Report(call[c].quote)]
  /\ UNCHANGED <<bridge, signer, faults>>

(* A request ends by its timer, a refused connection, a redirect, a body   *)
(* too large or malformed: requestJson turns each into a 502 of the call.  *)
Waiting(c) == call[c].stage \in {"resolving", "quoting", "buying"}

RequestFailsRaw(c) ==
  /\ bridge = "up" /\ Waiting(c) /\ faults < MaxFaults
  /\ faults' = faults + 1
  /\ Over(c, "timeout")
  /\ UNCHANGED <<bridge, signer>>
RequestFails(c) ==
  /\ bridge = "up" /\ Waiting(c) /\ faults < MaxFaults
  /\ faults' = faults + 1
  /\ Over(c, "upstream")
  /\ UNCHANGED <<bridge, signer>>

Step(c) ==
  \/ \E known \in BOOLEAN : Resolve(c, known)
  \/ \E root \in Roots, dataset \in Datasets, terms \in Terms \cup {None} : Quote(c, root, dataset, terms)
  \/ CannotSign(c)
  \/ Sign(c)
  \/ UnhandledRejection(c)
  \/ Buy(c)

Next ==
  \/ \E c \in Calls, tool \in Tools, form \in Forms, network \in Networks \cup {None} :
       Ask(c, tool, form, network)
  \/ \E c \in Calls : Step(c) \/ RequestFails(c)
  \/ Restart

(* The API answers, or the timer of the request does. *)
Fairness == \A c \in Calls : WF_vars(Step(c)) /\ WF_vars(Restart)

Spec == Init /\ [][Next]_vars
FairSpec == Spec /\ Fairness
-----------------------------------------------------------------------------
TypeOK ==
  /\ bridge \in {"up", "down"}
  /\ signer \in BOOLEAN /\ faults \in 0..MaxFaults
  /\ \A c \in Calls :
       /\ call[c].stage \in {"unasked", "resolving", "quoting", "signing", "buying", "paid", "over"}
       /\ call[c].tool \in Tools \cup {None}
       /\ call[c].kind \in {"token", "account", None}
       /\ call[c].form \in Forms \cup {None}
       /\ {call[c].named, call[c].network} \subseteq Networks \cup {None}
       /\ call[c].quote = None \/ call[c].quote \in
            [network : Networks, root : Roots, dataset : Datasets, terms : Terms \cup {None}]
       /\ call[c].paid = None \/ call[c].paid = Report(call[c].quote)
       /\ call[c].outcome \in {"invalid_input", "upstream", "internal", "not_configured",
                               "payment_required", "lost", None}

(* Each call, as assess.ts sees it. *)
AssessmentPhase(c) ==
  CASE call[c].stage \in {"unasked", "resolving"} -> "idle"
    [] call[c].stage = "over" /\ call[c].kind = None -> "idle"
    [] call[c].stage = "quoting" -> "quoting"
    [] call[c].stage \in {"signing", "buying"} -> "settling"
    [] call[c].stage = "paid" -> "verifying"
    [] OTHER -> "failed"

AssessmentOf(c) == INSTANCE Assessment WITH
  OtherNetworks <- {ApiNetworks.main, ApiNetworks.test} \ Networks,
  phase <- AssessmentPhase(c),
  request <- IF call[c].kind = None THEN None
             ELSE [kind |-> call[c].kind, network |-> call[c].network],
  quote <- call[c].quote,
  Evidence <- {{Leaf(network)} : network \in Networks},
  paid <- call[c].paid,
  unchecked <- IF call[c].stage = "paid" THEN call[c].paid.evidence ELSE {},
  recorded <- None

(* Every call of the tools is an assessment: what happens to one call, to  *)
(* the process or to the API is a step or a stutter of assessSubject.      *)
CallsAreAssessments ==
  [][\A c \in Calls :
       /\ call[c] = Unasked => AssessmentOf(c)!Init
       /\ UNCHANGED AssessmentOf(c)!vars \/ AssessmentOf(c)!Next]_vars

(* A name or a symbol is never read on Testnet, and 64 bare digits given   *)
(* as an account never buy the evidence of a token (resolveCheckSubject,   *)
(* normalizeAccountInput, and the raw identifier that is forwarded).       *)
SubjectKeepsItsMeaning ==
  \A c \in Calls : call[c].quote # None =>
    /\ call[c].form \in {"name", "symbol"} => call[c].quote.network = "botchain-mainnet"
    /\ call[c].named \in {None, call[c].quote.network}
    /\ \/ call[c].form \in {"account-hash", "name"}
       \/ call[c].tool = "assess_account" /\ call[c].form = "hex64"
       <=> call[c].kind = "account"

(* Whatever the API does, whatever another call does to the process, the   *)
(* caller gets an end: a request has a timer, a lost process is restarted. *)
CallsEnd == \A c \in Calls : call[c].stage # "unasked" ~> call[c].stage = "over"

(* docs/agents/SKILL.md: "Resolve, quote, pay, verify, score, and record    *)
(* a token or account check in one call": a quote that is signed is paid.  *)
AssessmentsPay == \A c \in Calls : call[c].stage = "buying" ~> call[c].stage = "paid"

(* The bridge offers both networks (tools.ts: evidenceNetwork), so a quote *)
(* for one of them is had.                                                 *)
QuotesAreHad == \A c \in Calls : call[c].stage = "quoting" ~> call[c].stage = "signing"

(* docs/live-capabilities.md: resolving a CSPR.name account is "Live on     *)
(* Mainnet": what is known and asked for on Mainnet is found.              *)
NamesResolve ==
  [][\A c \in Calls : Resolve(c, TRUE) =>
       call[c].network = "botchain-testnet" \/ call'[c].stage = "quoting"]_vars
=============================================================================
