----------------------------- MODULE Assessment -----------------------------
(***************************************************************************)
(* One assessment of the MCP bridge (apps/mcp-server/src/trust/assess.ts): *)
(* quote, pay, verify every leaf, apply the policy of the subject's kind,  *)
(* record the decision.  The five dependencies are injected, so each of    *)
(* them may answer anything, truthful or not, or throw.  A leaf says of    *)
(* itself whether it belongs to the paid dataset ("own") and whether the   *)
(* verifier will vouch for it ("proven").                                  *)
(***************************************************************************)
EXTENDS FiniteSets

CONSTANTS
  Roots, Datasets,      \* dataset roots and identifiers
  Terms,                \* amount, asset and network of a payment
  OtherNetworks,        \* names that are not names of a network to the bridge
  Evidence,             \* the sets of leaves a purchase may return
  None

Networks == {"botchain-mainnet", "botchain-testnet"}
Kinds == {"token", "account"}

Families == [token   |-> {"token_authority", "token_holders", "token_age"},
             account |-> {"account_identity", "account_control", "account_balance"}]

Leaves == [family : Families["token"] \cup Families["account"],
           network : Networks, own : BOOLEAN, proven : BOOLEAN]

ASSUME EvidenceAssumption == Evidence \subseteq SUBSET Leaves

Requests == [kind : Kinds, network : Networks \cup {None}]

Quotes == [network : Networks \cup OtherNetworks,
           root : Roots \cup {None}, dataset : Datasets, terms : Terms \cup {None}]

(* A paid answer; empty evidence stands for all that requireEvidence       *)
(* refuses: none, too much, malformed.                                     *)
PaidAnswers ==
  [network : Networks \cup OtherNetworks,
   root : Roots \cup {None}, dataset : Datasets \cup {None}, terms : Terms \cup {None},
   executed : BOOLEAN, receipt : BOOLEAN, evidence : Evidence]

VARIABLES
  phase,      \* where assessSubject stands
  request,    \* what the caller asked for
  quote,      \* the accepted quote
  paid,       \* the answer of the purchase, accepted or not
  unchecked,  \* leaves deps.verify has still to vouch for
  recorded    \* what deps.record was given

vars == <<phase, request, quote, paid, unchecked, recorded>>

Phases == {"idle", "quoting", "settling", "verifying", "recording", "done", "failed"}

Init ==
  /\ phase = "idle"
  /\ request = None /\ quote = None /\ paid = None /\ recorded = None
  /\ unchecked = {}

(* A subject parseSubject refuses ends the call before anything is asked. *)
Begin(r) ==
  /\ phase = "idle"
  /\ phase' = "quoting"
  /\ request' = r
  /\ UNCHANGED <<quote, paid, unchecked, recorded>>

QuoteOfAnyNetwork(q) == q.network \in Networks
QuoteIsAcceptable(q) ==
  /\ q.network \in Networks
  /\ request.network \in {None, q.network}

Quoted(q) ==
  /\ phase = "quoting"
  /\ IF QuoteIsAcceptable(q)
       THEN phase' = "settling" /\ quote' = q
       ELSE phase' = "failed" /\ UNCHANGED quote
  /\ UNCHANGED <<request, paid, unchecked, recorded>>

PurchaseMatchesButDataset(p) ==
  /\ p.evidence # {} /\ p.receipt /\ p.executed
  /\ p.root # None /\ p.root = quote.root
  /\ p.network \in Networks /\ p.network = quote.network
  /\ p.terms # None /\ p.terms = quote.terms
PurchaseMatches(p) ==
  /\ p.evidence # {}
  /\ p.root # None /\ p.root = quote.root
  /\ p.receipt
  /\ p.network \in Networks /\ p.network = quote.network
  /\ p.executed
  /\ p.terms # None /\ p.terms = quote.terms
  /\ p.dataset # None /\ p.dataset = quote.dataset

(* The money is spent whatever the checks of the answer conclude. *)
Settled(p) ==
  /\ phase = "settling"
  /\ paid' = p
  /\ IF PurchaseMatches(p)
       THEN phase' = "verifying" /\ unchecked' = p.evidence
       ELSE phase' = "failed" /\ UNCHANGED unchecked
  /\ UNCHANGED <<request, quote, recorded>>

LeafHolds(leaf) == leaf.own /\ leaf.proven

Verified(leaf) ==
  /\ phase = "verifying" /\ leaf \in unchecked
  /\ IF LeafHolds(leaf)
       THEN phase' = phase /\ unchecked' = unchecked \ {leaf}
       ELSE phase' = "failed" /\ UNCHANGED unchecked
  /\ UNCHANGED <<request, quote, paid, recorded>>

EvidenceOfAnyNetwork == Families[request.kind] \subseteq {leaf.family : leaf \in paid.evidence}
EvidenceSuffices ==
  /\ \A leaf \in paid.evidence : leaf.network = quote.network
  /\ Families[request.kind] \subseteq {leaf.family : leaf \in paid.evidence}

(* Scoring is deterministic in the evidence and the kind; the narrator's   *)
(* words enter the report that is hashed, never the decision.              *)
Decision == [policy |-> request.kind, evidence |-> paid.evidence]

Score ==
  /\ phase = "verifying" /\ unchecked = {}
  /\ phase' = IF EvidenceSuffices THEN "recording" ELSE "failed"
  /\ UNCHANGED <<request, quote, paid, unchecked, recorded>>

(* deps.record wrote; its answer may still be no transaction hash. *)
Record ==
  /\ phase = "recording"
  /\ recorded' = [dataset |-> paid.dataset, root |-> paid.root, decision |-> Decision]
  /\ phase' \in {"done", "failed"}
  /\ UNCHANGED <<request, quote, paid, unchecked>>

(* A dependency throws: the call rejects and nothing further is asked. *)
Throws ==
  /\ phase \in {"quoting", "settling", "verifying", "recording"}
  /\ phase' = "failed"
  /\ UNCHANGED <<request, quote, paid, unchecked, recorded>>

Next ==
  \/ \E r \in Requests : Begin(r)
  \/ \E q \in Quotes : Quoted(q)
  \/ \E p \in PaidAnswers : Settled(p)
  \/ \E leaf \in Leaves : Verified(leaf)
  \/ Score
  \/ Record
  \/ Throws

Spec == Init /\ [][Next]_vars
-----------------------------------------------------------------------------
TypeOK ==
  /\ phase \in Phases
  /\ request \in Requests \cup {None}
  /\ quote \in Quotes \cup {None}
  /\ paid = None \/ paid \in PaidAnswers
  /\ unchecked \subseteq Leaves
  /\ recorded = None \/ recorded \in
       [dataset : Datasets, root : Roots,
        decision : [policy : Kinds, evidence : Evidence]]

(* What reaches the registry was earned on the whole way: the decision is  *)
(* that of the policy of the subject's kind on evidence every leaf of      *)
(* which was vouched for, read on the network asked for, of every family,  *)
(* out of the very dataset that was quoted and whose quoted price was      *)
(* executed (assess.ts: steps 2 to 9).                                     *)
RecordIsEarned ==
  recorded # None =>
    /\ recorded.decision = Decision
    /\ Families[request.kind] \subseteq {leaf.family : leaf \in paid.evidence}
    /\ \A leaf \in paid.evidence :
         /\ leaf.own /\ leaf.proven
         /\ request.network \in {None, leaf.network}
    /\ paid.executed /\ paid.terms = quote.terms
    /\ recorded.dataset = quote.dataset /\ recorded.root = quote.root

(* Money is spent only on a quote for the network the caller named: the    *)
(* comparison stands before the payment, not among the checks after it     *)
(* (assess.ts: quote evidence network).                                    *)
SpentOnWhatWasAsked ==
  paid # None =>
    /\ quote.network \in Networks
    /\ request.network \in {None, quote.network}
=============================================================================
