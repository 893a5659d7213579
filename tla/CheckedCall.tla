----------------------------- MODULE CheckedCall ----------------------------
(***************************************************************************)
(* The checked x402 call of the client (packages/agent-pay-client/src/     *)
(* checkedCall.ts): ask the service, have AgentPay judge the charge, sign, *)
(* pay, poll the settlement, report the response.  Several attempts run at *)
(* once, some of them retries under one idempotency key.  The service may  *)
(* answer anything and may submit a signed authorization at any later      *)
(* time; any answer may be lost; AgentPay may be replaced by a party whose *)
(* answers to a check are false.                                           *)
(***************************************************************************)
EXTENDS Naturals, FiniteSets

CONSTANTS
  Attempts,       \* runs of checkedX402Call
  StableKey,      \* an idempotency key the caller passes to several attempts
  Terms,          \* payment terms a service may ask for
  Foreign,        \* an acceptance of another scheme or network
  Malformed,      \* a compatible acceptance with a field out of its form
  MaxPolls,       \* settlementAttempts
  MaxFaults,      \* bound: requests that fail or whose answer is lost
  MaxLies,        \* bound: false answers to a check
  None

ASSUME PollsAssumption == MaxPolls \in Nat \ {0}

Keys == Attempts \cup {StableKey}       \* without a key, a random one
Verdicts == {"pay", "review", "block"}

(* An authorization names its terms and a nonce drawn by the attempt; its  *)
(* digest and its transaction are one to one with it.                      *)
Authorizations == [terms : Terms, nonce : Attempts]

(* What AgentPay says of a check: the authorization, what it binds, and    *)
(* the authorization its decision is about.                                *)
Answers == [auth : Authorizations, digest : Authorizations, bound : Terms,
            decided : Authorizations, verdict : Verdicts]

ASSUME NoneAssumption == None \notin Answers

Unstarted == [stage |-> "unstarted", key |-> None, terms |-> None, check |-> None,
              hash |-> None, polls |-> 0]

VARIABLES
  call,       \* [Attempts -> what the attempt knows]
  checks,     \* AgentPay: [Keys -> None or the check made under the key]
  settled,    \* AgentPay: authorizations it found settled
  receipts,   \* AgentPay: authorizations whose response was reported
  signed,     \* authorizations the signer signed, with their keys
  chain,      \* authorizations the token contract executed
  faults, lies

vars == <<call, checks, settled, receipts, signed, chain, faults, lies>>

Init ==
  /\ call = [a \in Attempts |-> Unstarted]
  /\ checks = [k \in Keys |-> None]
  /\ settled = {} /\ receipts = {} /\ signed = {} /\ chain = {}
  /\ faults = 0 /\ lies = 0

Intent(a) == [terms |-> call[a].terms, nonce |-> a]
Goes(a, stage) == call' = [call EXCEPT ![a].stage = stage]

(* The body is prepared, the clock read, the service asked. *)
Start(a, key) ==
  /\ call[a] = Unstarted
  /\ key \in {a, StableKey}
  /\ call' = [call EXCEPT ![a].stage = "asking", ![a].key = key]
  /\ UNCHANGED <<checks, settled, receipts, signed, chain, faults, lies>>

Acceptances == Terms \cup {Foreign, Malformed}
Offers == UNION {[1..n -> Acceptances] : n \in 0..2}

(* normalizePaymentRequired: of what is offered exactly one acceptance is  *)
(* compatible, and it is well formed.                                      *)
NormalizedTerms(offer) ==
  LET compatible == {i \in DOMAIN offer : offer[i] # Foreign} IN
  IF Cardinality(compatible) # 1 THEN None
  ELSE LET accepted == offer[CHOOSE i \in compatible : TRUE] IN
       IF accepted = Malformed THEN None ELSE accepted

(* A 402 with terms that normalize to one supported acceptance goes on;    *)
(* anything else ends the call before AgentPay hears of it.                *)
Challenged(a, offer) ==
  /\ call[a].stage = "asking"
  /\ IF NormalizedTerms(offer) = None THEN Goes(a, "failed")
     ELSE call' = [call EXCEPT ![a].stage = "checking", ![a].terms = NormalizedTerms(offer)]
  /\ UNCHANGED <<checks, settled, receipts, signed, chain, faults, lies>>

(* A true answer. *)
Answer(auth, verdict) ==
  [auth |-> auth, digest |-> auth, bound |-> auth.terms, decided |-> auth, verdict |-> verdict]

(* verifyCheckBinding *)
BindsDigestOnly(a, answer) == answer.digest = Intent(a)
Binds(a, answer) ==
  /\ answer.digest = Intent(a)
  /\ answer.auth = Intent(a)
  /\ answer.bound = call[a].terms
  /\ answer.decided = Intent(a) \/ answer.verdict # "pay"

Consider(a, answer) ==
  IF Binds(a, answer) /\ answer.verdict = "pay"
    THEN call' = [call EXCEPT ![a].stage = "signing", ![a].check = answer]
    ELSE Goes(a, "failed")

CheckOverwrites(a, verdict) ==
  /\ call[a].stage = "checking"
  /\ checks' = [checks EXCEPT ![call[a].key] = Answer(Intent(a), verdict)]
  /\ Consider(a, Answer(Intent(a), verdict))
  /\ UNCHANGED <<settled, receipts, signed, chain, faults, lies>>

(* AgentPay judges once per key: the same submission is answered from the  *)
(* record, another one under the key is a conflict.                        *)
Check(a, verdict) ==
  /\ call[a].stage = "checking"
  /\ LET key == call[a].key
         fresh == checks[key] = None
         record == IF fresh THEN Answer(Intent(a), verdict) ELSE checks[key] IN
     /\ ~fresh => verdict = record.verdict
     /\ checks' = [checks EXCEPT ![key] = record]
     /\ IF record.auth = Intent(a) THEN Consider(a, record) ELSE Goes(a, "failed")
  /\ UNCHANGED <<settled, receipts, signed, chain, faults, lies>>

(* A false answer, of a broken or another service. *)
FalseCheck(a, auth, digest, decided, bound) ==
  /\ call[a].stage = "checking" /\ lies < MaxLies
  /\ lies' = lies + 1
  /\ Consider(a, [auth |-> auth, digest |-> digest, bound |-> bound,
                  decided |-> decided, verdict |-> "pay"])
  /\ UNCHANGED <<checks, settled, receipts, signed, chain, faults>>

Sign(a) ==
  /\ call[a].stage = "signing"
  /\ signed' = signed \cup {[key |-> call[a].key, auth |-> Intent(a)]}
  /\ Goes(a, "paying")
  /\ UNCHANGED <<checks, settled, receipts, chain, faults, lies>>

(* Whoever holds a signed authorization may have it executed, once, before *)
(* or long after the service answers.                                      *)
Execute(auth) ==
  /\ auth \in {s.auth : s \in signed} \ chain
  /\ chain' = chain \cup {auth}
  /\ UNCHANGED <<call, checks, settled, receipts, signed, faults, lies>>

(* The paid answer names a transaction, its own or another, or none.       *)
Paid(a, hash) ==
  /\ call[a].stage = "paying"
  /\ IF hash = None THEN Goes(a, "failed")
     ELSE call' = [call EXCEPT ![a].stage = "polling", ![a].hash = hash]
  /\ UNCHANGED <<checks, settled, receipts, signed, chain, faults, lies>>

VerdictOfAnyTransfer(a, hash) == IF hash \in chain THEN "match" ELSE "unverifiable"
SettlementVerdict(a, hash) ==
  IF hash \notin chain THEN "unverifiable" ELSE IF hash = Intent(a) THEN "match" ELSE "mismatch"

PollOneMore(a) ==
  /\ call[a].stage = "polling"
  /\ LET verdict == SettlementVerdict(a, call[a].hash) IN
     /\ settled' = IF verdict = "match" THEN settled \cup {Intent(a)} ELSE settled
     /\ call' = [call EXCEPT
          ![a].polls = @ + 1,
          ![a].stage = IF verdict = "match" THEN "observing"
                       ELSE IF verdict = "mismatch" \/ call[a].polls = MaxPolls THEN "failed"
                       ELSE "polling"]
  /\ UNCHANGED <<checks, receipts, signed, chain, faults, lies>>
PollUncounted(a) ==
  /\ call[a].stage = "polling"
  /\ LET verdict == SettlementVerdict(a, call[a].hash) IN
     /\ settled' = IF verdict = "match" THEN settled \cup {Intent(a)} ELSE settled
     /\ call' = [call EXCEPT ![a].stage = CASE verdict = "match" -> "observing"
                         [] verdict = "mismatch" -> "failed"
                         [] OTHER -> "polling"]
  /\ UNCHANGED <<checks, receipts, signed, chain, faults, lies>>

(* pollSettlement: a match ends it well, a mismatch or the last attempt    *)
(* ends it.                                                                *)
Poll(a) ==
  /\ call[a].stage = "polling"
  /\ LET verdict == SettlementVerdict(a, call[a].hash) IN
     /\ settled' = IF verdict = "match" THEN settled \cup {Intent(a)} ELSE settled
     /\ call' = [call EXCEPT
          ![a].polls = @ + 1,
          ![a].stage = IF verdict = "match" THEN "observing"
                       ELSE IF verdict = "mismatch" \/ call[a].polls + 1 = MaxPolls THEN "failed"
                       ELSE "polling"]
  /\ UNCHANGED <<checks, receipts, signed, chain, faults, lies>>

(* The response is returned only with the receipt of its observation. *)
Observe(a) ==
  /\ call[a].stage = "observing"
  /\ receipts' = receipts \cup {Intent(a)}
  /\ Goes(a, "returned")
  /\ UNCHANGED <<checks, settled, signed, chain, faults, lies>>

Waiting(a) == call[a].stage \in {"asking", "checking", "paying", "polling", "observing"}

(* A request is not delivered, times out, or is answered beyond its limit: *)
(* the call rejects, whatever its stage.                                   *)
RequestFails(a) ==
  /\ Waiting(a) /\ faults < MaxFaults
  /\ faults' = faults + 1
  /\ Goes(a, "failed")
  /\ UNCHANGED <<checks, settled, receipts, signed, chain, lies>>

(* AgentPay did what was asked of it, and the answer is lost. *)
AnswerLost(a) ==
  /\ call[a].stage \in {"checking", "polling", "observing"} /\ faults < MaxFaults
  /\ faults' = faults + 1
  /\ \/ /\ call[a].stage = "checking" /\ checks[call[a].key] = None
        /\ \E verdict \in Verdicts :
             checks' = [checks EXCEPT ![call[a].key] = Answer(Intent(a), verdict)]
        /\ UNCHANGED <<settled, receipts>>
     \/ /\ call[a].stage = "polling" /\ SettlementVerdict(a, call[a].hash) = "match"
        /\ settled' = settled \cup {Intent(a)}
        /\ UNCHANGED <<checks, receipts>>
     \/ /\ call[a].stage = "observing"
        /\ receipts' = receipts \cup {Intent(a)}
        /\ UNCHANGED <<checks, settled>>
  /\ Goes(a, "failed")
  /\ UNCHANGED <<signed, chain, lies>>

Step(a) ==
  \/ \E offer \in Offers : Challenged(a, offer)
  \/ \E verdict \in Verdicts : Check(a, verdict)
  \/ Sign(a)
  \/ \E hash \in Authorizations \cup {None} : Paid(a, hash)
  \/ Poll(a)
  \/ Observe(a)

Next ==
  \/ \E a \in Attempts, key \in Keys : Start(a, key)
  \/ \E a \in Attempts : Step(a) \/ RequestFails(a) \/ AnswerLost(a)
  \/ \E a \in Attempts, auth, digest, decided \in Authorizations, bound \in Terms :
       FalseCheck(a, auth, digest, decided, bound)
  \/ \E auth \in Authorizations : Execute(auth)

(* Every request of a call is answered or ended by its timer. *)
Fairness == \A a \in Attempts : WF_vars(Step(a))

Spec == Init /\ [][Next]_vars
FairSpec == Spec /\ Fairness
-----------------------------------------------------------------------------
TypeOK ==
  /\ \A a \in Attempts :
       /\ call[a].stage \in {"unstarted", "asking", "checking", "signing", "paying",
                             "polling", "observing", "returned", "failed"}
       /\ call[a].key \in Keys \cup {None}
       /\ call[a].terms \in Terms \cup {None}
       /\ call[a].hash \in Authorizations \cup {None}
       /\ call[a].polls \in 0..MaxPolls
  /\ settled \cup receipts \cup chain \subseteq Authorizations
  /\ signed \subseteq [key : Keys, auth : Authorizations]
  /\ faults \in 0..MaxFaults /\ lies \in 0..MaxLies

(* As long as AgentPay's answers are true, one authorization is signed per *)
(* key, however often a call is retried at once or one after the other,    *)
(* and whatever answers are lost (the nonce is new in every attempt, so    *)
(* the key is all that AgentPay can tell a retry by).                      *)
OnePaymentPerTrueKey ==
  lies = 0 => \A k \in Keys : Cardinality({s \in signed : s.key = k}) <= 1

(* What is charged was approved: the answer the attempt acted on said pay, *)
(* and of this very authorization, however false the answers were          *)
(* (verifyCheckBinding before signAuthorizationIntent).                    *)
ChargedWasApproved ==
  \A auth \in chain :
    LET answer == call[auth.nonce].check IN
    /\ answer # None
    /\ answer.verdict = "pay"
    /\ answer.auth = auth /\ answer.decided = auth /\ answer.bound = auth.terms

(* A response reaches the caller only when the authorization of this very  *)
(* attempt was charged and its receipt exists, whichever transaction the   *)
(* service named.                                                          *)
ReturnedIsSettled ==
  \A a \in Attempts : call[a].stage = "returned" =>
    Intent(a) \in chain \cap settled \cap receipts

(* A call returns or fails: polling is bounded, requests have timers. *)
CallsEnd ==
  \A a \in Attempts : call[a].stage = "asking" ~> call[a].stage \in {"returned", "failed"}
=============================================================================
