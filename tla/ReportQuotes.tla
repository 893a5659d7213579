---------------------------- MODULE ReportQuotes ----------------------------
(***************************************************************************)
(* Quotes for evidence reports and their sale through an x402 facilitator  *)
(* (the report API): the bounded maps of quotes and of settled             *)
(* transactions, the settlement a quote shares between the requests that   *)
(* carry the same payment, and the confirmation on the chain.              *)
(*                                                                         *)
(* One process, one thread: a handler runs without interruption up to its  *)
(* next await.  Maps and requests are lost when the process restarts.  A   *)
(* quote id holds a random or time-based dataset id, so a quote and its    *)
(* snapshot object are the same thing here.                                *)
(***************************************************************************)
EXTENDS Integers, Sequences, FiniteSets, BoundedMap

CONSTANTS
  Quotes,           \* quote ids, each used once
  Auths,            \* signed transfer authorizations; one has one transaction
  ValidBefore,      \* when an authorization stops being usable on the chain
  Requests,         \* buy requests that can be open at once
  QuoteTtl,         \* AGENT_PAY_QUOTE_TTL_SECONDS
  MaxActiveQuotes,  \* AGENT_PAY_MAX_ACTIVE_QUOTES
  Attempts,         \* CASPER_CONFIRMATION_ATTEMPTS
  FacilitatorRepeats, \* a second /settle of an authorization names its transaction
  MaxTime, MaxRestarts, MaxBuys,   \* bounds
  None

(* A payment names the quote's resource URL; the signature does not cover it. *)
Payments == [resource : Quotes, auth : Auths]
Owning == [quote : Quotes, payment : Payments,
           step : {"verify", "settle", "confirm"}, attempt : 0..Attempts]
Joining == [owner : Requests]

QuotesAssumption ==
  /\ ValidBefore \in [Auths -> Nat]
  /\ {QuoteTtl, MaxActiveQuotes, Attempts} \subseteq Nat \ {0}
  /\ FacilitatorRepeats \in BOOLEAN
  /\ {MaxTime, MaxRestarts, MaxBuys} \subseteq Nat
  /\ None \notin Requests \union Payments \union Owning \union Joining

VARIABLES
  now,
  priced,      \* when a quote ends; set before its readiness check is awaited
  building,    \* the priced quotes whose readiness check is still awaited
  quotes,      \* the map of active quotes, quote id -> snapshot
  sold,        \* snapshot.settlement of every quote ever held
  pending,     \* snapshot.pendingSettlement: the request that owns it
  settledTransactionQuotes,
  call,        \* what a buy request is awaiting
  chain,       \* transaction of an authorization: none, sent, executed, failed
  delivered,   \* history: reports released, and the transaction each rests on
  buys, restarts

snapshots == <<priced, building, quotes, sold, pending>>
vars == <<now, snapshots, settledTransactionQuotes, call, chain, delivered, buys, restarts>>

TypeOK ==
  /\ now \in 0..MaxTime
  /\ priced \in [Quotes -> Nat \union {None}]
  /\ building \subseteq Quotes
  /\ \A i \in DOMAIN quotes :
       /\ quotes[i].key \in Quotes
       /\ quotes[i].value \in [expiresAt : Nat, payable : BOOLEAN]
  /\ sold \in [Quotes -> Payments \union {None}]
  /\ pending \in [Quotes -> Requests \union {None}]
  /\ \A i \in DOMAIN settledTransactionQuotes :
       settledTransactionQuotes[i] \in [key : Auths, value : Quotes]
  /\ Len(quotes) <= MaxActiveQuotes
  /\ Len(settledTransactionQuotes) <= MaxActiveQuotes
  /\ call \in [Requests -> Owning \union Joining \union {None}]
  /\ chain \in [Auths -> {"none", "sent", "executed", "failed"}]
  /\ delivered \subseteq [quote : Quotes, auth : Auths]

Init ==
  /\ now = 0
  /\ priced = [q \in Quotes |-> None]
  /\ building = {}
  /\ quotes = <<>>
  /\ sold = [q \in Quotes |-> None]
  /\ pending = [q \in Quotes |-> None]
  /\ settledTransactionQuotes = <<>>
  /\ call = [r \in Requests |-> None]
  /\ chain = [a \in Auths |-> "none"]
  /\ delivered = {}
  /\ buys = 0
  /\ restarts = 0

-----------------------------------------------------------------------------
(* Expiry and the two maps *)

Expired == {q \in KeysOf(quotes) : Get(quotes, q).expiresAt <= now}

(* removeSettlementMapping for every quote of Q. *)
Unmapped(Q) ==
  Without(settledTransactionQuotes,
          {a \in KeysOf(settledTransactionQuotes) :
             LET q == Get(settledTransactionQuotes, a)
             IN  q \in Q /\ sold[q] # None /\ sold[q].auth = a})

PruneExpiredQuotes ==
  /\ quotes' = Without(quotes, Expired)
  /\ settledTransactionQuotes' = Unmapped(Expired)

-----------------------------------------------------------------------------
(* GET /reports/quote *)

RequestQuote(q) ==
  /\ priced[q] = None
  /\ PruneExpiredQuotes
  /\ priced' = [priced EXCEPT ![q] = now + QuoteTtl]
  /\ building' = building \union {q}
  /\ UNCHANGED <<now, sold, pending, call, chain, delivered, buys, restarts>>

(* The readiness check decides whether the quote can be paid.  The oldest  *)
(* quote makes room, settled or not.                                       *)
OfferQuote(q, payable) ==
  /\ q \in building
  /\ building' = building \ {q}
  /\ quotes' = SetBounded(quotes, q, [expiresAt |-> priced[q], payable |-> payable],
                          MaxActiveQuotes)
  /\ settledTransactionQuotes' = Unmapped(Evicted(quotes, q, MaxActiveQuotes))
  /\ UNCHANGED <<now, priced, sold, pending, call, chain, delivered, buys, restarts>>

-----------------------------------------------------------------------------
(* POST /reports/buy *)

(* The quote a request is about once expired quotes are gone; the answer    *)
(* quote_expired needs the clock to move between two lines of the handler.  *)
Active(q) == q \in KeysOf(quotes) \ Expired

Bound(q, p) == p.resource = q

(* Requests settle on their own. *)
JoinsNever(q, p) == FALSE

(* A second request waits for the settlement the first one started. *)
Joins(q, p) == pending[q] # None /\ call[pending[q]].payment = p

(* A second payment does not wait for the first. *)
InProgressNever(q, p) == FALSE

InProgress(q, p) == pending[q] # None /\ call[pending[q]].payment # p

(* The answers that settle nothing: invalid_quote, payment required, no     *)
(* payment signature, quote_already_settled, quote_settlement_in_progress.  *)
TurnedAway(q, p) ==
  \/ ~Active(q)
  \/ ~Get(quotes, q).payable
  \/ p = None
  \/ sold[q] \notin {None, p}
  \/ sold[q] = None /\ InProgress(q, p)

(* settleX402Payment refuses a payload that is not for this quote, or whose *)
(* authorization has run out, before it calls anybody.                      *)
Unusable(q, p) == ~Bound(q, p) \/ ValidBefore[p.auth] <= now

Deliver(q, p) == delivered' = delivered \union {[quote |-> q, auth |-> p.auth]}

Start(r, q, p) ==
  /\ pending' = [pending EXCEPT ![q] = r]
  /\ call' = [call EXCEPT ![r] = [quote |-> q, payment |-> p, step |-> "verify", attempt |-> 0]]

Buy(r, q, p) ==
  /\ call[r] = None
  /\ buys < MaxBuys
  /\ buys' = buys + 1
  /\ PruneExpiredQuotes
  /\ IF TurnedAway(q, p) THEN UNCHANGED <<pending, call, delivered>>
     ELSE IF sold[q] = p THEN Deliver(q, p) /\ UNCHANGED <<pending, call>>
     ELSE /\ UNCHANGED delivered
          /\ IF Joins(q, p)
               THEN /\ call' = [call EXCEPT ![r] = [owner |-> pending[q]]]
                    /\ UNCHANGED pending
               ELSE IF Unusable(q, p) THEN UNCHANGED <<pending, call>> ELSE Start(r, q, p)
  /\ UNCHANGED <<now, priced, building, sold, chain, restarts>>

Settling(r, step) == call[r] # None /\ "step" \in DOMAIN call[r] /\ call[r].step = step

(* Only the owner is told. *)
AwaitingAlone(r) == {r}

(* The owner of the settlement and every request that joined it. *)
Awaiting(r) == {r} \union {j \in Requests : call[j] = [owner |-> r]}

(* The settlement that failed stays with the quote. *)
ReleasedNever(r) == pending

Released(r) == [pending EXCEPT ![call[r].quote] = IF @ = r THEN None ELSE @]

(* The promise settles: all that await it answer, the owner clears it. A   *)
(* refusal is answered as payment required, another failure as a 502.      *)
Resolve(r) ==
  /\ call' = [j \in Requests |-> IF j \in Awaiting(r) THEN None ELSE call[j]]
  /\ pending' = Released(r)

Fail(r) ==
  /\ Resolve(r)
  /\ UNCHANGED <<sold, settledTransactionQuotes, delivered>>

Proceed(r, step, attempt) ==
  /\ call' = [call EXCEPT ![r].step = step, ![r].attempt = attempt]
  /\ UNCHANGED <<sold, pending, settledTransactionQuotes, delivered>>

(* POST /verify: an explicit yes, anything else, or no answer in time. *)
Verify(r) ==
  /\ Settling(r, "verify")
  /\ \/ Proceed(r, "settle", 0)
     \/ Fail(r)
  /\ UNCHANGED <<now, priced, building, quotes, chain, buys, restarts>>

(* POST /settle.  The transfer may be sent although the answer is lost. *)
Settle(r) ==
  /\ Settling(r, "settle")
  /\ LET a == call[r].payment.auth
         sends == chain[a] = "none" /\ now < ValidBefore[a]
     IN  \/ /\ sends
            /\ chain' = [chain EXCEPT ![a] = "sent"]
            /\ Proceed(r, "confirm", 0) \/ Fail(r)
         \/ /\ chain[a] # "none" /\ FacilitatorRepeats
            /\ Proceed(r, "confirm", 0)
            /\ UNCHANGED chain
         \/ /\ Fail(r)
            /\ UNCHANGED chain
  /\ UNCHANGED <<now, priced, building, quotes, buys, restarts>>

(* A transaction the node knows is taken for an executed one. *)
KnownIsMatch(a) == IF chain[a] = "failed" THEN "mismatch" ELSE "match"

(* What compareSettlement says of the transaction the node returns. *)
Verdict(a) ==
  CASE chain[a] = "executed" -> "match"
    [] chain[a] = "failed" -> "mismatch"
    [] OTHER -> "pending"

LookAgain(r) ==
  LET n == call[r].attempt + 1
  IN  IF n < Attempts THEN Proceed(r, "confirm", n) ELSE Fail(r)

Duplicate(q, a) == Holds(settledTransactionQuotes, a) /\ Get(settledTransactionQuotes, a) # q

(* completeQuoteSettlement after the confirmation. *)
Complete(r) ==
  LET q == call[r].quote
      p == call[r].payment
  IN  IF Duplicate(q, p.auth)
        THEN Fail(r)
        ELSE /\ Resolve(r)
             /\ sold' = [sold EXCEPT ![q] = p]
             /\ settledTransactionQuotes' =
                  SetBounded(settledTransactionQuotes, p.auth, q, MaxActiveQuotes)
             /\ Deliver(q, p)

(* One attempt of confirmPaymentSettlement; the lookup may fail. *)
Confirm(r) ==
  /\ Settling(r, "confirm")
  /\ LET a == call[r].payment.auth
     IN  \/ Verdict(a) = "match" /\ Complete(r)
         \/ Verdict(a) = "mismatch" /\ Fail(r)
         \/ Verdict(a) = "pending" /\ LookAgain(r)
         \/ LookAgain(r)
  /\ UNCHANGED <<now, priced, building, quotes, chain, buys, restarts>>

-----------------------------------------------------------------------------
(* The chain, the clock, the process *)

Execute(a) ==
  /\ chain[a] = "sent"
  /\ \E end \in {"executed", "failed"} : chain' = [chain EXCEPT ![a] = end]
  /\ UNCHANGED <<now, snapshots, settledTransactionQuotes, call, delivered, buys, restarts>>

Tick ==
  /\ now < MaxTime
  /\ now' = now + 1
  /\ UNCHANGED <<snapshots, settledTransactionQuotes, call, chain, delivered, buys, restarts>>

Restart ==
  /\ restarts < MaxRestarts
  /\ restarts' = restarts + 1
  /\ building' = {}
  /\ quotes' = <<>>
  /\ sold' = [q \in Quotes |-> None]
  /\ pending' = [q \in Quotes |-> None]
  /\ settledTransactionQuotes' = <<>>
  /\ call' = [r \in Requests |-> None]
  /\ UNCHANGED <<now, priced, chain, delivered, buys>>

Handler(r) == Verify(r) \/ Settle(r) \/ Confirm(r)

Next ==
  \/ \E q \in Quotes : RequestQuote(q)
  \/ \E q \in Quotes, payable \in BOOLEAN : OfferQuote(q, payable)
  \/ \E r \in Requests, q \in Quotes, p \in Payments \union {None} : Buy(r, q, p)
  \/ \E r \in Requests : Handler(r)
  \/ \E a \in Auths : Execute(a)
  \/ Tick
  \/ Restart

(* Every outgoing call has a timeout and the attempts are limited, so a     *)
(* request that awaits one goes on.                                         *)
Fairness == \A r \in Requests : WF_vars(Handler(r))

Spec == Init /\ [][Next]_vars /\ Fairness

-----------------------------------------------------------------------------
(* Properties *)

(* A report is released only for a transfer that was executed, whoever     *)
(* asked for it and however often (the confirmation, its repetitions and   *)
(* the requests that share one settlement).                                *)
DeliveredIsPaid == \A d \in delivered : chain[d.auth] = "executed"

(* A settlement in progress belongs to a request that is still working on  *)
(* exactly that quote: otherwise the quote answers "in progress" for ever. *)
PendingIsAlive ==
  \A q \in Quotes : pending[q] # None =>
    /\ \E step \in {"verify", "settle", "confirm"} : Settling(pending[q], step)
    /\ call[pending[q]].quote = q

(* Both: a report is released only for a transfer that was executed, and a *)
(* quote whose settlement is in progress has a request that works on it.   *)
ReportsArePaid == DeliveredIsPaid /\ PendingIsAlive

(* No transfer leaves a buyer for a quote that was already sold: requests  *)
(* that race share one settlement, and later ones get the stored answer.   *)
SoldQuoteChargesNobody ==
  [][\A r \in Requests :
       Settling(r, "settle") /\ sold[call[r].quote] # None => UNCHANGED chain]_vars

(* Every buy request is answered, also the ones that joined another's      *)
(* settlement, unless the process stops.                                   *)
BuysAreAnswered == \A r \in Requests : call[r] # None ~> call[r] = None

-----------------------------------------------------------------------------
(* What a test and the web client say *)

(* "does not release a second quote with a reused Bot Chain settlement     *)
(* transaction hash", apps/report-api/test/handlers.test.ts:708.           *)
TransactionSellsOnce ==
  \A d1 \in delivered, d2 \in delivered : d1.auth = d2.auth => d1.quote = d2.quote

(* "Zadper rejected this payment. Request a fresh quote and try again.",   *)
(* apps/web/src/lib/friendly-errors.ts:16: what is said of a payment that  *)
(* was rejected holds only if it did not go through.                       *)
RejectedIsUnpaid ==
  [][\A r \in Requests :
       LET a == call[r].payment.auth
       IN  Settling(r, "confirm") /\ ~Settling(r, "confirm")' /\ restarts' = restarts
             => \/ chain[a] = "failed"
                \/ \E d \in delivered' : d.auth = a]_vars
=============================================================================
