--------------------------- MODULE PaymentChecks ---------------------------
(***************************************************************************)
(* The payment audit service and its SQLite repository: creating a check,  *)
(* admitting its reservation against the signed daily cap, cancelling it,  *)
(* and applying the settlement read back from Bot Chain.                   *)
(*                                                                         *)
(* A worker is one Node.js process with its own repository connection.  It *)
(* runs one synchronous section at a time and gives way only at an await;  *)
(* a section is split at its repository transactions, because that is      *)
(* where a crash, the clock or another connection can come in between.     *)
(* All checks belong to one operator, one payer and one asset: the keys    *)
(* every repository query is confined to.                                  *)
(***************************************************************************)
EXTENDS Integers, FiniteSets, FiniteSetsExt

CONSTANTS
  Ids,        \* one create request each; also the id of the check it stores
  Workers,    \* processes sharing the database file
  Polls,      \* verify-settlement requests that can be in flight together
  Keys,       \* Idempotency-Key values
  Nonces,     \* authorization nonces
  Charges,    \* what a create request may carry
  Policies,   \* the signed policies an operator may install
  Txs,        \* transaction hashes
  Executed,   \* the transactions whose receipt says success; the rest revert
  Spends,     \* the authorization nonce each transaction really executes
  DayLength,  \* clock units in a UTC day
  MaxTime,    \* bound on the clock
  NoPolicy, NoId, NoWorker, NoTx

ASSUME PaymentAssumption ==
  /\ IsFiniteSet(Ids)
  /\ Charges \subseteq [key : Keys, nonce : Nonces, amount : Nat \ {0}, validBefore : Nat]
  /\ Policies \subseteq [cap : Nat, slots : Nat \ {0}]
  /\ Executed \subseteq Txs
  /\ Spends \in [Txs -> Nonces]
  /\ DayLength \in Nat \ {0}
  /\ MaxTime \in Nat
  /\ NoPolicy \notin Policies
  /\ NoId \notin Ids
  /\ NoWorker \notin Workers
  /\ NoTx \notin Txs
  /\ {"none", "conflict", "error"} \cap Ids = {}

VARIABLES
  clock,
  charge,      \* what each create request carries, fixed by its sender
  policy,      \* latest policy revision
  provider,    \* latest provider decision for the charged tuple
  status,      \* checks.status, "none" while there is no row
  limits,      \* the policy snapshot stored in the check
  reservation, \* reservations.status, "none" while there is no row
  day,         \* reservations.utc_day
  claims,      \* checks with an authorization_reservations row
  txOf,        \* settlements.transaction_hash
  verdict,     \* settlements.verdict
  phase, host, reply,  \* each create request: progress, its worker, its answer
  section,     \* the synchronous section each worker is in
  poll,        \* verify-settlement requests awaiting the Bot Chain RPC
  late         \* history: reservations settled after they had expired

controls     == <<policy, provider>>
checks       == <<status, limits>>
reservations == <<reservation, day, claims>>
settlements  == <<txOf, verdict, late>>
database     == <<controls, checks, reservations, settlements>>
requests     == <<phase, host, reply>>
vars == <<clock, charge, database, requests, section, poll>>

----------------------------------------------------------------------------
(* Record shapes.                                                          *)

CheckStatus == {"reserved", "blocked", "review", "cancelled", "settled",
                "settlement_mismatch", "settlement_pending", "settlement_unverifiable"}
ReservationStatus == {"active", "consumed", "released", "quarantined", "expired"}
Open      == {"active", "quarantined"}     \* holds a concurrency slot
Committed == Open \union {"consumed"}      \* counts against the daily cap
Verifiable == {"reserved", "settlement_pending", "settlement_unverifiable"}
Terminal  == {"match", "mismatch"}
Verdicts  == Terminal \union {"pending", "unverifiable"}

Ops       == {"idle", "reserve", "block", "review", "release", "mark"}
Section   == [op : Ops, id : Ids \union {NoId}, limits : Policies \union {NoPolicy}]
NoSection == [op |-> "idle", id |-> NoId, limits |-> NoPolicy]
Poll      == [worker : Workers \union {NoWorker}, id : Ids \union {NoId},
              tx : Txs \union {NoTx}]
NoPoll    == [worker |-> NoWorker, id |-> NoId, tx |-> NoTx]

TypeOK ==
  /\ clock \in 0..MaxTime
  /\ charge \in [Ids -> Charges]
  /\ policy \in Policies \union {NoPolicy}
  /\ provider \in {"none", "pin", "deny"}
  /\ status \in [Ids -> CheckStatus \union {"none"}]
  /\ limits \in [Ids -> Policies \union {NoPolicy}]
  /\ reservation \in [Ids -> ReservationStatus \union {"none"}]
  /\ day \in [Ids -> Nat]
  /\ claims \subseteq Ids
  /\ txOf \in [Ids -> Txs \union {NoTx}]
  /\ verdict \in [Ids -> Verdicts \union {"none"}]
  /\ late \subseteq Ids
  /\ phase \in [Ids -> {"new", "loading", "running", "done"}]
  /\ host \in [Ids -> Workers \union {NoWorker}]
  /\ reply \in [Ids -> Ids \union {"none", "conflict", "error"}]
  /\ section \in [Workers -> Section]
  /\ poll \in [Polls -> Poll]

Init ==
  /\ clock = 0
  /\ charge \in [Ids -> Charges]
  /\ policy = NoPolicy
  /\ provider = "none"
  /\ status = [c \in Ids |-> "none"]
  /\ limits = [c \in Ids |-> NoPolicy]
  /\ reservation = [c \in Ids |-> "none"]
  /\ day = [c \in Ids |-> 0]
  /\ claims = {}
  /\ txOf = [c \in Ids |-> NoTx]
  /\ verdict = [c \in Ids |-> "none"]
  /\ late = {}
  /\ phase = [c \in Ids |-> "new"]
  /\ host = [c \in Ids |-> NoWorker]
  /\ reply = [c \in Ids |-> "none"]
  /\ section = [w \in Workers |-> NoSection]
  /\ poll = [p \in Polls |-> NoPoll]

----------------------------------------------------------------------------
(* Repository queries.  Every admission query first expires the active     *)
(* reservations whose time is over, which drops their nonce claims too.    *)

Today == clock \div DayLength

Lapsed == {c \in Ids : reservation[c] = "active" /\ charge[c].validBefore <= clock}
Unexpired == [c \in Ids |-> IF c \in Lapsed THEN "expired" ELSE reservation[c]]
KeptClaims == claims                    \* mutant: expiry forgets the claim table
UnexpiredClaims == claims \ Lapsed

AmountOn(res, statuses, d, days) ==
  MapThenSumSet(LAMBDA c : charge[c].amount,
                {c \in Ids : res[c] \in statuses /\ days[c] = d})

Replayed(c) ==
  \E d \in UnexpiredClaims :
    charge[d].nonce = charge[c].nonce /\ Unexpired[d] \in Committed

(* Mutant: a full house admits one more. *)
SlotFreeOrFull(p) == Cardinality({c \in Ids : Unexpired[c] \in Open}) <= p.slots

SlotFree(p) == Cardinality({c \in Ids : Unexpired[c] \in Open}) < p.slots

(* Mutant: a payment that was settled no longer counts. *)
UnderCapOfOpen(c, p) ==
  AmountOn(Unexpired, Open, Today, day) + charge[c].amount <= p.cap

UnderCap(c, p) ==
  AmountOn(Unexpired, Committed, Today, day) + charge[c].amount <= p.cap

(* Mutants: the totals are trusted since the evaluation; only they are checked. *)
AdmissibleAsEvaluated(c, p) == ~Replayed(c)
AdmissibleByTotals(c, p) == SlotFree(p) /\ UnderCap(c, p)

Admissible(c, p) == SlotFree(p) /\ ~Replayed(c) /\ UnderCap(c, p)

(* Mutant: only checks that hold a reservation are found by their key. *)
SameKeyReserved(c) == {d \in Ids : status[d] = "reserved" /\ charge[d].key = charge[c].key}

SameKey(c) == {d \in Ids : status[d] # "none" /\ charge[d].key = charge[c].key}

(* Mutant: the content of a retry is not compared. *)
AnyReply(c) == CHOOSE d \in SameKey(c) : TRUE

(* The stored check answers a retry with the same content, and only that. *)
IdempotentReply(c) ==
  LET existing == CHOOSE d \in SameKey(c) : TRUE
  IN  IF charge[existing] = charge[c] THEN existing ELSE "conflict"

(* Mutant: a provider the operator denied is like one it pinned. *)
BlockingUnlessDenied(c, finding) ==
  \/ finding = "block"
  \/ charge[c].validBefore <= clock
  \/ Replayed(c)
  \/ policy # NoPolicy /\ ~(UnderCap(c, policy) /\ SlotFree(policy))

(* The verdict of evaluatePayment.  finding is the strongest reason raised *)
(* by the rules that read nothing shared: resource, evidence, amounts and  *)
(* the fields of the authorization.                                        *)
Blocking(c, finding) ==
  \/ finding = "block"
  \/ provider = "deny"
  \/ charge[c].validBefore <= clock
  \/ Replayed(c)
  \/ policy # NoPolicy /\ ~(UnderCap(c, policy) /\ SlotFree(policy))

Verdict(c, finding) ==
  IF Blocking(c, finding) THEN "block"
  ELSE IF finding = "review" \/ provider = "none" \/ policy = NoPolicy
       THEN "review"
       ELSE "reserve"

Idle(w) == section[w].op = "idle"
Enter(w, op, c, p) == section' = [section EXCEPT ![w] = [op |-> op, id |-> c, limits |-> p]]
Leave(w) == section' = [section EXCEPT ![w] = NoSection]
Answer(c, answer) ==
  /\ phase' = [phase EXCEPT ![c] = "done"]
  /\ reply' = [reply EXCEPT ![c] = answer]
  /\ UNCHANGED host

----------------------------------------------------------------------------
(* The clock and the operator.                                             *)

Tick ==
  /\ clock < MaxTime
  /\ clock' = clock + 1
  /\ UNCHANGED <<charge, database, requests, section, poll>>

SavePolicy(w, p) ==
  /\ Idle(w)
  /\ policy' = p
  /\ UNCHANGED <<clock, charge, provider, checks, reservations, settlements,
                 requests, section, poll>>

SaveProviderDecision(w, kind) ==
  /\ Idle(w)
  /\ provider' = kind
  /\ UNCHANGED <<clock, charge, policy, checks, reservations, settlements,
                 requests, section, poll>>

----------------------------------------------------------------------------
(* createCheck.                                                            *)

(* The key is known: answer with its check and evaluate nothing. *)
ReplayCheck(w, c) ==
  /\ Idle(w)
  /\ phase[c] = "new"
  /\ SameKey(c) # {}
  /\ Answer(c, IdempotentReply(c))
  /\ UNCHANGED <<clock, charge, database, section, poll>>

(* The key is new: go and load the payment-asset evidence. *)
BeginCheck(w, c) ==
  /\ Idle(w)
  /\ phase[c] = "new"
  /\ SameKey(c) = {}
  /\ phase' = [phase EXCEPT ![c] = "loading"]
  /\ host' = [host EXCEPT ![c] = w]
  /\ UNCHANGED <<clock, charge, database, reply, section, poll>>

EvidenceFails(w, c) ==
  /\ Idle(w)
  /\ phase[c] = "loading" /\ host[c] = w
  /\ Answer(c, "error")
  /\ UNCHANGED <<clock, charge, database, section, poll>>

(* The evidence is there: expire reservations, read the controls and the   *)
(* totals, decide.                                                         *)
EvaluateCheck(w, c, finding) ==
  /\ Idle(w)
  /\ phase[c] = "loading" /\ host[c] = w
  /\ reservation' = Unexpired
  /\ claims' = UnexpiredClaims
  /\ Enter(w, Verdict(c, finding), c, policy)
  /\ phase' = [phase EXCEPT ![c] = "running"]
  /\ UNCHANGED <<clock, charge, controls, checks, day, settlements, host, reply, poll>>

(* saveCheckAndReserve refuses a reservation that is already over. *)
ReserveTooLate(w, c) ==
  /\ section[w].op = "reserve" /\ section[w].id = c
  /\ charge[c].validBefore <= clock
  /\ Answer(c, "error")
  /\ Leave(w)
  /\ UNCHANGED <<clock, charge, database, poll>>

(* Another request stored this key during the await or since: its check    *)
(* is the answer to this one as well.                                      *)
SaveRaced(w, c) ==
  /\ section[w].op \in {"reserve", "block", "review"} /\ section[w].id = c
  /\ section[w].op = "reserve" => charge[c].validBefore > clock
  /\ SameKey(c) # {}
  /\ Answer(c, IdempotentReply(c))
  /\ Leave(w)
  /\ UNCHANGED <<clock, charge, database, poll>>

(* The reservation is not admitted: everything is rolled back, expiry      *)
(* included, and the check becomes a blocked one.                          *)
ReserveRefused(w, c) ==
  /\ section[w].op = "reserve" /\ section[w].id = c
  /\ charge[c].validBefore > clock
  /\ SameKey(c) = {}
  /\ ~Admissible(c, section[w].limits)
  /\ Enter(w, "block", c, section[w].limits)
  /\ UNCHANGED <<clock, charge, database, requests, poll>>

(* Check, reservation and nonce claim are stored in one transaction. *)
Admit(w, c) ==
  /\ section[w].op = "reserve" /\ section[w].id = c
  /\ charge[c].validBefore > clock
  /\ SameKey(c) = {}
  /\ Admissible(c, section[w].limits)
  /\ status' = [status EXCEPT ![c] = "reserved"]
  /\ limits' = [limits EXCEPT ![c] = section[w].limits]
  /\ reservation' = [Unexpired EXCEPT ![c] = "active"]
  /\ day' = [day EXCEPT ![c] = Today]
  /\ claims' = UnexpiredClaims \union {c}
  /\ Answer(c, c)
  /\ Leave(w)
  /\ UNCHANGED <<clock, charge, controls, settlements, poll>>

(* A blocked or review check holds nothing. *)
SaveUnpaid(w, c) ==
  /\ section[w].op \in {"block", "review"} /\ section[w].id = c
  /\ SameKey(c) = {}
  /\ status' = [status EXCEPT ![c] = IF section[w].op = "block" THEN "blocked" ELSE "review"]
  /\ limits' = [limits EXCEPT ![c] = section[w].limits]
  /\ Answer(c, c)
  /\ Leave(w)
  /\ UNCHANGED <<clock, charge, controls, reservations, settlements, poll>>

----------------------------------------------------------------------------
(* cancelCheck: a read and two transactions.                               *)

(* Mutant: a check is cancelled whatever became of it. *)
BeginCancelAlways(w, c) ==
  /\ Idle(w)
  /\ status[c] # "none"
  /\ Enter(w, "release", c, NoPolicy)
  /\ UNCHANGED <<clock, charge, database, requests, poll>>

BeginCancel(w, c) ==
  /\ Idle(w)
  /\ status[c] = "reserved"
  /\ Enter(w, "release", c, NoPolicy)
  /\ UNCHANGED <<clock, charge, database, requests, poll>>

ReleaseReservation(w, c) ==
  /\ section[w].op = "release" /\ section[w].id = c
  /\ reservation[c] \in Open
  /\ reservation' = [reservation EXCEPT ![c] = "released"]
  /\ claims' = claims \ {c}
  /\ Enter(w, "mark", c, NoPolicy)
  /\ UNCHANGED <<clock, charge, controls, checks, day, settlements, requests, poll>>

CancelRefused(w, c) ==
  /\ section[w].op = "release" /\ section[w].id = c
  /\ reservation[c] \notin Open
  /\ Leave(w)
  /\ UNCHANGED <<clock, charge, database, requests, poll>>

(* The stored row is overwritten from the copy read at the start. *)
MarkCancelled(w, c) ==
  /\ section[w].op = "mark" /\ section[w].id = c
  /\ status' = [status EXCEPT ![c] = "cancelled"]
  /\ Leave(w)
  /\ UNCHANGED <<clock, charge, controls, limits, reservations, settlements,
                 requests, poll>>

----------------------------------------------------------------------------
(* verifySettlement.                                                       *)

BeginPoll(w, p, c, t) ==
  /\ Idle(w)
  /\ poll[p] = NoPoll
  /\ status[c] \in Verifiable
  /\ verdict[c] \notin Terminal
  /\ txOf[c] \in {NoTx, t}
  /\ poll' = [poll EXCEPT ![p] = [worker |-> w, id |-> c, tx |-> t]]
  /\ UNCHANGED <<clock, charge, database, requests, section>>

(* What one RPC read can say.  A node that lags or fails says "pending" or *)
(* "unverifiable"; compareSettlement turns a final receipt into the rest.  *)
Readings(t) ==
  {"pending", "unverifiable", IF t \in Executed THEN "match" ELSE "mismatch"}

CheckStatusFor(v) ==
  CASE v = "match"        -> "settled"
    [] v = "mismatch"     -> "settlement_mismatch"
    [] v = "pending"      -> "settlement_pending"
    [] v = "unverifiable" -> "settlement_unverifiable"

(* Mutants: a mismatch leaves the reservation open; a verdict that is not  *)
(* final is written into it.                                               *)
ReservationKept(v, old) == IF v = "match" THEN "consumed" ELSE old
ReservationFromVerdict(v, old) ==
  CASE v = "match"    -> "consumed"
    [] v = "mismatch" -> "quarantined"
    [] OTHER          -> v

ReservationAfter(v, old) ==
  CASE v = "match"    -> "consumed"
    [] v = "mismatch" -> "quarantined"
    [] OTHER          -> old

(* Mutant: any reservation can be settled, a released one as well. *)
SettlesFromAny(v) == ReservationStatus

SettlesFrom(v) ==
  CASE v = "match"    -> {"active", "quarantined", "expired", "consumed"}
    [] v = "mismatch" -> {"active", "expired", "quarantined"}
    [] OTHER          -> {"active", "expired"}

(* Mutants: another check may have the transaction; this check may have    *)
(* another transaction.                                                    *)
AcceptedTwice(c, t, v) ==
  /\ txOf[c] \in {NoTx, t}
  /\ verdict[c] \notin Terminal
  /\ status[c] \in Verifiable
  /\ reservation[c] \in SettlesFrom(v)
AcceptedAnew(c, t, v) ==
  /\ verdict[c] \notin Terminal
  /\ status[c] \in Verifiable
  /\ reservation[c] \in SettlesFrom(v)
  /\ \A d \in Ids \ {c} : txOf[d] # t

(* applySettlement decides on the rows as they are now, not as they were   *)
(* when the request began.                                                 *)
Accepted(c, t, v) ==
  /\ txOf[c] \in {NoTx, t}
  /\ verdict[c] \notin Terminal
  /\ status[c] \in Verifiable
  /\ reservation[c] \in SettlesFrom(v)
  /\ \A d \in Ids \ {c} : txOf[d] # t

ApplySettlement(w, p, c, v) ==
  /\ Idle(w)
  /\ poll[p].worker = w /\ poll[p].id = c
  /\ v \in Readings(poll[p].tx)
  /\ Accepted(c, poll[p].tx, v)
  /\ reservation' = [reservation EXCEPT ![c] = ReservationAfter(v, @)]
  /\ txOf' = [txOf EXCEPT ![c] = poll[p].tx]
  /\ verdict' = [verdict EXCEPT ![c] = v]
  /\ status' = [status EXCEPT ![c] = CheckStatusFor(v)]
  /\ late' = IF reservation[c] = "expired" /\ v \in Terminal THEN late \union {c} ELSE late
  /\ poll' = [poll EXCEPT ![p] = NoPoll]
  /\ UNCHANGED <<clock, charge, controls, limits, day, claims, requests, section>>

RejectSettlement(w, p, c, v) ==
  /\ Idle(w)
  /\ poll[p].worker = w /\ poll[p].id = c
  /\ v \in Readings(poll[p].tx)
  /\ ~Accepted(c, poll[p].tx, v)
  /\ poll' = [poll EXCEPT ![p] = NoPoll]
  /\ UNCHANGED <<clock, charge, database, requests, section>>

----------------------------------------------------------------------------
(* A process stops: the database keeps what was committed, everything that *)
(* was in flight in the process is gone.                                   *)
Crash(w) ==
  /\ LET lost == {c \in Ids : host[c] = w /\ phase[c] \in {"loading", "running"}}
     IN  /\ phase' = [c \in Ids |-> IF c \in lost THEN "done" ELSE phase[c]]
         /\ reply' = [c \in Ids |-> IF c \in lost THEN "error" ELSE reply[c]]
  /\ poll' = [p \in Polls |-> IF poll[p].worker = w THEN NoPoll ELSE poll[p]]
  /\ Leave(w)
  /\ UNCHANGED <<clock, charge, database, host>>

Next ==
  \/ Tick
  \/ \E w \in Workers :
       \/ \E p \in Policies : SavePolicy(w, p)
       \/ \E kind \in {"pin", "deny"} : SaveProviderDecision(w, kind)
       \/ Crash(w)
  \/ \E w \in Workers, c \in Ids :
       \/ ReplayCheck(w, c)
       \/ BeginCheck(w, c)
       \/ EvidenceFails(w, c)
       \/ \E finding \in {"clear", "review", "block"} : EvaluateCheck(w, c, finding)
       \/ ReserveTooLate(w, c)
       \/ SaveRaced(w, c)
       \/ ReserveRefused(w, c)
       \/ Admit(w, c)
       \/ SaveUnpaid(w, c)
       \/ BeginCancel(w, c)
       \/ ReleaseReservation(w, c)
       \/ CancelRefused(w, c)
       \/ MarkCancelled(w, c)
  \/ \E w \in Workers, p \in Polls, c \in Ids :
       \/ \E t \in Txs : BeginPoll(w, p, c, t)
       \/ \E v \in Verdicts : ApplySettlement(w, p, c, v)
       \/ \E v \in Verdicts : RejectSettlement(w, p, c, v)

Spec == Init /\ [][Next]_vars

----------------------------------------------------------------------------
(* Properties of the admission of payments.                                *)

(* A reservation enters the ledger only together with a check whose signed *)
(* policy covers it: with the new one, the day's committed amount is       *)
(* within the cap, whatever other requests did between the evaluation and  *)
(* the transaction, and whatever expired, settled or was released.         *)
AdmissionWithinCap ==
  [][\A c \in Ids : reservation[c] = "none" /\ reservation'[c] # "none" =>
       AmountOn(reservation', Committed, day'[c], day') <= limits'[c].cap]_vars

(* And with the new one, the reservations that are open, of every day, are *)
(* no more than the policy's concurrency slots.                            *)
AdmissionWithinSlots ==
  [][\A c \in Ids : reservation[c] = "none" /\ reservation'[c] # "none" =>
       Cardinality({d \in Ids : reservation'[d] \in Open}) <= limits'[c].slots]_vars

(* The evidence is awaited, the controls may change meanwhile: a payment   *)
(* is admitted only under the pin and the policy in force when it is       *)
(* admitted.  One process only: another one can save a revision between    *)
(* the evaluation and the reservation.                                     *)
AdmittedUnderCurrentControls ==
  [][\A c \in Ids : reservation[c] = "none" /\ reservation'[c] # "none" =>
       provider = "pin" /\ limits'[c] = policy]_vars

(* The nonce table and the reservations agree: a claim belongs to a        *)
(* reservation that counts, a reservation that counts and was not settled  *)
(* late has its claim, and a nonce is claimed once.  The INSERT of a claim *)
(* therefore never meets the table's UNIQUE constraint, which nothing      *)
(* catches.                                                                *)
ClaimsGuardNonces ==
  /\ \A c \in claims : reservation[c] \in Committed
  /\ \A c \in Ids \ late : reservation[c] \in Committed => c \in claims
  /\ \A c, d \in claims : charge[c].nonce = charge[d].nonce => c = d

(* An idempotency key names one check for ever, and a request is answered  *)
(* with a stored check of exactly its own content, also when two requests  *)
(* with the key wait for evidence at the same time.                        *)
RetriesAgree ==
  /\ \A c, d \in Ids :
       status[c] # "none" /\ status[d] # "none" /\ charge[c].key = charge[d].key => c = d
  /\ \A c \in Ids : reply[c] \in Ids =>
       status[reply[c]] # "none" /\ charge[reply[c]] = charge[c]

(* The part of a day's budget that was not settled late stays within a cap *)
(* some check of that day was admitted under, through expiry, release,     *)
(* policy changes and midnight.                                            *)
OnTimeSpendWithinCap ==
  \A c \in Ids : reservation[c] # "none" =>
    \E d \in Ids :
      /\ reservation[d] # "none" /\ day[d] = day[c]
      /\ AmountOn([x \in Ids |-> IF x \in late THEN "none" ELSE reservation[x]],
                  Committed, day[c], day) <= limits[d].cap

----------------------------------------------------------------------------
(* Properties of cancellation and settlement.                              *)

(* The check, its settlement and its reservation tell one story, although  *)
(* three requests may write them and the writer of the check overwrites a  *)
(* row it read before an await.                                            *)
SettlementConsistent ==
  \A c \in Ids :
    /\ txOf[c] = NoTx <=> verdict[c] = "none"
    /\ verdict[c] \in Verdicts => status[c] = CheckStatusFor(verdict[c])
    /\ verdict[c] = "match" <=> reservation[c] = "consumed"
    /\ verdict[c] = "mismatch" <=> reservation[c] = "quarantined"

(* Once a transaction is recorded for a check it is never replaced, and a  *)
(* final verdict never changes, whatever later or slower polls return.     *)
SettlementFinal ==
  [][\A c \in Ids : txOf[c] # NoTx =>
       /\ txOf'[c] = txOf[c]
       /\ verdict[c] \in Terminal => verdict'[c] = verdict[c]]_vars

(* One Bot Chain transaction settles at most one check. *)
TransactionBindsOneCheck ==
  \A c, d \in Ids : txOf[c] # NoTx /\ txOf[c] = txOf[d] => c = d

(* A cancelled check was unused: its reservation is released and no        *)
(* transaction is recorded for it, also when a poll was waiting for the    *)
(* RPC while it was cancelled.                                             *)
CancelledIsUnused ==
  \A c \in Ids : status[c] = "cancelled" => reservation[c] = "released" /\ txOf[c] = NoTx

(* The whole machine implements the operator's ledger. *)
Ledger == INSTANCE BudgetLedger WITH entry <- reservation
LedgerImplemented == Ledger!Spec

----------------------------------------------------------------------------
(* What the documents say and the code does not keep.                      *)

(* A day's committed payments stay within a cap admitted that day. *)
DailyCapHolds ==
  \A c \in Ids : reservation[c] # "none" =>
    \E d \in Ids :
      /\ reservation[d] # "none" /\ day[d] = day[c]
      /\ AmountOn(reservation, Committed, day[c], day) <= limits[d].cap

(* The nonce of a consumed authorization stays claimed. *)
UsedNonceStaysClaimed ==
  \A c \in Ids : reservation[c] = "consumed" =>
    \E d \in claims : charge[d].nonce = charge[c].nonce

(* A check whose reservation is released is cancelled, or a cancellation   *)
(* of it is under way.                                                     *)
ReleasedCheckIsCancelled ==
  \A c \in Ids : reservation[c] = "released" =>
    status[c] = "cancelled" \/ \E w \in Workers : section[w].op = "mark" /\ section[w].id = c

(* A settled check was settled by a transaction that executes the          *)
(* authorization the check approved.                                       *)
MatchExecutesApproved ==
  \A c \in Ids : verdict[c] = "match" => Spends[txOf[c]] = charge[c].nonce
============================================================================
