------------------------------ MODULE Receipts ------------------------------
(***************************************************************************)
(* What follows a settled check: the response observation, the purchase    *)
(* receipt that binds it to decision and settlement, the anchor job stored *)
(* with it, and the links that share a receipt.                            *)
(*                                                                         *)
(* A worker is a process with its own database connection.  A call runs    *)
(* without an await, but its reads and its transaction are apart: another  *)
(* worker, the clock or a crash can come between them.                     *)
(***************************************************************************)
EXTENDS Integers, FiniteSets

CONSTANTS
  Checks,        \* PAY checks whose decision is signed for
  Observations,  \* contents of an observed response
  Txs,           \* executed Bot Chain transactions
  Pays,          \* the check whose exact authorization a transaction carries
  Workers,
  Publishing,    \* the workers that were started with an anchor publisher
  Shares,        \* share ids, each with its bearer token
  ShareTtl,      \* MAX_RECEIPT_SHARE_TTL_MS
  MaxTime,       \* bound on the clock
  MaxReopens,    \* bound on the failed anchor jobs that are enqueued again
  NoCheck, None

Times == 0..MaxTime
Proofs == [tx : Txs, at : Times]
ReceiptRows == [obs : Observations, tx : Txs, settledAt : Times, createdAt : Times]
Observing == [kind : {"observe"}, check : Checks, obs : Observations, row : ReceiptRows]
Revoking == [kind : {"revoke"}, share : Shares]
ShareRows == [check : Checks, expires : Nat, revoked : BOOLEAN]
Answers == [check : Checks, obs : Observations, answer : {"created", "repeated", "refused"}]

ReceiptsAssumption ==
  /\ Pays \in [Txs -> Checks \union {NoCheck}]
  /\ NoCheck \notin Checks
  /\ Publishing \subseteq Workers
  /\ ShareTtl \in Nat \ {0}
  /\ MaxTime \in Nat
  /\ MaxReopens \in Nat
  /\ None \notin Observations \union Workers \union Proofs \union ReceiptRows
                 \union ShareRows \union Observing \union Revoking

VARIABLES
  now,
  settled,      \* settlements with verdict match: transaction and time
  observation,  \* response_observations
  receipt,      \* receipts: what the receipt hash covers
  job,          \* anchor_jobs of the receipts
  call,         \* what a worker carries from its reads into its transaction
  share,        \* receipt_shares
  reopens,
  answers,      \* history: the answers to observations
  savedBy,      \* history: the worker that stored the receipt
  revocations   \* history: acknowledged revocations of a share

tables  == <<settled, observation, receipt, job>>
links   == <<share, revocations>>
history == <<answers, savedBy>>
vars    == <<now, tables, links, call, reopens, history>>

TypeOK ==
  /\ now \in Times
  /\ settled \in [Checks -> Proofs \union {None}]
  /\ observation \in [Checks -> Observations \union {None}]
  /\ receipt \in [Checks -> ReceiptRows \union {None}]
  /\ job \in [Checks -> {"none", "pending", "failed", "confirmed"}]
  /\ call \in [Workers -> Observing \union Revoking \union {None}]
  /\ share \in [Shares -> ShareRows \union {None}]
  /\ reopens \in 0..MaxReopens
  /\ answers \in SUBSET Answers
  /\ savedBy \in [Checks -> Workers \union {None}]
  /\ revocations \in [Shares -> Nat]

Init ==
  /\ now = 0
  /\ settled = [c \in Checks |-> None]
  /\ observation = [c \in Checks |-> None]
  /\ receipt = [c \in Checks |-> None]
  /\ job = [c \in Checks |-> "none"]
  /\ call = [w \in Workers |-> None]
  /\ share = [s \in Shares |-> None]
  /\ reopens = 0
  /\ answers = {}
  /\ savedBy = [c \in Checks |-> None]
  /\ revocations = [s \in Shares |-> 0]

----------------------------------------------------------------------------
(* Settlement, as PaymentChecks has it: an executed transaction settles    *)
(* any one check, whatever it transfers.                                   *)
SettleCheck(c, t) ==
  /\ settled[c] = None
  /\ \A d \in Checks : settled[d] # None => settled[d].tx # t
  /\ settled' = [settled EXCEPT ![c] = [tx |-> t, at |-> now]]
  /\ UNCHANGED <<now, observation, receipt, job, links, call, reopens, history>>

----------------------------------------------------------------------------
(* Observations.                                                           *)

BuiltReceipt(c, o) ==
  [obs |-> o, tx |-> settled[c].tx, settledAt |-> settled[c].at, createdAt |-> now]

(* The decoded transfer is compared, field by field and by its signature,  *)
(* with the authorization the check approved.                              *)
AnyTransfer(c, row) == TRUE   \* mutant: the transfer is not compared
PaysWhatWasApproved(c, row) == Pays[row.tx] = c

TimesInOrder(row) == row.settledAt <= row.createdAt

(* verifyPurchaseReceipt on the receipt of a stored PAY check, whose other *)
(* artifacts are as they were decided.                                     *)
Verifies(c, row) == PaysWhatWasApproved(c, row) /\ TimesInOrder(row)

Answer(c, o, a) == answers' = answers \union {[check |-> c, obs |-> o, answer |-> a]}

EnqueueUnknown(w, c) ==   \* mutant: a job of an unknown status is written
  job' = [job EXCEPT ![c] = "submitted"] /\ UNCHANGED reopens
(* The publisher inserts a missing job and restarts a failed one.          *)
Enqueue(w, c) ==
  IF w \notin Publishing \/ job[c] \in {"pending", "confirmed"}
  THEN UNCHANGED <<job, reopens>>
  ELSE /\ job' = [job EXCEPT ![c] = "pending"]
       /\ IF job[c] = "failed"
          THEN reopens < MaxReopens /\ reopens' = reopens + 1
          ELSE UNCHANGED reopens

RepeatObservation(w, c, o) ==
  /\ call[w] = None
  /\ settled[c] # None
  /\ observation[c] = o
  /\ receipt[c] # None
  /\ Enqueue(w, c)
  /\ Answer(c, o, "repeated")
  /\ UNCHANGED <<now, settled, observation, receipt, links, call, savedBy>>

ConflictingObservation(w, c, o) ==
  /\ call[w] = None
  /\ settled[c] # None
  /\ observation[c] \notin {None, o}
  /\ Answer(c, o, "refused")
  /\ UNCHANGED <<now, tables, links, call, reopens, savedBy>>

(* A receipt that does not verify is an internal error: nothing is stored. *)
BeginObservation(w, c, o) ==
  /\ call[w] = None
  /\ settled[c] # None
  /\ observation[c] \in {None, o}
  /\ receipt[c] = None
  /\ Verifies(c, BuiltReceipt(c, o))
  /\ call' = [call EXCEPT ![w] = [kind |-> "observe", check |-> c, obs |-> o,
                                  row |-> BuiltReceipt(c, o)]]
  /\ UNCHANGED <<now, tables, links, reopens, history>>

ComparedBefore(k) == TRUE     \* mutant: only the reads before the transaction compare
SameObservation(k) == observation[k.check] \in {None, k.obs}

AlwaysCompared(k) == receipt[k.check] \in {None, k.row}   \* mutant: also for a repetition
SameReceipt(k) == observation[k.check] = None => receipt[k.check] \in {None, k.row}

Latest(stored, new) == new   \* mutant: the row of the later transaction wins
OrInsert(stored, new) == IF stored = None THEN new ELSE stored

(* The job of a publishing worker is stored in the same transaction.       *)
JobLater(w, c) == job[c]     \* mutant: enqueued after the commit
JobWith(w, c) == IF w \in Publishing /\ job[c] = "none" THEN "pending" ELSE job[c]

(* saveObservationAndReceipt: reads again inside the transaction.          *)
SaveObservation(w) ==
  LET k == call[w] IN
  /\ k # None /\ k.kind = "observe"
  /\ SameObservation(k)
  /\ SameReceipt(k)
  /\ observation' = [observation EXCEPT ![k.check] = OrInsert(@, k.obs)]
  /\ receipt' = [receipt EXCEPT ![k.check] = OrInsert(@, k.row)]
  /\ job' = [job EXCEPT ![k.check] = JobWith(w, k.check)]
  /\ savedBy' = [savedBy EXCEPT ![k.check] = OrInsert(@, w)]
  /\ Answer(k.check, k.obs,
            IF observation[k.check] = None /\ receipt[k.check] = None
            THEN "created" ELSE "repeated")
  /\ call' = [call EXCEPT ![w] = None]
  /\ UNCHANGED <<now, settled, links, reopens>>

ObservationRefused(w) ==
  LET k == call[w] IN
  /\ k # None /\ k.kind = "observe"
  /\ ~(SameObservation(k) /\ SameReceipt(k))
  /\ Answer(k.check, k.obs, "refused")
  /\ call' = [call EXCEPT ![w] = None]
  /\ UNCHANGED <<now, tables, links, reopens, savedBy>>

(* The publisher of AnchorPublisher ends a job.                            *)
JobEnds(c) ==
  /\ job[c] = "pending"
  /\ \E end \in {"confirmed", "failed"} : job' = [job EXCEPT ![c] = end]
  /\ UNCHANGED <<now, settled, observation, receipt, links, call, reopens, history>>

(* getReceiptAnchorState: the anchor of a receipt is read from its job.    *)
AnchorState(c) ==
  CASE job[c] = "none"      -> "off_chain_verified"
    [] job[c] = "confirmed" -> "anchored"
    [] OTHER                -> job[c]

----------------------------------------------------------------------------
(* Shares.                                                                 *)

CreateShare(w, s, c, expires) ==
  /\ call[w] = None
  /\ receipt[c] # None
  /\ share[s] = None
  /\ expires > now /\ expires - now <= ShareTtl
  /\ share' = [share EXCEPT ![s] = [check |-> c, expires |-> expires, revoked |-> FALSE]]
  /\ UNCHANGED <<now, tables, revocations, call, reopens, history>>

(* revokeReceiptShare reads the share, and then revokes it if it is not.   *)
BeginRevoke(w, s) ==
  /\ call[w] = None
  /\ share[s] # None /\ ~share[s].revoked
  /\ call' = [call EXCEPT ![w] = [kind |-> "revoke", share |-> s]]
  /\ UNCHANGED <<now, tables, links, reopens, history>>

RevokesAny(s) == TRUE          \* mutant: UPDATE without revoked_at IS NULL
Unrevoked(s) == ~share[s].revoked

EndRevoke(w) ==
  LET k == call[w] IN
  /\ k # None /\ k.kind = "revoke"
  /\ IF Unrevoked(k.share)
     THEN /\ share' = [share EXCEPT ![k.share].revoked = TRUE]
          /\ revocations' = [revocations EXCEPT ![k.share] = @ + 1]
     ELSE UNCHANGED links
  /\ call' = [call EXCEPT ![w] = None]
  /\ UNCHANGED <<now, tables, reopens, history>>

(* getSharedReceipt: what the link answers.                                *)
SharedReceipt(s) ==
  IF share[s] = None \/ share[s].revoked \/ share[s].expires <= now
  THEN None ELSE receipt[share[s].check]

----------------------------------------------------------------------------
Tick ==
  /\ now < MaxTime
  /\ now' = now + 1
  /\ UNCHANGED <<tables, links, call, reopens, history>>

(* The process exits before its transaction and is started again.          *)
Crash(w) ==
  /\ call[w] # None
  /\ call' = [call EXCEPT ![w] = None]
  /\ UNCHANGED <<now, tables, links, reopens, history>>

Next ==
  \/ \E c \in Checks, t \in Txs : SettleCheck(c, t)
  \/ \E w \in Workers, c \in Checks, o \in Observations :
       \/ RepeatObservation(w, c, o)
       \/ ConflictingObservation(w, c, o)
       \/ BeginObservation(w, c, o)
  \/ \E c \in Checks : JobEnds(c)
  \/ \E w \in Workers : SaveObservation(w) \/ ObservationRefused(w) \/ EndRevoke(w) \/ Crash(w)
  \/ \E w \in Workers, s \in Shares, c \in Checks, e \in 0..(MaxTime + 1) : CreateShare(w, s, c, e)
  \/ \E w \in Workers, s \in Shares : BeginRevoke(w, s)
  \/ Tick

Spec == Init /\ [][Next]_vars

----------------------------------------------------------------------------
(* Properties.                                                             *)

(* A receipt exists only for the payment the check approved, although any  *)
(* executed transaction settles a check, and no payment has two receipts.  *)
ReceiptsProvePayment ==
  \A c \in Checks : receipt[c] # None =>
    /\ Pays[receipt[c].tx] = c
    /\ receipt[c].tx = settled[c].tx
    /\ receipt[c].obs = observation[c]

(* What a client is told: one observation of a check is accepted, and a    *)
(* repetition of it is never refused, by whichever worker and in whichever *)
(* race, although two workers build receipts of it with different hashes.  *)
AnswersAgree ==
  \A a \in answers :
    /\ a.answer # "refused" => observation[a.check] = a.obs /\ receipt[a.check] # None
    /\ a.answer = "refused" => observation[a.check] # a.obs

(* A receipt stored by a worker with a publisher is never reported as left *)
(* off chain for good, also when that worker exits at once.                *)
ReceiptsEnqueued ==
  \A c \in Checks : savedBy[c] \in Publishing => AnchorState(c) # "off_chain_verified"

(* Of several revocations of a share one is acknowledged, and the link is  *)
(* dead from then on.                                                      *)
RevokedOnce ==
  \A s \in Shares :
    /\ revocations[s] <= 1
    /\ revocations[s] = 1 => SharedReceipt(s) = None

(* Receipts, answers, anchor jobs and revocations agree whichever workers  *)
(* race (createObservation and revokeReceiptShare read before they write). *)
ReceiptsAgree == ReceiptsProvePayment /\ AnswersAgree /\ ReceiptsEnqueued /\ RevokedOnce

(* The receipt and observation of a check are immutable.                   *)
ReceiptIsFinal ==
  [][\A c \in Checks : receipt[c] # None =>
       receipt'[c] = receipt[c] /\ observation'[c] = observation[c]]_vars
============================================================================
