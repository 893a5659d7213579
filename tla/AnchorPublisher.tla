-------------------------- MODULE AnchorPublisher --------------------------
(***************************************************************************)
(* Anchoring of purchase receipts: the anchor_jobs table, the publisher    *)
(* that works through the jobs that are due, and the registry contract on  *)
(* Bot Chain it submits to.                                                *)
(*                                                                         *)
(* A publisher processes one batch at a time: it reads copies of the due   *)
(* rows once and then awaits the record script, the confirmation and the   *)
(* readback of one job after the other, writing each row whole from its    *)
(* copy.  The script may fail after its transaction was sent; the chain    *)
(* may execute, revert or forget a transaction at any later time.  The     *)
(* time of a job is what is left until its next attempt, so that a clock   *)
(* needs no bound and waiting can be fair.                                 *)
(***************************************************************************)
EXTENDS Integers, FiniteSets, FiniteSetsExt

CONSTANTS
  Receipts,     \* purchase receipts, one anchor job each
  Publishers,   \* processes that run a publisher on the database
  Txs,          \* registry transactions the record script may send
  MaxAttempts,  \* maxAttempts
  RetryBase,    \* retryBaseMs
  MaxRetry,     \* MAX_RETRY_MS
  BatchSize,    \* BATCH_SIZE
  MaxCrashes,   \* bound on process restarts
  MaxReopens,   \* bound on the failed jobs that clients enqueue again
  NoTx, NoReceipt

ASSUME AnchorAssumption ==
  /\ IsFiniteSet(Receipts)
  /\ MaxAttempts \in Nat \ {0}
  /\ RetryBase \in Nat
  /\ MaxRetry \in Nat
  /\ BatchSize \in Nat \ {0}
  /\ MaxCrashes \in Nat
  /\ MaxReopens \in Nat
  /\ NoTx \notin Txs
  /\ NoReceipt \notin Receipts

VARIABLES
  stored,   \* receipts with a row in receipts
  job,      \* anchor_jobs: status, attempts, transaction_hash
  wait,     \* time until next_attempt_at
  step,     \* what each publisher awaits; "idle" is running = false
  batch,    \* the copies of jobs a publisher has still to process
  doing,    \* the copy it is processing
  carries,  \* the receipt a sent transaction records, NoReceipt while unsent
  chain,    \* what became of each transaction
  answer,   \* the transaction sent by the script a publisher is waiting for
  crashes, reopens,
  lost      \* history: per receipt, the transactions no job remembers

rows   == <<stored, job, wait>>
worker == <<step, batch, doing, answer>>
ledger == <<carries, chain>>
counts == <<crashes, reopens, lost>>
vars   == <<rows, worker, ledger, counts>>

Jobs == [status : {"none", "pending", "submitted", "confirmed", "failed"},
         attempts : 0..MaxAttempts, tx : Txs \union {NoTx}]
NoJob == [status |-> "none", attempts |-> 0, tx |-> NoTx]
NewJob == [status |-> "pending", attempts |-> 0, tx |-> NoTx]
Copies == [receipt : Receipts, attempts : 0..MaxAttempts, tx : Txs \union {NoTx}]
NoCopy == [receipt |-> NoReceipt, attempts |-> 0, tx |-> NoTx]

Waiting  == {"pending", "submitted"}
Terminal == {"confirmed", "failed"}

TypeOK ==
  /\ stored \subseteq Receipts
  /\ job \in [Receipts -> Jobs]
  /\ DOMAIN wait = Receipts
  /\ step \in [Publishers -> {"idle", "next", "submit", "confirm", "readback"}]
  /\ batch \in [Publishers -> SUBSET Copies]
  /\ doing \in [Publishers -> Copies \union {NoCopy}]
  /\ carries \in [Txs -> Receipts \union {NoReceipt}]
  /\ chain \in [Txs -> {"unsent", "pending", "executed", "reverted"}]
  /\ answer \in [Publishers -> Txs \union {NoTx}]
  /\ crashes \in 0..MaxCrashes
  /\ reopens \in 0..MaxReopens
  /\ lost \in [Receipts -> Nat]

(* A receipt may already be stored by a service that had no publisher.     *)
Init ==
  /\ stored \in SUBSET Receipts
  /\ job = [r \in Receipts |-> NoJob]
  /\ wait = [r \in Receipts |-> 0]
  /\ step = [p \in Publishers |-> "idle"]
  /\ batch = [p \in Publishers |-> {}]
  /\ doing = [p \in Publishers |-> NoCopy]
  /\ carries = [t \in Txs |-> NoReceipt]
  /\ chain = [t \in Txs |-> "unsent"]
  /\ answer = [p \in Publishers |-> NoTx]
  /\ crashes = 0
  /\ reopens = 0
  /\ lost = [r \in Receipts |-> 0]

----------------------------------------------------------------------------
(* Enqueueing.                                                             *)

(* The observation of a paid response stores receipt and job together.     *)
FinalizeReceipt(r) ==
  /\ r \notin stored
  /\ stored' = stored \union {r}
  /\ job' = [job EXCEPT ![r] = NewJob]
  /\ wait' = [wait EXCEPT ![r] = 0]
  /\ UNCHANGED <<worker, ledger, counts>>

(* A repeated observation enqueues the stored receipt again: a missing job *)
(* is inserted, a failed one starts over and forgets its transaction, any  *)
(* other is left alone.                                                    *)
ReopenedInPlace(r) == [job[r] EXCEPT !.status = "pending"]   \* mutant: nothing is reset
Reopened(r) == NewJob

EnqueueAgain(r) ==
  /\ r \in stored
  /\ \/ /\ job[r].status = "none"
        /\ UNCHANGED counts
     \/ /\ job[r].status = "failed"
        /\ reopens < MaxReopens
        /\ reopens' = reopens + 1
        /\ lost' = [lost EXCEPT ![r] = @ + (IF job[r].tx = NoTx THEN 0 ELSE 1)]
        /\ UNCHANGED crashes
  /\ job' = [job EXCEPT ![r] = Reopened(r)]
  /\ wait' = [wait EXCEPT ![r] = 0]
  /\ UNCHANGED <<stored, worker, ledger>>

----------------------------------------------------------------------------
(* The publisher.                                                          *)

AnyDue == {r \in Receipts : job[r].status # "none" /\ wait[r] = 0}   \* mutant: any status
DueJobs == {r \in Receipts : job[r].status \in Waiting /\ wait[r] = 0}
CopyOf(r) == [receipt |-> r, attempts |-> job[r].attempts, tx |-> job[r].tx]

(* The timer, or a wake-up, finds the publisher idle and lists due jobs.   *)
StartBatch(p) ==
  /\ step[p] = "idle"
  /\ DueJobs # {}
  /\ \E due \in kSubset(Min({BatchSize, Cardinality(DueJobs)}), DueJobs) :
       batch' = [batch EXCEPT ![p] = {CopyOf(r) : r \in due}]
  /\ step' = [step EXCEPT ![p] = "next"]
  /\ UNCHANGED <<rows, doing, answer, ledger, counts>>

(* The next job starts with the script, or with its known transaction.     *)
TakeJob(p) ==
  /\ step[p] = "next"
  /\ \E c \in batch[p] :
       /\ batch' = [batch EXCEPT ![p] = @ \ {c}]
       /\ doing' = [doing EXCEPT ![p] = c]
       /\ step' = [step EXCEPT ![p] = IF c.tx = NoTx THEN "submit" ELSE "confirm"]
  /\ UNCHANGED <<rows, answer, ledger, counts>>

EndBatch(p) ==
  /\ step[p] = "next"
  /\ batch[p] = {}
  /\ step' = [step EXCEPT ![p] = "idle"]
  /\ UNCHANGED <<rows, batch, doing, answer, ledger, counts>>

(* updateAnchorJob writes the whole row, whatever it has become meanwhile. *)
Write(r, row, delay) ==
  /\ job' = [job EXCEPT ![r] = row]
  /\ wait' = [wait EXCEPT ![r] = delay]
  /\ UNCHANGED stored

Finish(p) ==
  /\ doing' = [doing EXCEPT ![p] = NoCopy]
  /\ step' = [step EXCEPT ![p] = "next"]
  /\ answer' = [answer EXCEPT ![p] = NoTx]
  /\ UNCHANGED batch

RetryDelay(attempts) == Min({MaxRetry, RetryBase * 2^Max({0, attempts - 1})})

Uncounted(p) == doing[p].attempts     \* mutant: a failure does not count
AttemptsAfter(p) == doing[p].attempts + 1

Unlimited(p, fatal) == fatal          \* mutant: no limit on attempts
GivesUp(p, fatal) == fatal \/ AttemptsAfter(p) >= MaxAttempts

Forgotten(p) == NoTx                  \* mutant: a failure clears the transaction
KnownTx(p) == doing[p].tx

FailJob(p, fatal) ==
  /\ Write(doing[p].receipt,
           [status |-> IF GivesUp(p, fatal) THEN "failed"
                       ELSE IF KnownTx(p) = NoTx THEN "pending" ELSE "submitted",
            attempts |-> AttemptsAfter(p), tx |-> KnownTx(p)],
           RetryDelay(AttemptsAfter(p)))
  /\ Finish(p)

(* The record script is running: its transaction may reach the chain.      *)
SendTransaction(p, t) ==
  /\ step[p] = "submit"
  /\ answer[p] = NoTx
  /\ chain[t] = "unsent"
  /\ chain' = [chain EXCEPT ![t] = "pending"]
  /\ carries' = [carries EXCEPT ![t] = doing[p].receipt]
  /\ answer' = [answer EXCEPT ![p] = t]
  /\ UNCHANGED <<rows, step, batch, doing, counts>>

(* The script reported the hash, which is stored before it is confirmed.   *)
SubmitAnswered(p) ==
  /\ step[p] = "submit"
  /\ answer[p] # NoTx
  /\ Write(doing[p].receipt,
           [status |-> "submitted", attempts |-> doing[p].attempts, tx |-> answer[p]],
           wait[doing[p].receipt])
  /\ doing' = [doing EXCEPT ![p].tx = answer[p]]
  /\ step' = [step EXCEPT ![p] = "confirm"]
  /\ answer' = [answer EXCEPT ![p] = NoTx]
  /\ UNCHANGED <<batch, ledger, counts>>

(* It failed, printed no hash or timed out, perhaps after sending.         *)
SubmitFails(p) ==
  /\ step[p] = "submit"
  /\ FailJob(p, FALSE)
  /\ lost' = [lost EXCEPT ![doing[p].receipt] = @ + (IF answer[p] = NoTx THEN 0 ELSE 1)]
  /\ UNCHANGED <<ledger, crashes, reopens>>

NotReverted(t) == chain[t] # "reverted"   \* mutant: pending counts as executed
IsExecuted(t) == chain[t] = "executed"

Confirm(p) ==
  /\ step[p] = "confirm"
  /\ IsExecuted(doing[p].tx)
  /\ step' = [step EXCEPT ![p] = "readback"]
  /\ UNCHANGED <<rows, batch, doing, answer, ledger, counts>>

(* Pending, unknown to the node, or no answer: try again later.  A reverted *)
(* transaction ends the job.                                               *)
ConfirmFails(p) ==
  /\ step[p] = "confirm"
  /\ \E fatal \in {FALSE, chain[doing[p].tx] = "reverted"} : FailJob(p, fatal)
  /\ UNCHANGED <<ledger, counts>>

Recorded == {carries[t] : t \in {u \in Txs : chain[u] = "executed"}}

Readback(p) ==
  /\ step[p] = "readback"
  /\ doing[p].receipt \in Recorded
  /\ Write(doing[p].receipt,
           [status |-> "confirmed", attempts |-> doing[p].attempts + 1, tx |-> doing[p].tx],
           0)
  /\ Finish(p)
  /\ UNCHANGED <<ledger, counts>>

ReadbackFails(p) ==
  /\ step[p] = "readback"
  /\ FailJob(p, FALSE)
  /\ UNCHANGED <<ledger, counts>>

----------------------------------------------------------------------------
(* The chain, time and failures.                                           *)

(* onlyRecorder reverts a transaction of a recorder that was replaced.     *)
Settle(t) ==
  /\ chain[t] = "pending"
  /\ \E fate \in {"executed", "reverted"} : chain' = [chain EXCEPT ![t] = fate]
  /\ UNCHANGED <<rows, worker, carries, counts>>

Tick ==
  /\ \E r \in Receipts : wait[r] > 0
  /\ wait' = [r \in Receipts |-> IF wait[r] > 0 THEN wait[r] - 1 ELSE 0]
  /\ UNCHANGED <<stored, job, worker, ledger, counts>>

(* The process exits, also on a write that fails, and is started again.    *)
Crash(p) ==
  /\ crashes < MaxCrashes
  /\ crashes' = crashes + 1
  /\ lost' = IF answer[p] = NoTx THEN lost ELSE [lost EXCEPT ![doing[p].receipt] = @ + 1]
  /\ step' = [step EXCEPT ![p] = "idle"]
  /\ batch' = [batch EXCEPT ![p] = {}]
  /\ doing' = [doing EXCEPT ![p] = NoCopy]
  /\ answer' = [answer EXCEPT ![p] = NoTx]
  /\ UNCHANGED <<rows, ledger, reopens>>

Submitting(p) == SubmitAnswered(p) \/ SubmitFails(p)
Confirming(p) == Confirm(p) \/ ConfirmFails(p)
Reading(p)    == Readback(p) \/ ReadbackFails(p)

Next ==
  \/ \E r \in Receipts : FinalizeReceipt(r) \/ EnqueueAgain(r)
  \/ \E p \in Publishers :
       \/ StartBatch(p) \/ TakeJob(p) \/ EndBatch(p)
       \/ \E t \in Txs : SendTransaction(p, t)
       \/ Submitting(p) \/ Confirming(p) \/ Reading(p)
       \/ Crash(p)
  \/ \E t \in Txs : Settle(t)
  \/ Tick

Spec == Init /\ [][Next]_vars

(* The interval timer of a running publisher fires for ever; every command *)
(* and RPC it awaits has a timeout; time passes.  Nothing is assumed of    *)
(* the chain, of the script or of clients.                                 *)
Fairness ==
  /\ WF_vars(Tick)
  /\ \A p \in Publishers :
       /\ WF_vars(StartBatch(p)) /\ WF_vars(TakeJob(p)) /\ WF_vars(EndBatch(p))
       /\ WF_vars(Submitting(p)) /\ WF_vars(Confirming(p)) /\ WF_vars(Reading(p))

FairSpec == Spec /\ Fairness

----------------------------------------------------------------------------
(* Properties.                                                             *)

(* A job is reported anchored only when its own transaction recorded its   *)
(* own receipt: getReceiptAnchorState answers with that transaction.       *)
ConfirmedIsRecorded ==
  \A r \in Receipts : job[r].status = "confirmed" =>
    /\ job[r].tx \in Txs
    /\ chain[job[r].tx] = "executed"
    /\ carries[job[r].tx] = r

(* A receipt is recorded by a second transaction only after an answer was  *)
(* lost or a client gave up a failed job: back-off, failed readbacks and   *)
(* restarts while confirming never submit again what was submitted.        *)
SubmissionsAccounted ==
  \A r \in Receipts :
    Cardinality({t \in Txs : carries[t] = r}) <= lost[r] + 1

(* A job that still waits for the publisher has an attempt left, and its   *)
(* status says whether a transaction is known, in every order of failures, *)
(* restarts and re-enqueueing.                                             *)
RetriesBounded ==
  \A r \in Receipts :
    /\ job[r].status \in Waiting => job[r].attempts < MaxAttempts
    /\ job[r].status \in {"none", "pending"} => job[r].tx = NoTx
    /\ job[r].status = "submitted" => job[r].tx # NoTx

(* A confirmed job is never touched again, neither by a copy read before   *)
(* it was confirmed nor by a client that enqueues the receipt.             *)
ConfirmedIsFinal ==
  [][\A r \in Receipts : job[r].status = "confirmed" => job'[r] = job[r]]_vars

(* Every job that is enqueued ends confirmed or failed, through back-off,  *)
(* batches of other jobs and restarts of the publisher.                    *)
JobsEnd ==
  \A r \in Receipts :
    (job[r].status \in Waiting) ~> (job[r].status \in Terminal)
============================================================================
