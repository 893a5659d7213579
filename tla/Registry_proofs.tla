--------------------------- MODULE Registry_proofs ---------------------------
(***************************************************************************)
(* What the components around the registry contract guarantee, for any     *)
(* receipts, publishers, checks, workers, shares, reports and requests:    *)
(* the receipt anchors, the receipts they are of, and the decisions that   *)
(* the bridge records.                                                     *)
(***************************************************************************)
EXTENDS MCRegistry, BoundedMap_proofs, TLAPS

----------------------------------------------------------------------------
(* Receipt anchors: one transaction for a receipt at a time, and none      *)
(* without its row in the outbox.                                          *)

(* Attempts are bounded only together: a row is written from a copy, and a *)
(* copy is made of a row that still waits.                                 *)
CopiesHaveAttempts ==
  \A p \in Publishers :
    /\ \A c \in batch[p] : c.attempts < MaxAttempts
    /\ doing[p].attempts < MaxAttempts
    /\ step[p] \in {"submit", "confirm", "readback"} => doing[p] \in Copies
    /\ step[p] \in {"confirm", "readback"} => doing[p].tx # NoTx

Bounded == TypeOK /\ RetriesBounded /\ CopiesHaveAttempts

LEMMA BoundedInit == Init => Bounded
BY AnchorAssumption DEF Init, Bounded, TypeOK, RetriesBounded, CopiesHaveAttempts,
   Jobs, NoJob, Copies, NoCopy, Waiting

(* What a failed attempt writes is well typed and keeps the bounds.        *)
LEMMA FailKeepsBounds ==
  ASSUME Bounded, NEW p \in Publishers, NEW fatal \in BOOLEAN,
         step[p] \in {"submit", "confirm", "readback"}, FailJob(p, fatal)
  PROVE  /\ job' \in [Receipts -> Jobs]
         /\ DOMAIN wait' = Receipts
         /\ RetriesBounded'
         /\ stored' = stored
         /\ step' \in [Publishers -> {"idle", "next", "submit", "confirm", "readback"}]
         /\ doing' \in [Publishers -> Copies \union {NoCopy}]
         /\ answer' \in [Publishers -> Txs \union {NoTx}]
         /\ batch' = batch
         /\ CopiesHaveAttempts'
<1>1. doing[p] \in Copies
  BY DEF Bounded, CopiesHaveAttempts
<1> DEFINE row == [status |-> IF GivesUp(p, fatal) THEN "failed"
                              ELSE IF KnownTx(p) = NoTx THEN "pending" ELSE "submitted",
                   attempts |-> AttemptsAfter(p), tx |-> KnownTx(p)]
<1>2. /\ row \in Jobs
      /\ row.status \in Waiting => row.attempts < MaxAttempts
      /\ row.status \in {"none", "pending"} => row.tx = NoTx
      /\ row.status = "submitted" => row.tx # NoTx
  BY <1>1, AnchorAssumption DEF Bounded, CopiesHaveAttempts, Copies, Jobs, GivesUp,
     AttemptsAfter, KnownTx, Waiting
<1>3. /\ job' = [job EXCEPT ![doing[p].receipt] = row]
      /\ wait' = [wait EXCEPT ![doing[p].receipt] = RetryDelay(AttemptsAfter(p))]
      /\ stored' = stored
      /\ doing' = [doing EXCEPT ![p] = NoCopy]
      /\ step' = [step EXCEPT ![p] = "next"]
      /\ answer' = [answer EXCEPT ![p] = NoTx]
      /\ batch' = batch
  BY DEF FailJob, Write, Finish
<1> HIDE DEF row
<1>4. job' \in [Receipts -> Jobs] /\ RetriesBounded'
  BY <1>1, <1>2, <1>3 DEF Bounded, TypeOK, RetriesBounded, Copies
<1>5. CopiesHaveAttempts'
  BY <1>3, AnchorAssumption DEF Bounded, TypeOK, CopiesHaveAttempts, NoCopy
<1> QED
  BY <1>3, <1>4, <1>5 DEF Bounded, TypeOK

LEMMA BoundedStep == Bounded /\ [Next]_vars => Bounded'
<1> SUFFICES ASSUME Bounded, [Next]_vars PROVE Bounded'
  OBVIOUS
<1> USE DEF vars, rows, worker, ledger, counts
<1>1. ASSUME NEW r \in Receipts, FinalizeReceipt(r) \/ EnqueueAgain(r)
      PROVE  Bounded'
  <2>1. NewJob \in Jobs /\ NewJob.status = "pending" /\ NewJob.tx = NoTx /\ NewJob.attempts < MaxAttempts
    BY AnchorAssumption DEF NewJob, Jobs
  <2>2. job' = [job EXCEPT ![r] = NewJob]
    BY <1>1 DEF FinalizeReceipt, EnqueueAgain, Reopened
  <2>3. job' \in [Receipts -> Jobs] /\ RetriesBounded'
    BY <2>1, <2>2 DEF Bounded, TypeOK, RetriesBounded
  <2>4. CopiesHaveAttempts'
    BY <1>1 DEF Bounded, CopiesHaveAttempts, FinalizeReceipt, EnqueueAgain
  <2> QED
    BY <1>1, <2>3, <2>4, AnchorAssumption DEF Bounded, TypeOK, FinalizeReceipt, EnqueueAgain
<1>2. ASSUME NEW p \in Publishers, StartBatch(p)
      PROVE  Bounded'
  <2>1. PICK due \in SUBSET DueJobs : batch' = [batch EXCEPT ![p] = {CopyOf(r) : r \in due}]
    BY <1>2 DEF StartBatch, kSubset
  <2>2. \A r \in DueJobs : CopyOf(r) \in Copies /\ CopyOf(r).attempts < MaxAttempts
    BY DEF DueJobs, CopyOf, Copies, Bounded, TypeOK, RetriesBounded, Jobs
  <2>3. batch' \in [Publishers -> SUBSET Copies]
    BY <2>1, <2>2 DEF Bounded, TypeOK
  <2>4. \A q \in Publishers : \A c \in batch'[q] : c.attempts < MaxAttempts
    BY <2>1, <2>2 DEF Bounded, TypeOK, CopiesHaveAttempts
  <2> QED
    BY <1>2, <2>3, <2>4 DEF Bounded, TypeOK, RetriesBounded, CopiesHaveAttempts, StartBatch
<1>3. ASSUME NEW p \in Publishers, TakeJob(p)
      PROVE  Bounded'
  BY <1>3 DEF Bounded, TypeOK, RetriesBounded, CopiesHaveAttempts, TakeJob
<1>4. ASSUME NEW p \in Publishers, EndBatch(p)
      PROVE  Bounded'
  BY <1>4 DEF Bounded, TypeOK, RetriesBounded, CopiesHaveAttempts, EndBatch
<1>5. ASSUME NEW p \in Publishers, NEW t \in Txs, SendTransaction(p, t)
      PROVE  Bounded'
  <2>1. doing[p].receipt \in Receipts
    BY <1>5 DEF Bounded, CopiesHaveAttempts, SendTransaction, Copies
  <2> QED
    BY <1>5, <2>1 DEF Bounded, TypeOK, RetriesBounded, CopiesHaveAttempts, SendTransaction
<1>6. ASSUME NEW p \in Publishers, SubmitAnswered(p)
      PROVE  Bounded'
  <2>1. doing[p] \in Copies /\ answer[p] \in Txs /\ answer[p] # NoTx
    BY <1>6, AnchorAssumption DEF Bounded, TypeOK, CopiesHaveAttempts, SubmitAnswered
  <2> DEFINE row == [status |-> "submitted", attempts |-> doing[p].attempts, tx |-> answer[p]]
  <2>2. row \in Jobs /\ row.status = "submitted" /\ row.tx # NoTx /\ row.attempts < MaxAttempts
    BY <2>1, AnchorAssumption DEF Bounded, CopiesHaveAttempts, Copies, Jobs
  <2>3. job' = [job EXCEPT ![doing[p].receipt] = row] /\ DOMAIN wait' = Receipts /\ stored' = stored
    BY <1>6 DEF SubmitAnswered, Write, Bounded, TypeOK
  <2> HIDE DEF row
  <2>4. job' \in [Receipts -> Jobs] /\ RetriesBounded'
    BY <2>1, <2>2, <2>3 DEF Bounded, TypeOK, RetriesBounded, Copies
  <2>5. doing' = [doing EXCEPT ![p] = [doing[p] EXCEPT !.tx = answer[p]]]
    BY <1>6 DEF SubmitAnswered
  <2>6. [doing[p] EXCEPT !.tx = answer[p]] \in Copies
    BY <2>1 DEF Copies
  <2>7. doing' \in [Publishers -> Copies \union {NoCopy}]
    BY <2>5, <2>6 DEF Bounded, TypeOK
  <2>8. CopiesHaveAttempts'
    BY <1>6, <2>1, <2>5, <2>6 DEF Bounded, TypeOK, CopiesHaveAttempts, SubmitAnswered, Copies
  <2> QED
    BY <1>6, <2>3, <2>4, <2>7, <2>8 DEF Bounded, TypeOK, SubmitAnswered
<1>7. ASSUME NEW p \in Publishers, SubmitFails(p)
      PROVE  Bounded'
  <2>1. doing[p] \in Copies
    BY <1>7 DEF Bounded, CopiesHaveAttempts, SubmitFails
  <2>2. lost' \in [Receipts -> Nat]
    BY <1>7, <2>1 DEF Bounded, TypeOK, SubmitFails, Copies
  <2> QED
    BY <1>7, <2>2, FailKeepsBounds DEF Bounded, TypeOK, SubmitFails
<1>8. ASSUME NEW p \in Publishers, Confirm(p)
      PROVE  Bounded'
  BY <1>8 DEF Bounded, TypeOK, RetriesBounded, CopiesHaveAttempts, Confirm
<1>9. ASSUME NEW p \in Publishers, ConfirmFails(p)
      PROVE  Bounded'
  <2>1. PICK fatal \in BOOLEAN : FailJob(p, fatal)
    BY <1>9 DEF ConfirmFails
  <2> QED
    BY <1>9, <2>1, FailKeepsBounds DEF Bounded, TypeOK, ConfirmFails
<1>10. ASSUME NEW p \in Publishers, Readback(p)
       PROVE  Bounded'
  <2>1. doing[p] \in Copies /\ doing[p].attempts < MaxAttempts
    BY <1>10 DEF Bounded, CopiesHaveAttempts, Readback
  <2> DEFINE row == [status |-> "confirmed", attempts |-> doing[p].attempts + 1, tx |-> doing[p].tx]
  <2>2. row \in Jobs /\ row.status = "confirmed"
    BY <2>1, AnchorAssumption DEF Copies, Jobs
  <2>3. job' = [job EXCEPT ![doing[p].receipt] = row] /\ DOMAIN wait' = Receipts /\ stored' = stored
    BY <1>10 DEF Readback, Write, Bounded, TypeOK
  <2> HIDE DEF row
  <2>4. job' \in [Receipts -> Jobs] /\ RetriesBounded'
    BY <2>1, <2>2, <2>3 DEF Bounded, TypeOK, RetriesBounded, Copies, Waiting
  <2>5. CopiesHaveAttempts'
    BY <1>10, AnchorAssumption DEF Bounded, TypeOK, CopiesHaveAttempts, Readback, Finish, NoCopy
  <2> QED
    BY <1>10, <2>3, <2>4, <2>5 DEF Bounded, TypeOK, Readback, Finish
<1>11. ASSUME NEW p \in Publishers, ReadbackFails(p)
       PROVE  Bounded'
  BY <1>11, FailKeepsBounds DEF Bounded, TypeOK, ReadbackFails
<1>12. ASSUME NEW p \in Publishers, Crash(p)
       PROVE  Bounded'
  <2>1. lost' \in [Receipts -> Nat]
    <3>1. CASE answer[p] = NoTx
      BY <1>12, <3>1 DEF Bounded, TypeOK, Crash
    <3>2. CASE answer[p] # NoTx
      <4> DEFINE r == doing[p].receipt
      <4>1. lost' = [lost EXCEPT ![r] = lost[r] + 1]
        BY <1>12, <3>2 DEF Crash
      <4> HIDE DEF r
      <4>2. CASE r \in Receipts
        BY <4>1, <4>2 DEF Bounded, TypeOK
      <4>3. CASE r \notin Receipts
        <5>1. lost' = [x \in Receipts |-> lost[x]]
          BY <4>1, <4>3 DEF Bounded, TypeOK
        <5> QED
          BY <5>1 DEF Bounded, TypeOK
      <4> QED
        BY <4>2, <4>3
    <3> QED
      BY <3>1, <3>2
  <2>2. doing' \in [Publishers -> Copies \union {NoCopy}]
    BY <1>12 DEF Bounded, TypeOK, Crash
  <2>3. CopiesHaveAttempts'
    BY <1>12, AnchorAssumption DEF Bounded, TypeOK, CopiesHaveAttempts, Crash, NoCopy
  <2> QED
    BY <1>12, <2>1, <2>2, <2>3, AnchorAssumption DEF Bounded, TypeOK, RetriesBounded, Crash
<1>13. ASSUME NEW t \in Txs, Settle(t)
       PROVE  Bounded'
  BY <1>13 DEF Bounded, TypeOK, RetriesBounded, CopiesHaveAttempts, Settle
<1>14. CASE Tick
  BY <1>14 DEF Bounded, TypeOK, RetriesBounded, CopiesHaveAttempts, Tick
<1>15. CASE UNCHANGED vars
  BY <1>15 DEF Bounded, TypeOK, RetriesBounded, CopiesHaveAttempts
<1> QED
  BY <1>1, <1>2, <1>3, <1>4, <1>5, <1>6, <1>7, <1>8, <1>9, <1>10, <1>11, <1>12, <1>13,
     <1>14, <1>15 DEF Next, Submitting, Confirming, Reading

(* Every variable keeps its type; no job is tried more often than the      *)
(* limit of attempts.                                                      *)
THEOREM AnchorTypeCorrect == Spec => []TypeOK
<1>1. Bounded => TypeOK
  BY DEF Bounded
<1> QED
  BY <1>1, BoundedInit, BoundedStep, PTL DEF Spec

(* A waiting job has an attempt left and its status tells whether its      *)
(* transaction is known, for any number of publishers.                     *)
THEOREM RetriesBoundedCorrect == Spec => []RetriesBounded
<1>1. Bounded => RetriesBounded
  BY DEF Bounded
<1> QED
  BY <1>1, BoundedInit, BoundedStep, PTL DEF Spec

----------------------------------------------------------------------------
(* Every transaction a row, a copy or an awaited answer names carries the  *)
(* receipt of that row, and a readback awaits an executed one.             *)
Traced ==
  /\ \A t \in Txs : chain[t] = "unsent" <=> carries[t] = NoReceipt
  /\ \A r \in Receipts : job[r].tx # NoTx => carries[job[r].tx] = r
  /\ \A p \in Publishers :
       /\ \A c \in batch[p] : c.tx # NoTx => carries[c.tx] = c.receipt
       /\ doing[p].tx # NoTx => carries[doing[p].tx] = doing[p].receipt
       /\ answer[p] # NoTx => carries[answer[p]] = doing[p].receipt
       /\ step[p] # "submit" => answer[p] = NoTx
       /\ step[p] = "readback" => chain[doing[p].tx] = "executed"
  /\ ConfirmedIsRecorded

LEMMA TracedInit == Init => Traced
BY DEF Init, Traced, ConfirmedIsRecorded, NoJob, NoCopy

(* A failed attempt only writes the transaction its copy already names.    *)
LEMMA FailKeepsTraces ==
  ASSUME Bounded, Traced, NEW p \in Publishers, NEW fatal \in BOOLEAN,
         step[p] \in {"submit", "confirm", "readback"}, FailJob(p, fatal),
         UNCHANGED ledger
  PROVE  Traced'
<1>1. doing[p] \in Copies
  BY DEF Bounded, CopiesHaveAttempts
<1> DEFINE row == [status |-> IF GivesUp(p, fatal) THEN "failed"
                              ELSE IF KnownTx(p) = NoTx THEN "pending" ELSE "submitted",
                   attempts |-> AttemptsAfter(p), tx |-> KnownTx(p)]
<1>2. row.tx = doing[p].tx /\ row.status # "confirmed"
  BY DEF KnownTx
<1>3. /\ job' = [job EXCEPT ![doing[p].receipt] = row]
      /\ doing' = [doing EXCEPT ![p] = NoCopy]
      /\ step' = [step EXCEPT ![p] = "next"]
      /\ answer' = [answer EXCEPT ![p] = NoTx]
      /\ batch' = batch
      /\ carries' = carries /\ chain' = chain
  BY DEF FailJob, Write, Finish, ledger
<1> HIDE DEF row
<1>4. \A r \in Receipts : job'[r].tx # NoTx => carries[job'[r].tx] = r
  BY <1>1, <1>2, <1>3 DEF Bounded, TypeOK, Traced, Copies
<1>5. ConfirmedIsRecorded'
  BY <1>1, <1>2, <1>3 DEF Bounded, TypeOK, Traced, ConfirmedIsRecorded, Copies
<1> QED
  BY <1>3, <1>4, <1>5 DEF Bounded, TypeOK, Traced, NoCopy

LEMMA TracedStep == Bounded /\ Traced /\ [Next]_vars => Traced'
<1> SUFFICES ASSUME Bounded, Traced, [Next]_vars PROVE Traced'
  OBVIOUS
<1> USE DEF vars, rows, worker, ledger, counts
<1>1. ASSUME NEW r \in Receipts, FinalizeReceipt(r) \/ EnqueueAgain(r)
      PROVE  Traced'
  <2>1. job' = [job EXCEPT ![r] = NewJob]
    BY <1>1 DEF FinalizeReceipt, EnqueueAgain, Reopened
  <2>2. UNCHANGED <<worker, ledger>>
    BY <1>1 DEF FinalizeReceipt, EnqueueAgain
  <2>3. NewJob.tx = NoTx /\ NewJob.status = "pending"
    BY DEF NewJob
  <2> QED
    BY <2>1, <2>2, <2>3 DEF Bounded, TypeOK, Traced, ConfirmedIsRecorded
<1>2. ASSUME NEW p \in Publishers, StartBatch(p)
      PROVE  Traced'
  <2>1. PICK due \in SUBSET DueJobs : batch' = [batch EXCEPT ![p] = {CopyOf(r) : r \in due}]
    BY <1>2 DEF StartBatch, kSubset
  <2>2. \A r \in DueJobs : CopyOf(r).tx # NoTx => carries[CopyOf(r).tx] = CopyOf(r).receipt
    BY DEF DueJobs, CopyOf, Traced
  <2>3. \A q \in Publishers : \A c \in batch'[q] : c.tx # NoTx => carries[c.tx] = c.receipt
    BY <2>1, <2>2 DEF Bounded, TypeOK, Traced
  <2>4. \A q \in Publishers : step'[q] = "readback" => step[q] = "readback"
    BY <1>2 DEF StartBatch, Bounded, TypeOK
  <2>5. UNCHANGED <<rows, doing, answer, ledger, counts>>
    BY <1>2 DEF StartBatch
  <2>6. \A q \in Publishers : step'[q] # "submit" => step[q] # "submit"
    BY <1>2 DEF StartBatch, Bounded, TypeOK
  <2> QED
    BY <2>3, <2>4, <2>5, <2>6 DEF Traced, ConfirmedIsRecorded
<1>3. ASSUME NEW p \in Publishers, TakeJob(p)
      PROVE  Traced'
  <2>1. PICK c \in batch[p] : /\ batch' = [batch EXCEPT ![p] = @ \ {c}]
                              /\ doing' = [doing EXCEPT ![p] = c]
                              /\ step' = [step EXCEPT ![p] = IF c.tx = NoTx THEN "submit" ELSE "confirm"]
    BY <1>3 DEF TakeJob
  <2>2. step[p] = "next" /\ UNCHANGED <<rows, answer, ledger>>
    BY <1>3 DEF TakeJob
  <2>3. c.tx # NoTx => carries[c.tx] = c.receipt
    BY <2>1 DEF Traced
  <2>4. answer[p] = NoTx
    BY <2>2 DEF Traced
  <2> QED
    BY <2>1, <2>2, <2>3, <2>4 DEF Bounded, TypeOK, Traced, ConfirmedIsRecorded
<1>4. ASSUME NEW p \in Publishers, EndBatch(p)
      PROVE  Traced'
  BY <1>4 DEF Bounded, TypeOK, Traced, ConfirmedIsRecorded, EndBatch
<1>5. ASSUME NEW p \in Publishers, NEW t \in Txs, SendTransaction(p, t)
      PROVE  Traced'
  <2>1. doing[p].receipt \in Receipts
    BY <1>5 DEF Bounded, CopiesHaveAttempts, SendTransaction, Copies
  <2>2. carries[t] = NoReceipt
    BY <1>5 DEF Traced, SendTransaction
  <2>3. \A u \in Txs : carries[u] # NoReceipt => carries'[u] = carries[u] /\ chain'[u] = chain[u]
    BY <1>5, <2>2 DEF Bounded, TypeOK, SendTransaction
  <2>4. \A u \in Txs : chain'[u] = "unsent" <=> carries'[u] = NoReceipt
    BY <1>5, <2>1, AnchorAssumption DEF Bounded, TypeOK, Traced, SendTransaction
  <2>5. \A r \in Receipts : job[r].tx # NoTx => job[r].tx \in Txs /\ carries[job[r].tx] # NoReceipt
    BY AnchorAssumption DEF Bounded, TypeOK, Jobs, Traced
  <2>6. \A r \in Receipts : job[r].tx # NoTx => carries'[job[r].tx] = r
    BY <2>3, <2>5 DEF Traced
  <2>7. \A q \in Publishers : \A c \in batch[q] : c.tx # NoTx => carries'[c.tx] = c.receipt
    <3>1. \A q \in Publishers : \A c \in batch[q] : c.tx \in Txs \union {NoTx} /\ c.receipt \in Receipts
      BY DEF Bounded, TypeOK, Copies
    <3> QED
      BY <3>1, <2>3, AnchorAssumption DEF Traced
  <2>8. \A q \in Publishers : doing[q].tx # NoTx => carries'[doing[q].tx] = doing[q].receipt
    <3>1. \A q \in Publishers : doing[q].tx # NoTx => doing[q].tx \in Txs /\ doing[q].receipt \in Receipts
      BY DEF Bounded, TypeOK, Copies, NoCopy
    <3> QED
      BY <3>1, <2>3, AnchorAssumption DEF Traced
  <2>9. \A q \in Publishers : answer'[q] # NoTx => carries'[answer'[q]] = doing[q].receipt
    <3>1. ASSUME NEW q \in Publishers, q # p, answer'[q] # NoTx
          PROVE  carries'[answer'[q]] = doing[q].receipt
      <4>1. answer'[q] = answer[q] /\ answer[q] \in Txs /\ step[q] = "submit"
        BY <1>5, <3>1 DEF Bounded, TypeOK, SendTransaction, Traced
      <4>2. doing[q].receipt \in Receipts
        BY <4>1 DEF Bounded, CopiesHaveAttempts, Copies
      <4> QED
        BY <4>1, <4>2, <2>3, <3>1, AnchorAssumption DEF Traced
    <3>2. answer'[p] = t /\ carries'[t] = doing[p].receipt
      BY <1>5 DEF Bounded, TypeOK, SendTransaction
    <3> QED
      BY <3>1, <3>2
  <2>10. \A q \in Publishers : step[q] = "readback" => chain'[doing[q].tx] = "executed"
    <3>1. \A q \in Publishers : step[q] = "readback" => doing[q].tx \in Txs /\ carries[doing[q].tx] # NoReceipt
      BY AnchorAssumption DEF Bounded, TypeOK, CopiesHaveAttempts, Copies, Traced
    <3> QED
      BY <2>3, <3>1 DEF Traced
  <2>11. ConfirmedIsRecorded'
    BY <1>5, <2>3, AnchorAssumption DEF Traced, ConfirmedIsRecorded, SendTransaction
  <2>12. UNCHANGED <<rows, step, batch, doing>>
    BY <1>5 DEF SendTransaction
  <2>13. \A q \in Publishers : step'[q] # "submit" => answer'[q] = NoTx
    BY <1>5 DEF SendTransaction, Bounded, TypeOK, Traced
  <2> QED
    BY <2>4, <2>6, <2>7, <2>8, <2>9, <2>10, <2>11, <2>12, <2>13 DEF Traced
<1>6. ASSUME NEW p \in Publishers, SubmitAnswered(p)
      PROVE  Traced'
  <2>1. doing[p] \in Copies /\ answer[p] \in Txs /\ carries[answer[p]] = doing[p].receipt
    BY <1>6, AnchorAssumption DEF Bounded, TypeOK, CopiesHaveAttempts, SubmitAnswered, Traced
  <2>2. job' = [job EXCEPT ![doing[p].receipt] =
                  [status |-> "submitted", attempts |-> doing[p].attempts, tx |-> answer[p]]]
    BY <1>6 DEF SubmitAnswered, Write
  <2>3. doing' = [doing EXCEPT ![p] = [doing[p] EXCEPT !.tx = answer[p]]]
    BY <1>6 DEF SubmitAnswered
  <2>4. /\ step' = [step EXCEPT ![p] = "confirm"]
        /\ answer' = [answer EXCEPT ![p] = NoTx]
        /\ UNCHANGED <<batch, carries, chain>>
    BY <1>6 DEF SubmitAnswered
  <2>5. \A r \in Receipts : job'[r].tx # NoTx => carries[job'[r].tx] = r
    BY <2>1, <2>2 DEF Bounded, TypeOK, Traced
  <2>6. ConfirmedIsRecorded'
    BY <2>1, <2>2, <2>4 DEF Bounded, TypeOK, Traced, ConfirmedIsRecorded
  <2>7. \A q \in Publishers : doing'[q].tx # NoTx => carries[doing'[q].tx] = doing'[q].receipt
    BY <2>1, <2>3 DEF Bounded, TypeOK, Traced, Copies
  <2>8. \A q \in Publishers : answer'[q] # NoTx => q # p /\ answer'[q] = answer[q] /\ doing'[q] = doing[q]
    BY <2>3, <2>4 DEF Bounded, TypeOK
  <2>9. \A q \in Publishers : step'[q] = "readback" => step[q] = "readback" /\ doing'[q] = doing[q]
    BY <2>3, <2>4 DEF Bounded, TypeOK
  <2>10. \A q \in Publishers : step'[q] # "submit" => answer'[q] = NoTx
    BY <2>4 DEF Bounded, TypeOK, Traced
  <2> QED
    BY <2>4, <2>5, <2>6, <2>7, <2>8, <2>9, <2>10 DEF Traced
<1>7. ASSUME NEW p \in Publishers, SubmitFails(p)
      PROVE  Traced'
  BY <1>7, FailKeepsTraces DEF SubmitFails
<1>8. ASSUME NEW p \in Publishers, Confirm(p)
      PROVE  Traced'
  BY <1>8 DEF Bounded, TypeOK, Traced, ConfirmedIsRecorded, Confirm, IsExecuted
<1>9. ASSUME NEW p \in Publishers, ConfirmFails(p)
      PROVE  Traced'
  BY <1>9, FailKeepsTraces DEF ConfirmFails
<1>10. ASSUME NEW p \in Publishers, Readback(p)
       PROVE  Traced'
  <2>1. /\ doing[p] \in Copies /\ doing[p].tx \in Txs
        /\ carries[doing[p].tx] = doing[p].receipt /\ chain[doing[p].tx] = "executed"
    BY <1>10, AnchorAssumption DEF Bounded, TypeOK, CopiesHaveAttempts, Copies, Readback, Traced
  <2>2. job' = [job EXCEPT ![doing[p].receipt] =
                  [status |-> "confirmed", attempts |-> doing[p].attempts + 1, tx |-> doing[p].tx]]
    BY <1>10 DEF Readback, Write
  <2>3. /\ doing' = [doing EXCEPT ![p] = NoCopy]
        /\ step' = [step EXCEPT ![p] = "next"]
        /\ answer' = [answer EXCEPT ![p] = NoTx]
        /\ UNCHANGED <<batch, carries, chain>>
    BY <1>10 DEF Readback, Finish
  <2>4. \A r \in Receipts : job'[r].tx # NoTx => carries[job'[r].tx] = r
    BY <2>1, <2>2 DEF Bounded, TypeOK, Traced
  <2>5. ConfirmedIsRecorded'
    BY <2>1, <2>2, <2>3 DEF Bounded, TypeOK, Traced, ConfirmedIsRecorded
  <2> QED
    BY <2>3, <2>4, <2>5 DEF Bounded, TypeOK, Traced, NoCopy
<1>11. ASSUME NEW p \in Publishers, ReadbackFails(p)
       PROVE  Traced'
  BY <1>11, FailKeepsTraces DEF ReadbackFails
<1>12. ASSUME NEW p \in Publishers, Crash(p)
       PROVE  Traced'
  BY <1>12 DEF Bounded, TypeOK, Traced, ConfirmedIsRecorded, Crash, NoCopy
<1>13. ASSUME NEW t \in Txs, Settle(t)
       PROVE  Traced'
  <2>1. PICK fate \in {"executed", "reverted"} : chain' = [chain EXCEPT ![t] = fate]
    BY <1>13 DEF Settle
  <2>2. /\ \A u \in Txs : chain'[u] = "unsent" <=> chain[u] = "unsent"
        /\ \A u : chain[u] = "executed" => chain'[u] = "executed"
    BY <1>13, <2>1 DEF Settle, Bounded, TypeOK
  <2>3. UNCHANGED <<rows, worker, carries>>
    BY <1>13 DEF Settle
  <2> QED
    BY <2>2, <2>3 DEF Traced, ConfirmedIsRecorded
<1>14. CASE Tick
  BY <1>14 DEF Traced, ConfirmedIsRecorded, Tick
<1>15. CASE UNCHANGED vars
  BY <1>15 DEF Traced, ConfirmedIsRecorded
<1> QED
  BY <1>1, <1>2, <1>3, <1>4, <1>5, <1>6, <1>7, <1>8, <1>9, <1>10, <1>11, <1>12, <1>13,
     <1>14, <1>15 DEF Next, Submitting, Confirming, Reading

(* Only a receipt that its job's own transaction recorded is confirmed,    *)
(* for any number of receipts, publishers, transactions and crashes.       *)
THEOREM ConfirmedIsRecordedCorrect == Spec => []ConfirmedIsRecorded
<1>1. Traced => ConfirmedIsRecorded
  BY DEF Traced
<1> QED
  BY <1>1, BoundedInit, BoundedStep, TracedInit, TracedStep, PTL DEF Spec

----------------------------------------------------------------------------
(* With one publisher every copy in hand is of a job that still waits, and *)
(* no two copies are of one job: the copies of a batch stay current for as *)
(* long as the batch lasts.                                                *)
OnePublisher == \A p, q \in Publishers : p = q

Current ==
  \A p \in Publishers :
    /\ \A c \in batch[p] : job[c.receipt].status \in Waiting /\ c.receipt # doing[p].receipt
    /\ \A c, d \in batch[p] : c.receipt = d.receipt => c = d
    /\ step[p] \in {"submit", "confirm", "readback"} => job[doing[p].receipt].status \in Waiting
    /\ step[p] = "idle" => batch[p] = {}
    /\ step[p] \in {"idle", "next"} => doing[p] = NoCopy

LEMMA CurrentInit == Init => Current
BY DEF Init, Current, NoCopy

WritesOnly(r) == \A s \in Receipts : s # r => job'[s] = job[s]

(* The step that ends the work on a copy, whatever row it writes.          *)
LEMMA FinishKeepsCurrent ==
  ASSUME OnePublisher, Bounded, Current, NEW p \in Publishers,
         step[p] \in {"submit", "confirm", "readback"}, WritesOnly(doing[p].receipt), Finish(p)
  PROVE  Current'
<1>1. doing[p] \in Copies
  BY DEF Bounded, CopiesHaveAttempts
<1>2. \A c \in batch[p] : c.receipt \in Receipts /\ job'[c.receipt] = job[c.receipt]
  BY <1>1 DEF Bounded, TypeOK, Current, Copies, WritesOnly
<1>3. /\ \A q \in Publishers : q = p
      /\ doing'[p] = NoCopy /\ step'[p] = "next" /\ batch' = batch
  BY DEF OnePublisher, Finish, Bounded, TypeOK
<1>4. \A c \in batch[p] : c.receipt # NoCopy.receipt
  BY <1>2, AnchorAssumption DEF NoCopy
<1> QED
  BY <1>2, <1>3, <1>4 DEF Current

(* A failed attempt writes the row of its receipt only.                    *)
LEMMA FailFinishes ==
  ASSUME Bounded, NEW p \in Publishers, NEW fatal \in BOOLEAN, FailJob(p, fatal)
  PROVE  WritesOnly(doing[p].receipt) /\ Finish(p) /\ stored' = stored
BY DEF FailJob, Write, WritesOnly, Bounded, TypeOK

LEMMA CurrentStep ==
  ASSUME OnePublisher
  PROVE  Bounded /\ Current /\ [Next]_vars => Current'
<1> SUFFICES ASSUME Bounded, Current, [Next]_vars PROVE Current'
  OBVIOUS
<1> USE DEF vars, rows, worker, ledger, counts
<1>1. ASSUME NEW r \in Receipts, FinalizeReceipt(r) \/ EnqueueAgain(r)
      PROVE  Current'
  <2>1. job' = [job EXCEPT ![r] = NewJob] /\ NewJob.status \in Waiting
    BY <1>1 DEF FinalizeReceipt, EnqueueAgain, Reopened, NewJob, Waiting
  <2>2. \A s \in Receipts : job[s].status \in Waiting => job'[s].status \in Waiting
    BY <2>1 DEF Bounded, TypeOK
  <2>3. \A p \in Publishers : /\ \A c \in batch[p] : c.receipt \in Receipts
                              /\ step[p] \in {"submit", "confirm", "readback"} => doing[p].receipt \in Receipts
    BY DEF Bounded, TypeOK, CopiesHaveAttempts, Copies
  <2>4. UNCHANGED worker
    BY <1>1 DEF FinalizeReceipt, EnqueueAgain
  <2> QED
    BY <2>2, <2>3, <2>4 DEF Current
<1>2. ASSUME NEW p \in Publishers, StartBatch(p)
      PROVE  Current'
  <2>1. PICK due \in SUBSET DueJobs : batch' = [batch EXCEPT ![p] = {CopyOf(r) : r \in due}]
    BY <1>2 DEF StartBatch, kSubset
  <2>2. batch'[p] = {CopyOf(r) : r \in due}
    BY <2>1 DEF Bounded, TypeOK
  <2>3. \A r \in due : /\ CopyOf(r).receipt = r /\ r \in Receipts /\ job[r].status \in Waiting
    BY <2>1 DEF DueJobs, CopyOf
  <2>4. /\ \A q \in Publishers : q = p
        /\ step[p] = "idle" /\ step'[p] = "next" /\ UNCHANGED <<rows, doing>>
    BY <1>2 DEF StartBatch, OnePublisher, Bounded, TypeOK
  <2>5. doing'[p] = NoCopy
    BY <2>4 DEF Current
  <2>6. NoCopy.receipt \notin Receipts
    BY AnchorAssumption DEF NoCopy
  <2> QED
    BY <2>2, <2>3, <2>4, <2>5, <2>6 DEF Current
<1>3. ASSUME NEW p \in Publishers, TakeJob(p)
      PROVE  Current'
  <2>1. PICK c \in batch[p] : /\ batch' = [batch EXCEPT ![p] = @ \ {c}]
                              /\ doing' = [doing EXCEPT ![p] = c]
                              /\ step' = [step EXCEPT ![p] = IF c.tx = NoTx THEN "submit" ELSE "confirm"]
    BY <1>3 DEF TakeJob
  <2>2. /\ \A q \in Publishers : q = p
        /\ batch'[p] = batch[p] \ {c} /\ doing'[p] = c /\ step'[p] \in {"submit", "confirm"}
    BY <2>1 DEF OnePublisher, Bounded, TypeOK
  <2>3. job' = job
    BY <1>3 DEF TakeJob
  <2> QED
    BY <2>2, <2>3 DEF Current
<1>4. ASSUME NEW p \in Publishers, EndBatch(p)
      PROVE  Current'
  BY <1>4 DEF Current, EndBatch, OnePublisher, Bounded, TypeOK
<1>5. ASSUME NEW p \in Publishers, NEW t \in Txs, SendTransaction(p, t)
      PROVE  Current'
  BY <1>5 DEF Current, SendTransaction
<1>6. ASSUME NEW p \in Publishers, SubmitAnswered(p)
      PROVE  Current'
  <2>1. doing[p] \in Copies
    BY <1>6 DEF Bounded, CopiesHaveAttempts, SubmitAnswered
  <2>2. job' = [job EXCEPT ![doing[p].receipt] =
                  [status |-> "submitted", attempts |-> doing[p].attempts, tx |-> answer[p]]]
    BY <1>6 DEF SubmitAnswered, Write
  <2>3. /\ \A q \in Publishers : q = p
        /\ doing'[p].receipt = doing[p].receipt /\ step'[p] = "confirm" /\ batch' = batch
    BY <1>6, <2>1 DEF SubmitAnswered, OnePublisher, Bounded, TypeOK, Copies
  <2>4. \A c \in batch[p] : c.receipt \in Receipts /\ job'[c.receipt] = job[c.receipt]
    BY <2>1, <2>2 DEF Bounded, TypeOK, Current, Copies
  <2>5. job'[doing[p].receipt].status \in Waiting
    BY <2>1, <2>2 DEF Bounded, TypeOK, Copies, Waiting
  <2> QED
    BY <2>3, <2>4, <2>5 DEF Current
<1>7. ASSUME NEW p \in Publishers, SubmitFails(p)
      PROVE  Current'
  <2>1. step[p] = "submit" /\ FailJob(p, FALSE)
    BY <1>7 DEF SubmitFails
  <2> QED
    BY <2>1, FailFinishes, FinishKeepsCurrent
<1>8. ASSUME NEW p \in Publishers, Confirm(p)
      PROVE  Current'
  BY <1>8 DEF Current, Confirm, OnePublisher, Bounded, TypeOK
<1>9. ASSUME NEW p \in Publishers, ConfirmFails(p)
      PROVE  Current'
  <2>1. PICK fatal \in BOOLEAN : FailJob(p, fatal)
    BY <1>9 DEF ConfirmFails
  <2>2. step[p] = "confirm"
    BY <1>9 DEF ConfirmFails
  <2> QED
    BY <2>1, <2>2, FailFinishes, FinishKeepsCurrent
<1>10. ASSUME NEW p \in Publishers, Readback(p)
       PROVE  Current'
  <2>1. step[p] = "readback" /\ Finish(p)
    BY <1>10 DEF Readback
  <2>2. WritesOnly(doing[p].receipt)
    BY <1>10 DEF Readback, Write, WritesOnly, Bounded, TypeOK
  <2> QED
    BY <2>1, <2>2, FinishKeepsCurrent
<1>11. ASSUME NEW p \in Publishers, ReadbackFails(p)
       PROVE  Current'
  <2>1. step[p] = "readback" /\ FailJob(p, FALSE)
    BY <1>11 DEF ReadbackFails
  <2> QED
    BY <2>1, FailFinishes, FinishKeepsCurrent
<1>12. ASSUME NEW p \in Publishers, Crash(p)
       PROVE  Current'
  BY <1>12 DEF Current, Crash, OnePublisher, Bounded, TypeOK
<1>13. ASSUME NEW t \in Txs, Settle(t)
       PROVE  Current'
  BY <1>13 DEF Current, Settle
<1>14. CASE Tick
  BY <1>14 DEF Current, Tick
<1>15. CASE UNCHANGED vars
  BY <1>15 DEF Current
<1> QED
  BY <1>1, <1>2, <1>3, <1>4, <1>5, <1>6, <1>7, <1>8, <1>9, <1>10, <1>11, <1>12, <1>13,
     <1>14, <1>15 DEF Next, Submitting, Confirming, Reading

(* A publisher writes, if any, the row of a receipt whose job still waits. *)
LEMMA WritesWaiting ==
  ASSUME Bounded, Current, NEW p \in Publishers, Submitting(p) \/ Confirming(p) \/ Reading(p)
  PROVE  /\ stored' = stored
         /\ \A r \in Receipts : job[r].status \notin Waiting => job'[r] = job[r]
<1>1. ASSUME step[p] \in {"submit", "confirm", "readback"}, WritesOnly(doing[p].receipt)
      PROVE  \A r \in Receipts : job[r].status \notin Waiting => job'[r] = job[r]
  BY <1>1 DEF Current, WritesOnly
<1>2. ASSUME NEW fatal \in BOOLEAN, step[p] \in {"submit", "confirm", "readback"}, FailJob(p, fatal)
      PROVE  /\ stored' = stored
             /\ \A r \in Receipts : job[r].status \notin Waiting => job'[r] = job[r]
  <2>1. WritesOnly(doing[p].receipt) /\ stored' = stored
    BY <1>2, FailFinishes
  <2> QED
    BY <1>1, <1>2, <2>1
<1>3. CASE SubmitAnswered(p)
  <2>1. step[p] = "submit" /\ stored' = stored /\ WritesOnly(doing[p].receipt)
    BY <1>3 DEF SubmitAnswered, Write, WritesOnly, Bounded, TypeOK
  <2> QED
    BY <1>1, <2>1
<1>4. CASE Readback(p)
  <2>1. step[p] = "readback" /\ stored' = stored /\ WritesOnly(doing[p].receipt)
    BY <1>4 DEF Readback, Write, WritesOnly, Bounded, TypeOK
  <2> QED
    BY <1>1, <2>1
<1>5. CASE SubmitFails(p)
  BY <1>2, <1>5 DEF SubmitFails
<1>6. CASE Confirm(p)
  BY <1>6 DEF Confirm, rows
<1>7. CASE ConfirmFails(p)
  <2>1. PICK fatal \in BOOLEAN : FailJob(p, fatal)
    BY <1>7 DEF ConfirmFails
  <2> QED
    BY <1>2, <1>7, <2>1 DEF ConfirmFails
<1>8. CASE ReadbackFails(p)
  BY <1>2, <1>8 DEF ReadbackFails
<1> QED
  BY <1>3, <1>4, <1>5, <1>6, <1>7, <1>8 DEF Submitting, Confirming, Reading

(* Only a stored receipt has a job.                                        *)
EnqueuedStored == \A r \in Receipts : job[r].status # "none" => r \in stored

LEMMA EnqueuedInit == Init => EnqueuedStored
BY DEF Init, EnqueuedStored, NoJob

LEMMA EnqueuedStep == Bounded /\ Current /\ EnqueuedStored /\ [Next]_vars => EnqueuedStored'
<1> SUFFICES ASSUME Bounded, Current, EnqueuedStored, [Next]_vars PROVE EnqueuedStored'
  OBVIOUS
<1> USE DEF vars, rows, worker, ledger, counts
<1>1. ASSUME NEW s \in Receipts, FinalizeReceipt(s) \/ EnqueueAgain(s) PROVE EnqueuedStored'
  <2>1. /\ job' = [job EXCEPT ![s] = NewJob]
        /\ s \in stored' /\ stored \subseteq stored'
    BY <1>1 DEF FinalizeReceipt, EnqueueAgain, Reopened
  <2> QED
    BY <2>1 DEF EnqueuedStored, Bounded, TypeOK
<1>2. ASSUME NEW p \in Publishers, Submitting(p) \/ Confirming(p) \/ Reading(p)
      PROVE  EnqueuedStored'
  BY <1>2, WritesWaiting DEF EnqueuedStored, Waiting
<1>3. ASSUME NEW p \in Publishers, NEW t \in Txs, SendTransaction(p, t) PROVE EnqueuedStored'
  BY <1>3 DEF SendTransaction, EnqueuedStored
<1> QED
  BY <1>1, <1>2, <1>3 DEF Next, StartBatch, TakeJob, EndBatch, Crash, Settle, Tick, EnqueuedStored

(* A step writes the row of a new, a failed or a waiting job only.         *)
LEMMA ConfirmedUntouched ==
  Bounded /\ Current /\ EnqueuedStored /\ [Next]_vars =>
    [\A r \in Receipts : job[r].status = "confirmed" => job'[r] = job[r]]_vars
<1> SUFFICES ASSUME Bounded, Current, EnqueuedStored, Next,
                    NEW r \in Receipts, job[r].status = "confirmed"
             PROVE  job'[r] = job[r]
  OBVIOUS
<1> USE DEF vars, rows, worker, ledger, counts
<1>2. ASSUME NEW s \in Receipts, FinalizeReceipt(s) PROVE job'[r] = job[r]
  <2>1. s # r
    BY <1>2 DEF FinalizeReceipt, EnqueuedStored
  <2> QED
    BY <1>2, <2>1 DEF FinalizeReceipt, Bounded, TypeOK
<1>3. ASSUME NEW s \in Receipts, EnqueueAgain(s) PROVE job'[r] = job[r]
  BY <1>3 DEF EnqueueAgain, Bounded, TypeOK
<1>4. ASSUME NEW p \in Publishers, Submitting(p) \/ Confirming(p) \/ Reading(p)
      PROVE  job'[r] = job[r]
  BY <1>4, WritesWaiting DEF Waiting
<1>5. ASSUME NEW p \in Publishers, NEW t \in Txs, SendTransaction(p, t) PROVE job'[r] = job[r]
  BY <1>5 DEF SendTransaction
<1> QED
  BY <1>2, <1>3, <1>4, <1>5 DEF Next, StartBatch, TakeJob, EndBatch, Crash, Settle, Tick

(* With one publisher a confirmed job is never written again, whatever     *)
(* fails, is restarted or is enqueued meanwhile.                           *)
THEOREM ConfirmedIsFinalCorrect == ASSUME OnePublisher PROVE Spec => ConfirmedIsFinal
<1>1. Bounded /\ Current /\ [Next]_vars => Current'
  BY CurrentStep
<1> QED
  BY <1>1, BoundedInit, BoundedStep, CurrentInit, EnqueuedInit, EnqueuedStep,
     ConfirmedUntouched, PTL DEF Spec, ConfirmedIsFinal

----------------------------------------------------------------------------
(* With one publisher a copy also names the transaction its job names, and *)
(* the script is started only for a job that names none.                   *)
CurrentTx ==
  \A p \in Publishers :
    /\ \A c \in batch[p] : job[c.receipt].tx = c.tx
    /\ step[p] \in {"submit", "confirm", "readback"} => job[doing[p].receipt].tx = doing[p].tx
    /\ step[p] = "submit" => doing[p].tx = NoTx

CopyInv == Bounded /\ Traced /\ Current /\ EnqueuedStored

LEMMA CurrentTxInit == Init => CurrentTx
BY DEF Init, CurrentTx

(* The step that ends the work on a copy leaves the others as they were.   *)
LEMMA FinishKeepsTx ==
  ASSUME OnePublisher, CopyInv, CurrentTx, NEW p \in Publishers,
         step[p] \in {"submit", "confirm", "readback"}, WritesOnly(doing[p].receipt), Finish(p)
  PROVE  CurrentTx'
<1>1. \A c \in batch[p] : job'[c.receipt] = job[c.receipt]
  BY DEF CopyInv, Bounded, TypeOK, Current, Copies, WritesOnly
<1>2. (\A q \in Publishers : q = p) /\ step'[p] = "next" /\ batch' = batch
  BY DEF OnePublisher, Finish, CopyInv, Bounded, TypeOK
<1> QED
  BY <1>1, <1>2 DEF CurrentTx

LEMMA CurrentTxStep ==
  ASSUME OnePublisher
  PROVE  CopyInv /\ CurrentTx /\ [Next]_vars => CurrentTx'
<1> SUFFICES ASSUME CopyInv, CurrentTx, [Next]_vars PROVE CurrentTx'
  OBVIOUS
<1> USE DEF vars, rows, worker, ledger, counts
<1>1. ASSUME NEW r \in Receipts, FinalizeReceipt(r) \/ EnqueueAgain(r)
      PROVE  CurrentTx'
  <2>1. job[r].status \notin Waiting
    BY <1>1 DEF FinalizeReceipt, EnqueueAgain, CopyInv, EnqueuedStored, Waiting
  <2>2. \A s \in Receipts : job[s].status \in Waiting => job'[s] = job[s]
    BY <1>1, <2>1 DEF FinalizeReceipt, EnqueueAgain, CopyInv, Bounded, TypeOK
  <2>3. \A p \in Publishers :
          /\ \A c \in batch[p] : c.receipt \in Receipts /\ job[c.receipt].status \in Waiting
          /\ step[p] \in {"submit", "confirm", "readback"} =>
               doing[p].receipt \in Receipts /\ job[doing[p].receipt].status \in Waiting
    BY DEF CopyInv, Bounded, TypeOK, CopiesHaveAttempts, Copies, Current
  <2>4. UNCHANGED worker
    BY <1>1 DEF FinalizeReceipt, EnqueueAgain
  <2> QED
    BY <2>2, <2>3, <2>4 DEF CurrentTx
<1>2. ASSUME NEW p \in Publishers, StartBatch(p)
      PROVE  CurrentTx'
  <2>1. PICK due \in SUBSET DueJobs : batch' = [batch EXCEPT ![p] = {CopyOf(r) : r \in due}]
    BY <1>2 DEF StartBatch, kSubset
  <2>2. \A c \in batch'[p] : job[c.receipt].tx = c.tx
    BY <2>1 DEF CopyInv, Bounded, TypeOK, CopyOf
  <2>3. (\A q \in Publishers : q = p) /\ step'[p] = "next" /\ job' = job
    BY <1>2 DEF StartBatch, OnePublisher, CopyInv, Bounded, TypeOK
  <2> QED
    BY <2>2, <2>3 DEF CurrentTx
<1>3. ASSUME NEW p \in Publishers, TakeJob(p)
      PROVE  CurrentTx'
  <2>1. PICK c \in batch[p] : /\ batch' = [batch EXCEPT ![p] = @ \ {c}]
                              /\ doing' = [doing EXCEPT ![p] = c]
                              /\ step' = [step EXCEPT ![p] = IF c.tx = NoTx THEN "submit" ELSE "confirm"]
    BY <1>3 DEF TakeJob
  <2>2. /\ \A q \in Publishers : q = p
        /\ batch'[p] = batch[p] \ {c} /\ doing'[p] = c
        /\ step'[p] = IF c.tx = NoTx THEN "submit" ELSE "confirm"
    BY <2>1 DEF OnePublisher, CopyInv, Bounded, TypeOK
  <2>3. job' = job
    BY <1>3 DEF TakeJob
  <2> QED
    BY <2>2, <2>3 DEF CurrentTx
<1>4. ASSUME NEW p \in Publishers, EndBatch(p) \/ Crash(p)
      PROVE  CurrentTx'
  <2>1. (\A q \in Publishers : q = p) /\ step'[p] = "idle" /\ batch'[p] \subseteq batch[p] /\ job' = job
    BY <1>4 DEF EndBatch, Crash, OnePublisher, CopyInv, Bounded, TypeOK
  <2> QED
    BY <2>1 DEF CurrentTx
<1>5. ASSUME NEW p \in Publishers, NEW t \in Txs, SendTransaction(p, t)
      PROVE  CurrentTx'
  BY <1>5 DEF CurrentTx, SendTransaction
<1>6. ASSUME NEW p \in Publishers, SubmitAnswered(p)
      PROVE  CurrentTx'
  <2>1. doing[p] \in Copies
    BY <1>6 DEF CopyInv, Bounded, CopiesHaveAttempts, SubmitAnswered
  <2>2. job' = [job EXCEPT ![doing[p].receipt] =
                  [status |-> "submitted", attempts |-> doing[p].attempts, tx |-> answer[p]]]
    BY <1>6 DEF SubmitAnswered, Write
  <2>3. /\ \A q \in Publishers : q = p
        /\ doing'[p].receipt = doing[p].receipt /\ doing'[p].tx = answer[p]
        /\ step'[p] = "confirm" /\ batch' = batch
    BY <1>6, <2>1 DEF SubmitAnswered, OnePublisher, CopyInv, Bounded, TypeOK, Copies
  <2>4. \A c \in batch[p] : job'[c.receipt] = job[c.receipt]
    BY <2>1, <2>2 DEF CopyInv, Bounded, TypeOK, Current, Copies
  <2>5. job'[doing[p].receipt].tx = answer[p]
    BY <2>1, <2>2 DEF CopyInv, Bounded, TypeOK, Copies
  <2> QED
    BY <2>3, <2>4, <2>5 DEF CurrentTx
<1>7. ASSUME NEW p \in Publishers, NEW fatal \in BOOLEAN,
             step[p] \in {"submit", "confirm", "readback"}, FailJob(p, fatal)
      PROVE  CurrentTx'
  BY <1>7, FailFinishes, FinishKeepsTx DEF CopyInv
<1>8. ASSUME NEW p \in Publishers, SubmitFails(p) \/ ConfirmFails(p) \/ ReadbackFails(p)
      PROVE  CurrentTx'
  <2>1. PICK fatal \in BOOLEAN : FailJob(p, fatal)
    BY <1>8 DEF SubmitFails, ConfirmFails, ReadbackFails
  <2>2. step[p] \in {"submit", "confirm", "readback"}
    BY <1>8 DEF SubmitFails, ConfirmFails, ReadbackFails
  <2> QED
    BY <1>7, <2>1, <2>2
<1>9. ASSUME NEW p \in Publishers, Confirm(p)
      PROVE  CurrentTx'
  BY <1>9 DEF CurrentTx, Confirm, OnePublisher, CopyInv, Bounded, TypeOK
<1>10. ASSUME NEW p \in Publishers, Readback(p)
       PROVE  CurrentTx'
  <2>1. step[p] = "readback" /\ Finish(p)
    BY <1>10 DEF Readback
  <2>2. WritesOnly(doing[p].receipt)
    BY <1>10 DEF Readback, Write, WritesOnly, CopyInv, Bounded, TypeOK
  <2> QED
    BY <2>1, <2>2, FinishKeepsTx
<1>11. ASSUME UNCHANGED <<job, step, batch, doing>>
       PROVE  CurrentTx'
  BY <1>11 DEF CurrentTx
<1> QED
  BY <1>1, <1>2, <1>3, <1>4, <1>5, <1>6, <1>8, <1>9, <1>10, <1>11
     DEF Next, Submitting, Confirming, Reading, Settle, Tick

(* A transaction is known while its job names it, or while the publisher   *)
(* still waits for the script that sent it.  A receipt has been sent no    *)
(* more transactions than were lost and this one.                          *)
Known(r) ==
  \/ job[r].tx # NoTx
  \/ \E p \in Publishers : doing[p].receipt = r /\ answer[p] # NoTx

Sent(r) == {t \in Txs : carries[t] = r}

Accounted ==
  \A r \in Receipts :
    /\ IsFiniteSet(Sent(r))
    /\ Cardinality(Sent(r)) <= lost[r] + (IF Known(r) THEN 1 ELSE 0)

LEMMA AccountedInit == Init => Accounted
<1> SUFFICES ASSUME Init, NEW r \in Receipts
             PROVE  /\ IsFiniteSet(Sent(r))
                    /\ Cardinality(Sent(r)) <= lost[r] + (IF Known(r) THEN 1 ELSE 0)
  BY DEF Accounted
<1>1. Sent(r) = {}
  BY AnchorAssumption DEF Init, Sent
<1>2. IsFiniteSet(Sent(r)) /\ Cardinality(Sent(r)) = 0
  BY <1>1, FS_EmptySet
<1>3. lost[r] = 0
  BY DEF Init
<1> QED
  BY <1>2, <1>3

(* A step that sends nothing keeps the account when every receipt keeps    *)
(* what is known of it or has one more transaction lost.                   *)
Kept(r) == lost'[r] = lost[r] + 1 \/ (lost'[r] = lost[r] /\ (Known(r) => Known(r)'))

LEMMA KeptAccounted ==
  ASSUME Bounded, Accounted, carries' = carries, \A r \in Receipts : Kept(r)
  PROVE  Accounted'
<1> SUFFICES ASSUME NEW r \in Receipts
             PROVE  /\ IsFiniteSet(Sent(r))'
                    /\ Cardinality(Sent(r)') <= lost'[r] + (IF Known(r)' THEN 1 ELSE 0)
  BY DEF Accounted
<1>1. Sent(r)' = Sent(r) /\ IsFiniteSet(Sent(r))
  BY DEF Accounted, Sent
<1>2. Cardinality(Sent(r)) \in Nat
  BY <1>1, FS_CardinalityType
<1>3. Cardinality(Sent(r)) <= lost[r] + (IF Known(r) THEN 1 ELSE 0)
  BY DEF Accounted
<1>4. lost[r] \in Nat
  BY DEF Bounded, TypeOK
<1>5. Kept(r)
  OBVIOUS
<1> DEFINE K == IF Known(r) THEN 1 ELSE 0
           L == IF Known(r)' THEN 1 ELSE 0
<1>6. K \in 0..1 /\ L \in 0..1 /\ (Known(r) => K = 1) /\ (Known(r)' => L = 1) /\ (~Known(r) => K = 0)
  OBVIOUS
<1>7. lost'[r] + L >= lost[r] + K
  <2> HIDE DEF K, L
  <2> QED
    BY <1>4, <1>5, <1>6 DEF Kept
<1>8. lost'[r] \in Nat
  BY <1>4, <1>5 DEF Kept
<1> HIDE DEF K, L
<1>9. Cardinality(Sent(r)) <= lost[r] + K
  BY <1>3 DEF K
<1>10. Cardinality(Sent(r)) <= lost'[r] + L
  BY <1>2, <1>4, <1>6, <1>7, <1>8, <1>9
<1> QED
  BY <1>1, <1>10 DEF L

(* The script sends for the one receipt in hand, of which nothing was known. *)
LEMMA SendAccounted ==
  ASSUME OnePublisher, CopyInv, CurrentTx, Accounted,
         NEW p \in Publishers, NEW t \in Txs, SendTransaction(p, t)
  PROVE  Accounted'
<1>0. PICK r \in Receipts : r = doing[p].receipt
  BY DEF SendTransaction, CopyInv, Bounded, CopiesHaveAttempts, Copies
<1>1. /\ job[r].tx = NoTx /\ answer[p] = NoTx
      /\ carries[t] = NoReceipt
      /\ \A q \in Publishers : q = p
  BY <1>0 DEF SendTransaction, CopyInv, CurrentTx, Traced, OnePublisher
<1>2. /\ carries' = [carries EXCEPT ![t] = r] /\ answer'[p] = t /\ t # NoTx
      /\ UNCHANGED <<job, doing, lost>>
  BY <1>0, AnchorAssumption DEF SendTransaction, CopyInv, Bounded, TypeOK, rows, counts
<1>3. ~Known(r)
  BY <1>1 DEF Known
<1>4. Known(r)'
  BY <1>0, <1>1, <1>2 DEF Known
<1>5. \A s \in Receipts : s # r => (Known(s)' <=> Known(s))
  BY <1>0, <1>1, <1>2 DEF Known
<1>6. \A s \in Receipts : s # r => Sent(s)' = Sent(s)
  BY <1>1, <1>2, AnchorAssumption DEF Sent, CopyInv, Bounded, TypeOK
<1>7. Sent(r)' = Sent(r) \union {t} /\ t \notin Sent(r)
  BY <1>1, <1>2, AnchorAssumption DEF Sent, CopyInv, Bounded, TypeOK
<1>8. IsFiniteSet(Sent(r)) /\ Cardinality(Sent(r)) <= lost[r] + 0
  BY <1>3 DEF Accounted
<1>9. Cardinality(Sent(r)) \in Nat
  BY <1>8, FS_CardinalityType
<1>10. IsFiniteSet(Sent(r)') /\ Cardinality(Sent(r)') = Cardinality(Sent(r)) + 1
  BY <1>7, <1>8, FS_AddElement
<1>11. lost[r] \in Nat
  BY DEF CopyInv, Bounded, TypeOK
<1>12. Cardinality(Sent(r)') <= lost'[r] + 1
  BY <1>2, <1>8, <1>9, <1>10, <1>11
<1> QED
  BY <1>2, <1>4, <1>5, <1>6, <1>10, <1>12 DEF Accounted

LEMMA AccountedStep ==
  ASSUME OnePublisher
  PROVE  CopyInv /\ CurrentTx /\ Accounted /\ [Next]_vars => Accounted'
<1> SUFFICES ASSUME CopyInv, CurrentTx, Accounted, [Next]_vars PROVE Accounted'
  OBVIOUS
<1> USE DEF vars, rows, worker, ledger, counts
<1>1. ASSUME NEW r \in Receipts, FinalizeReceipt(r) \/ EnqueueAgain(r)
      PROVE  Accounted'
  <2>1. job' = [job EXCEPT ![r] = NewJob] /\ UNCHANGED <<doing, answer, carries>>
    BY <1>1 DEF FinalizeReceipt, EnqueueAgain, Reopened
  <2>2. \A s \in Receipts : s # r => (Known(s) <=> Known(s)')
    BY <2>1 DEF Known, CopyInv, Bounded, TypeOK
  <2>3. \A s \in Receipts : s # r => lost'[s] = lost[s]
    BY <1>1 DEF FinalizeReceipt, EnqueueAgain, CopyInv, Bounded, TypeOK
  <2>4. CASE job[r].tx = NoTx
    <3>1. Known(r) => Known(r)'
      BY <2>1, <2>4 DEF Known
    <3>2. lost'[r] = lost[r]
      BY <1>1, <2>4 DEF FinalizeReceipt, EnqueueAgain, CopyInv, Bounded, TypeOK
    <3> QED
      BY <2>1, <2>2, <2>3, <3>1, <3>2, KeptAccounted DEF Kept, CopyInv
  <2>5. CASE job[r].tx # NoTx
    <3>1. r \in stored /\ job[r].status = "failed"
      BY <1>1, <2>5 DEF FinalizeReceipt, EnqueueAgain, CopyInv, Bounded, EnqueuedStored, RetriesBounded
    <3>2. lost'[r] = lost[r] + 1
      BY <1>1, <2>5, <3>1 DEF FinalizeReceipt, EnqueueAgain, CopyInv, Bounded, TypeOK
    <3> QED
      BY <2>1, <2>2, <2>3, <3>2, KeptAccounted DEF Kept, CopyInv
  <2> QED
    BY <2>4, <2>5
<1>2. ASSUME UNCHANGED <<job, carries, answer, lost>>,
             \A p \in Publishers : answer[p] # NoTx => doing'[p] = doing[p]
      PROVE  Accounted'
  BY <1>2, KeptAccounted DEF Kept, Known, CopyInv
<1>3. ASSUME NEW p \in Publishers, TakeJob(p) \/ StartBatch(p) \/ EndBatch(p) \/ Confirm(p)
      PROVE  Accounted'
  <2>1. \A q \in Publishers : answer[q] # NoTx => doing'[q] = doing[q]
    BY <1>3 DEF TakeJob, StartBatch, EndBatch, Confirm, CopyInv, Bounded, TypeOK, Traced
  <2> QED
    BY <1>2, <1>3, <2>1 DEF TakeJob, StartBatch, EndBatch, Confirm
(* The row written names the transaction of the copy, which is the one it  *)
(* named; a script still awaited is forgotten, and its transaction lost.   *)
<1>4. ASSUME NEW p \in Publishers, WritesOnly(doing[p].receipt), Finish(p), carries' = carries,
             doing[p] \in Copies, job'[doing[p].receipt].tx = job[doing[p].receipt].tx,
             lost' = [lost EXCEPT ![doing[p].receipt] = @ + (IF answer[p] = NoTx THEN 0 ELSE 1)]
      PROVE  Accounted'
  <2>0. PICK r \in Receipts : r = doing[p].receipt
    BY <1>4 DEF Copies
  <2>1. \A q \in Publishers : q = p
    BY DEF OnePublisher
  <2>2. \A s \in Receipts : job'[s].tx = job[s].tx
    BY <1>4 DEF WritesOnly
  <2>3. \A s \in Receipts : s # r => lost'[s] = lost[s] /\ (Known(s) => Known(s)')
    BY <1>4, <2>0, <2>1, <2>2 DEF Known, CopyInv, Bounded, TypeOK
  <2>4. answer[p] = NoTx => lost'[r] = lost[r] /\ (Known(r) => Known(r)')
    BY <1>4, <2>0, <2>1, <2>2 DEF Known, CopyInv, Bounded, TypeOK
  <2>5. answer[p] # NoTx => lost'[r] = lost[r] + 1
    BY <1>4, <2>0, <2>1 DEF CopyInv, Bounded, TypeOK
  <2> QED
    BY <1>4, <2>0, <2>1, <2>3, <2>4, <2>5, KeptAccounted DEF Kept, CopyInv
<1>5. ASSUME NEW p \in Publishers, NEW fatal \in BOOLEAN,
             step[p] \in {"submit", "confirm", "readback"}, FailJob(p, fatal), carries' = carries,
             lost' = [lost EXCEPT ![doing[p].receipt] = @ + (IF answer[p] = NoTx THEN 0 ELSE 1)]
      PROVE  Accounted'
  <2>1. doing[p] \in Copies
    BY <1>5 DEF CopyInv, Bounded, CopiesHaveAttempts
  <2>2. job'[doing[p].receipt].tx = doing[p].tx
    BY <1>5, <2>1 DEF FailJob, Write, KnownTx, CopyInv, Bounded, TypeOK, Copies
  <2>3. job[doing[p].receipt].tx = doing[p].tx
    BY <1>5 DEF CurrentTx
  <2>4. WritesOnly(doing[p].receipt) /\ Finish(p)
    BY <1>5, FailFinishes DEF CopyInv
  <2> QED
    BY <1>4, <1>5, <2>1, <2>2, <2>3, <2>4
(* Once the transaction is known nothing is awaited, and nothing is lost.  *)
<1>6. ASSUME NEW p \in Publishers, step[p] \in {"confirm", "readback"}, lost' = lost
      PROVE  lost' = [lost EXCEPT ![doing[p].receipt] = @ + (IF answer[p] = NoTx THEN 0 ELSE 1)]
  <2>1. answer[p] = NoTx /\ doing[p].receipt \in Receipts
    BY <1>6 DEF CopyInv, Traced, Bounded, CopiesHaveAttempts, Copies
  <2> QED
    BY <1>6, <2>1 DEF CopyInv, Bounded, TypeOK
<1>7. ASSUME NEW p \in Publishers, SubmitFails(p) PROVE Accounted'
  BY <1>5, <1>7 DEF SubmitFails
<1>8. ASSUME NEW p \in Publishers, ConfirmFails(p) \/ ReadbackFails(p) PROVE Accounted'
  <2>1. PICK fatal \in BOOLEAN : FailJob(p, fatal)
    BY <1>8 DEF ConfirmFails, ReadbackFails
  <2>2. step[p] \in {"confirm", "readback"} /\ lost' = lost /\ carries' = carries
    BY <1>8 DEF ConfirmFails, ReadbackFails
  <2> QED
    BY <1>5, <1>6, <2>1, <2>2
<1>9. ASSUME NEW p \in Publishers, Readback(p) PROVE Accounted'
  <2>1. step[p] = "readback" /\ Finish(p) /\ lost' = lost /\ carries' = carries
    BY <1>9 DEF Readback
  <2>2. doing[p] \in Copies /\ job[doing[p].receipt].tx = doing[p].tx
    BY <2>1 DEF CopyInv, Bounded, CopiesHaveAttempts, CurrentTx
  <2>3. WritesOnly(doing[p].receipt)
    BY <1>9 DEF Readback, Write, WritesOnly, CopyInv, Bounded, TypeOK
  <2>4. job'[doing[p].receipt].tx = doing[p].tx
    BY <1>9, <2>2 DEF Readback, Write, CopyInv, Bounded, TypeOK, Copies
  <2> QED
    BY <1>4, <1>6, <2>1, <2>2, <2>3, <2>4
<1>10. ASSUME NEW p \in Publishers, SubmitAnswered(p) PROVE Accounted'
  <2>0. PICK r \in Receipts : r = doing[p].receipt
    BY <1>10 DEF SubmitAnswered, CopyInv, Bounded, CopiesHaveAttempts, Copies
  <2>1. answer[p] # NoTx /\ \A q \in Publishers : q = p
    BY <1>10 DEF SubmitAnswered, OnePublisher
  <2>2. /\ job' = [job EXCEPT ![r] = [status |-> "submitted", attempts |-> doing[p].attempts,
                                       tx |-> answer[p]]]
        /\ carries' = carries /\ lost' = lost
    BY <1>10, <2>0 DEF SubmitAnswered, Write
  <2>3. Known(r)'
    BY <2>0, <2>1, <2>2 DEF Known, CopyInv, Bounded, TypeOK
  <2>4. \A s \in Receipts : s # r => (Known(s) => Known(s)')
    BY <2>0, <2>1, <2>2 DEF Known, CopyInv, Bounded, TypeOK
  <2> QED
    BY <2>2, <2>3, <2>4, KeptAccounted DEF Kept, CopyInv
<1>11. ASSUME NEW p \in Publishers, Crash(p) PROVE Accounted'
  <2>1. \A q \in Publishers : q = p
    BY DEF OnePublisher
  <2>2. job' = job /\ carries' = carries
    BY <1>11 DEF Crash
  <2>3. \A s \in Receipts : Kept(s)
    <3>1. CASE answer[p] = NoTx
      BY <1>11, <2>1, <2>2, <3>1 DEF Crash, Kept, Known
    <3>2. CASE answer[p] # NoTx
      <4>1. lost' = [lost EXCEPT ![doing[p].receipt] = @ + 1]
        BY <1>11, <3>2 DEF Crash
      <4>2. ASSUME NEW s \in Receipts, s = doing[p].receipt PROVE Kept(s)
        BY <4>1, <4>2 DEF Kept, CopyInv, Bounded, TypeOK
      <4>3. ASSUME NEW s \in Receipts, s # doing[p].receipt PROVE Kept(s)
        BY <2>1, <2>2, <4>1, <4>3 DEF Kept, Known, CopyInv, Bounded, TypeOK
      <4> QED
        BY <4>2, <4>3
    <3> QED
      BY <3>1, <3>2
  <2> QED
    BY <2>2, <2>3, KeptAccounted DEF CopyInv
<1>12. ASSUME UNCHANGED <<job, doing, answer, carries, lost>> PROVE Accounted'
  BY <1>2, <1>12
<1> QED
  BY <1>1, <1>3, <1>7, <1>8, <1>9, <1>10, <1>11, <1>12, SendAccounted
     DEF Next, Submitting, Confirming, Reading, Settle, Tick

(* With one publisher a receipt is sent to the chain again only after the  *)
(* answer to the last submission was lost or a failed job was enqueued     *)
(* again, for any number of receipts, transactions, retries and crashes.   *)
THEOREM SubmissionsAccountedCorrect ==
  ASSUME OnePublisher PROVE Spec => []SubmissionsAccounted
<1>1. Bounded /\ Accounted => SubmissionsAccounted
  <2> SUFFICES ASSUME Bounded, Accounted, NEW r \in Receipts
               PROVE  Cardinality(Sent(r)) <= lost[r] + 1
    BY DEF SubmissionsAccounted, Sent
  <2>1. IsFiniteSet(Sent(r)) /\ Cardinality(Sent(r)) <= lost[r] + (IF Known(r) THEN 1 ELSE 0)
    BY DEF Accounted
  <2>2. Cardinality(Sent(r)) \in Nat /\ lost[r] \in Nat
    BY <2>1, FS_CardinalityType DEF Bounded, TypeOK
  <2> QED
    BY <2>1, <2>2
<1>2. Bounded /\ Current /\ [Next]_vars => Current'
  BY CurrentStep
<1>3. CopyInv /\ CurrentTx /\ [Next]_vars => CurrentTx'
  BY CurrentTxStep
<1>4. CopyInv /\ CurrentTx /\ Accounted /\ [Next]_vars => Accounted'
  BY AccountedStep
<1> QED
  BY <1>1, <1>2, <1>3, <1>4, BoundedInit, BoundedStep, TracedInit, TracedStep, CurrentInit,
     EnqueuedInit, EnqueuedStep, CurrentTxInit, AccountedInit, PTL DEF Spec, CopyInv

----------------------------------------------------------------------------
(* Receipts: observing a check again, by whichever worker, finds the       *)
(* receipt and the job that are stored.                                    *)

(* The rows of a check: its observation and its receipt are stored         *)
(* together, of the transaction that settled it.                           *)
RowsAgree ==
  \A c \in Checks :
    /\ observation[c] = None <=> receipt[c] = None
    /\ receipt[c] # None =>
         /\ settled[c] # None
         /\ Pays[receipt[c].tx] = c
         /\ receipt[c].tx = settled[c].tx
         /\ receipt[c].obs = observation[c]

(* What a worker read before its transaction is still so: a settlement and *)
(* a share never change once they exist, except that a share is revoked.   *)
ReadsHold ==
  \A w \in Workers : writing[w] # None =>
    /\ writing[w].kind = "observe" =>
            /\ writing[w] \in Issuing!Observing
            /\ settled[writing[w].check] # None
            /\ Pays[writing[w].row.tx] = writing[w].check
            /\ writing[w].row.tx = settled[writing[w].check].tx
            /\ writing[w].row.obs = writing[w].obs
    /\ writing[w].kind = "revoke" => writing[w] \in Issuing!Revoking /\ share[writing[w].share] # None

(* A refusal names an observation that was stored, and was another one.    *)
Answered ==
  \A a \in told :
    /\ observation[a.check] # None
    /\ a.answer = "refused" <=> observation[a.check] # a.obs

Enqueued == \A c \in Checks : savedBy[c] \in Publishing => receiptJob[c] # "none"

(* A share was revoked once, or not yet.                                   *)
Revocations ==
  \A s \in Shares :
    revocations[s] = IF share[s] # None /\ share[s].revoked THEN 1 ELSE 0

ReceiptsInv == Issuing!TypeOK /\ RowsAgree /\ ReadsHold /\ Answered /\ Enqueued /\ Revocations

LEMMA NoneDistinct ==
  ASSUME Issuing!ReceiptsAssumption
  PROVE  /\ None \notin Observations /\ None \notin Workers /\ None \notin Issuing!ReceiptRows
         /\ None \notin Issuing!ShareRows
BY DEF Issuing!ReceiptsAssumption

LEMMA ReceiptsInit ==
  ASSUME Issuing!ReceiptsAssumption
  PROVE  Issuing!Init => ReceiptsInv
<1> SUFFICES ASSUME Issuing!Init PROVE ReceiptsInv
  OBVIOUS
<1>1. Issuing!TypeOK
  BY DEF Issuing!Init, Issuing!TypeOK, Issuing!Times, Issuing!ReceiptsAssumption
<1>2. Enqueued
  BY DEF Issuing!Init, Enqueued, Issuing!ReceiptsAssumption
<1> QED
  BY <1>1, <1>2 DEF Issuing!Init, ReceiptsInv, RowsAgree, ReadsHold, Answered, Revocations

(* What a worker builds of a settled check is a row of its types.          *)
LEMMA BuiltType ==
  ASSUME Issuing!ReceiptsAssumption, Issuing!TypeOK, NEW c \in Checks, NEW o \in Observations, settled[c] # None
  PROVE  Issuing!BuiltReceipt(c, o) \in Issuing!ReceiptRows
BY DEF Issuing!TypeOK, Issuing!BuiltReceipt, Issuing!ReceiptRows, Issuing!Proofs

LEMMA ReceiptsStep ==
  ASSUME Issuing!ReceiptsAssumption
  PROVE  ReceiptsInv /\ [Issuing!Next]_(Issuing!vars) => ReceiptsInv'
<1> SUFFICES ASSUME ReceiptsInv, [Issuing!Next]_(Issuing!vars) PROVE ReceiptsInv'
  OBVIOUS
<1> USE DEF ReceiptsInv, Issuing!vars, Issuing!tables, Issuing!links, Issuing!history
<1>1. ASSUME NEW c \in Checks, NEW t \in Payments, Issuing!SettleCheck(c, t)
      PROVE  ReceiptsInv'
  <2> DEFINE new == [tx |-> t, at |-> now]
  <2>1. new \in Issuing!Proofs /\ new # None
    BY DEF Issuing!ReceiptsAssumption, Issuing!TypeOK, Issuing!Proofs
  <2>2. settled' = [settled EXCEPT ![c] = new] /\ settled[c] = None
    BY <1>1 DEF Issuing!SettleCheck
  <2> HIDE DEF new
  <2>3. Issuing!TypeOK'
    BY <1>1, <2>1, <2>2 DEF Issuing!SettleCheck, Issuing!TypeOK
  <2>4. \A d \in Checks : settled[d] # None => settled'[d] = settled[d]
    BY <2>2 DEF Issuing!TypeOK
  <2>5. RowsAgree'
    BY <1>1, <2>4 DEF Issuing!SettleCheck, RowsAgree
  <2>6. ReadsHold'
    BY <1>1, <2>4 DEF Issuing!SettleCheck, ReadsHold, Issuing!Observing
  <2> QED
    BY <1>1, <2>3, <2>5, <2>6 DEF Issuing!SettleCheck, Answered, Enqueued, Revocations
<1>2. ASSUME NEW w \in Workers, NEW c \in Checks, NEW o \in Observations, Issuing!RepeatObservation(w, c, o)
      PROVE  ReceiptsInv'
  <2> DEFINE a == [check |-> c, obs |-> o, answer |-> "repeated"]
  <2>1. /\ observation[c] = o /\ told' = told \union {a} /\ Issuing!Enqueue(w, c)
        /\ UNCHANGED <<now, settled, observation, receipt, Issuing!links, writing, savedBy>>
    BY <1>2 DEF Issuing!RepeatObservation, Issuing!Answer
  <2>2. /\ receiptJob' \in [Checks -> {"none", "pending", "failed", "confirmed"}]
        /\ reissues' \in 0..MaxReissues
        /\ \A d \in Checks : receiptJob[d] # "none" => receiptJob'[d] # "none"
    BY <2>1 DEF Issuing!Enqueue, Issuing!TypeOK, Issuing!ReceiptsAssumption
  <2>3. Issuing!TypeOK'
    BY <2>1, <2>2 DEF Issuing!TypeOK, Issuing!Answers
  <2>4. Answered'
    BY <2>1 DEF Answered, Issuing!ReceiptsAssumption
  <2> QED
    BY <2>1, <2>2, <2>3, <2>4 DEF RowsAgree, ReadsHold, Enqueued, Revocations
<1>3. ASSUME NEW w \in Workers, NEW c \in Checks, NEW o \in Observations,
             Issuing!ConflictingObservation(w, c, o)
      PROVE  ReceiptsInv'
  <2>1. Answered'
    BY <1>3 DEF Issuing!ConflictingObservation, Issuing!Answer, Answered
  <2>2. Issuing!TypeOK'
    BY <1>3 DEF Issuing!ConflictingObservation, Issuing!Answer, Issuing!Answers,
        Issuing!TypeOK
  <2> QED
    BY <1>3, <2>1, <2>2 DEF Issuing!ConflictingObservation, RowsAgree, ReadsHold,
        Enqueued, Revocations
<1>4. ASSUME NEW w \in Workers, NEW c \in Checks, NEW o \in Observations, Issuing!BeginObservation(w, c, o)
      PROVE  ReceiptsInv'
  <2> DEFINE row == Issuing!BuiltReceipt(c, o)
             k == [kind |-> "observe", check |-> c, obs |-> o, row |-> row]
  <2>1. /\ settled[c] # None /\ Pays[row.tx] = c
        /\ writing' = [writing EXCEPT ![w] = k]
        /\ UNCHANGED <<now, Issuing!tables, Issuing!links, reissues, Issuing!history>>
    BY <1>4 DEF Issuing!BeginObservation, Issuing!Verifies, Issuing!PaysWhatWasApproved
  <2>2. row \in Issuing!ReceiptRows /\ row.tx = settled[c].tx /\ row.obs = o
    BY <2>1, BuiltType DEF Issuing!BuiltReceipt
  <2> HIDE DEF row
  <2>3. k \in Issuing!Observing
    BY <2>2 DEF Issuing!Observing
  <2>4. Issuing!TypeOK'
    BY <2>1, <2>3 DEF Issuing!TypeOK
  <2>5. ReadsHold'
    BY <2>1, <2>2, <2>3 DEF ReadsHold, Issuing!TypeOK
  <2> QED
    BY <2>1, <2>4, <2>5 DEF RowsAgree, Answered, Enqueued, Revocations
<1>5. ASSUME NEW w \in Workers, Issuing!SaveObservation(w)
      PROVE  ReceiptsInv'
  <2> DEFINE k == writing[w]
  <2>1. PICK c \in Checks, o \in Observations, row \in Issuing!ReceiptRows :
          /\ writing[w] = [kind |-> "observe", check |-> c, obs |-> o, row |-> row]
          /\ settled[c] # None /\ Pays[row.tx] = c /\ row.tx = settled[c].tx /\ row.obs = o
    <3>1. /\ writing[w] \in Issuing!Observing /\ settled[writing[w].check] # None
          /\ Pays[writing[w].row.tx] = writing[w].check
          /\ writing[w].row.tx = settled[writing[w].check].tx /\ writing[w].row.obs = writing[w].obs
      BY <1>5 DEF Issuing!SaveObservation, ReadsHold
    <3>2. PICK c \in Checks, o \in Observations, row \in Issuing!ReceiptRows :
            writing[w] = [kind |-> "observe", check |-> c, obs |-> o, row |-> row]
      BY <3>1 DEF Issuing!Observing
    <3> QED
      BY <3>1, <3>2
  <2> DEFINE a == [check |-> c, obs |-> o,
                   answer |-> IF observation[c] = None /\ receipt[c] = None
                              THEN "created" ELSE "repeated"]
  <2>2. /\ observation[c] \in {None, o}
        /\ observation' = [observation EXCEPT ![c] = Issuing!OrInsert(observation[c], o)]
        /\ receipt' = [receipt EXCEPT ![c] = Issuing!OrInsert(receipt[c], row)]
        /\ receiptJob' = [receiptJob EXCEPT ![c] = Issuing!JobWith(w, c)]
        /\ savedBy' = [savedBy EXCEPT ![c] = Issuing!OrInsert(savedBy[c], w)]
        /\ told' = told \union {a}
        /\ writing' = [writing EXCEPT ![w] = None]
        /\ UNCHANGED <<now, settled, Issuing!links, reissues>>
    BY <1>5, <2>1 DEF Issuing!SaveObservation, Issuing!SameObservation, Issuing!Answer
  <2>3. None \notin Observations /\ None \notin Issuing!ReceiptRows /\ None \notin Workers
    BY DEF Issuing!ReceiptsAssumption
  <2>4. Issuing!TypeOK'
    <3>1. Issuing!OrInsert(observation[c], o) \in Observations /\ Issuing!OrInsert(receipt[c], row) \in Issuing!ReceiptRows
      BY DEF Issuing!OrInsert, Issuing!TypeOK
    <3>2. Issuing!JobWith(w, c) \in {"none", "pending", "failed", "confirmed"}
      BY DEF Issuing!JobWith, Issuing!TypeOK
    <3>3. Issuing!OrInsert(savedBy[c], w) \in Workers
      BY DEF Issuing!OrInsert, Issuing!TypeOK
    <3>4. a \in Issuing!Answers
      BY DEF Issuing!Answers
    <3> QED
      BY <2>2, <3>1, <3>2, <3>3, <3>4 DEF Issuing!TypeOK
  <2>5. observation'[c] = o
    BY <2>2 DEF Issuing!OrInsert, Issuing!TypeOK
  <2>6. receipt'[c] # None /\ (receipt[c] = None => receipt'[c] = row)
                           /\ (receipt[c] # None => receipt'[c] = receipt[c])
    BY <2>2, <2>3 DEF Issuing!OrInsert, Issuing!TypeOK
  <2>7. \A d \in Checks : d # c => observation'[d] = observation[d] /\ receipt'[d] = receipt[d]
    BY <2>2 DEF Issuing!TypeOK
  <2>8. RowsAgree'
    <3>1. receipt[c] # None => observation[c] = o
      BY <2>2 DEF RowsAgree
    <3> QED
      BY <2>1, <2>2, <2>3, <2>5, <2>6, <2>7, <3>1 DEF RowsAgree
  <2>9. ReadsHold'
    BY <2>2 DEF ReadsHold, Issuing!TypeOK
  <2>10. Answered'
    <3>1. ASSUME NEW b \in told PROVE observation'[b.check] = observation[b.check]
      <4>1. observation[b.check] # None /\ b.check \in Checks
        BY DEF Answered, Issuing!TypeOK, Issuing!Answers
      <4> QED
        BY <2>2, <2>5, <2>7, <4>1
    <3> QED
      BY <2>2, <2>3, <2>5, <3>1 DEF Answered
  <2>11. Enqueued'
    <3>1. savedBy'[c] \in Publishing => receiptJob'[c] # "none"
      BY <2>2, <2>3 DEF Enqueued, Issuing!OrInsert, Issuing!JobWith, Issuing!TypeOK,
          Issuing!ReceiptsAssumption
    <3> QED
      BY <2>2, <3>1 DEF Enqueued, Issuing!TypeOK
  <2> QED
    BY <2>2, <2>4, <2>8, <2>9, <2>10, <2>11 DEF Revocations
<1>6. ASSUME NEW w \in Workers, Issuing!ObservationRefused(w)
      PROVE  ReceiptsInv'
  <2>1. /\ writing[w] \in Issuing!Observing
        /\ told' = told \union {[check |-> writing[w].check, obs |-> writing[w].obs, answer |-> "refused"]}
        /\ ~(Issuing!SameObservation(writing[w]) /\ Issuing!SameReceipt(writing[w]))
        /\ writing' = [writing EXCEPT ![w] = None]
        /\ UNCHANGED <<now, Issuing!tables, Issuing!links, reissues, savedBy>>
    BY <1>6 DEF Issuing!ObservationRefused, ReadsHold, Issuing!Answer
  <2>2. observation[writing[w].check] \notin {None, writing[w].obs}
    BY <2>1 DEF Issuing!SameObservation, Issuing!SameReceipt, RowsAgree, Issuing!Observing
  <2>3. Issuing!TypeOK'
    BY <2>1 DEF Issuing!TypeOK, Issuing!Answers, Issuing!Observing
  <2>4. Answered'
    BY <2>1, <2>2 DEF Answered
  <2>5. ReadsHold'
    BY <2>1 DEF ReadsHold, Issuing!TypeOK
  <2> QED
    BY <2>1, <2>3, <2>4, <2>5 DEF RowsAgree, Enqueued, Revocations
<1>7. ASSUME NEW c \in Checks, Issuing!JobEnds(c)
      PROVE  ReceiptsInv'
  BY <1>7 DEF Issuing!JobEnds, Issuing!TypeOK, RowsAgree, ReadsHold, Answered, Enqueued,
      Revocations
<1>8. ASSUME NEW w \in Workers, NEW s \in Shares, NEW c \in Checks, NEW e \in 0..(LastShareTime + 1),
             Issuing!CreateShare(w, s, c, e)
      PROVE  ReceiptsInv'
  <2> DEFINE new == [check |-> c, expires |-> e, revoked |-> FALSE]
  <2>1. new \in Issuing!ShareRows /\ ~new.revoked
    <3>1. e \in Nat
      BY DEF Issuing!ReceiptsAssumption
    <3> QED
      BY <3>1 DEF Issuing!ShareRows
  <2>2. share' = [share EXCEPT ![s] = new] /\ share[s] = None
    BY <1>8 DEF Issuing!CreateShare
  <2> HIDE DEF new
  <2>7. new # None
    BY <2>1, NoneDistinct
  <2>3. Issuing!TypeOK'
    BY <1>8, <2>1, <2>2 DEF Issuing!CreateShare, Issuing!TypeOK
  <2>4. \A x \in Shares : share[x] # None => share'[x] = share[x]
    BY <2>2 DEF Issuing!TypeOK
  <2>5. ReadsHold'
    BY <1>8, <2>4 DEF Issuing!CreateShare, ReadsHold, Issuing!Revoking
  <2>6. Revocations'
    BY <1>8, <2>1, <2>2, <2>7 DEF Issuing!CreateShare, Revocations, Issuing!TypeOK
  <2> QED
    BY <1>8, <2>3, <2>5, <2>6 DEF Issuing!CreateShare, RowsAgree, Answered, Enqueued
<1>9. ASSUME NEW w \in Workers, NEW s \in Shares, Issuing!BeginRevoke(w, s)
      PROVE  ReceiptsInv'
  <2>1. [kind |-> "revoke", share |-> s] \in Issuing!Revoking
    BY DEF Issuing!Revoking
  <2>2. Issuing!TypeOK'
    BY <1>9, <2>1 DEF Issuing!BeginRevoke, Issuing!TypeOK
  <2>3. ReadsHold'
    BY <1>9, <2>1 DEF Issuing!BeginRevoke, ReadsHold, Issuing!TypeOK
  <2> QED
    BY <1>9, <2>2, <2>3 DEF Issuing!BeginRevoke, RowsAgree, Answered, Enqueued,
        Revocations
<1>10. ASSUME NEW w \in Workers, Issuing!EndRevoke(w)
       PROVE  ReceiptsInv'
  <2>1. PICK s \in Shares : writing[w].share = s /\ share[s] # None
    BY <1>10 DEF Issuing!EndRevoke, ReadsHold, Issuing!Revoking
  <2>2. writing' = [writing EXCEPT ![w] = None] /\ UNCHANGED <<now, Issuing!tables, reissues, Issuing!history>>
    BY <1>10 DEF Issuing!EndRevoke
  <2>3. CASE share[s].revoked
    <3>1. UNCHANGED Issuing!links
      BY <1>10, <2>1, <2>3 DEF Issuing!EndRevoke, Issuing!Unrevoked
    <3> QED
      BY <2>2, <3>1 DEF Issuing!TypeOK, RowsAgree, ReadsHold, Answered, Enqueued,
          Revocations
  <2>4. CASE ~share[s].revoked
    <3> DEFINE row == [share[s] EXCEPT !.revoked = TRUE]
    <3>1. share' = [share EXCEPT ![s] = row] /\ revocations' = [revocations EXCEPT ![s] = @ + 1]
      BY <1>10, <2>1, <2>4 DEF Issuing!EndRevoke, Issuing!Unrevoked
    <3>2. row \in Issuing!ShareRows /\ row.revoked /\ row # None
      BY <2>1, NoneDistinct DEF Issuing!TypeOK, Issuing!ShareRows
    <3> HIDE DEF row
    <3>3. Issuing!TypeOK'
      BY <2>2, <3>1, <3>2 DEF Issuing!TypeOK
    <3>4. ReadsHold'
      BY <2>2, <3>1, <3>2 DEF ReadsHold, Issuing!TypeOK, Issuing!Revoking
    <3>5. Revocations'
      BY <2>1, <2>4, <3>1, <3>2 DEF Revocations, Issuing!TypeOK
    <3> QED
      BY <2>2, <3>3, <3>4, <3>5 DEF RowsAgree, Answered, Enqueued
  <2> QED
    BY <2>3, <2>4
<1>11. CASE Issuing!Tick
  BY <1>11 DEF Issuing!Tick, Issuing!TypeOK, Issuing!Times, RowsAgree, ReadsHold,
      Answered, Enqueued, Revocations,
     Issuing!ReceiptsAssumption
<1>12. ASSUME NEW w \in Workers, Issuing!Crash(w)
       PROVE  ReceiptsInv'
  BY <1>12 DEF Issuing!Crash, Issuing!TypeOK, RowsAgree, ReadsHold, Answered, Enqueued,
      Revocations
<1>13. CASE UNCHANGED Issuing!vars
  BY <1>13 DEF Issuing!TypeOK, RowsAgree, ReadsHold, Answered, Enqueued, Revocations
<1> QED
  BY <1>1, <1>2, <1>3, <1>4, <1>5, <1>6, <1>7, <1>8, <1>9, <1>10, <1>11, <1>12,
      <1>13 DEF Issuing!Next

(* A receipt is of the payment its check approved, one observation of a    *)
(* check is accepted and may be repeated, a worker with a publisher leaves *)
(* no receipt without its job, and one of several revocations is done: for *)
(* any number of checks, workers, shares and crashes.                      *)
THEOREM ReceiptsAgreeCorrect ==
  ASSUME Issuing!ReceiptsAssumption
  PROVE  Issuing!Spec => []ReceiptsAgree
<1>1. ReceiptsInv => Issuing!ReceiptsAgree
  <2> SUFFICES ASSUME ReceiptsInv PROVE Issuing!ReceiptsAgree
    OBVIOUS
  <2> USE DEF ReceiptsInv
  <2>1. Issuing!ReceiptsProvePayment
    BY DEF RowsAgree, Issuing!ReceiptsProvePayment
  <2>2. Issuing!AnswersAgree
    BY DEF Answered, RowsAgree, Issuing!AnswersAgree, Issuing!TypeOK, Issuing!Answers
  <2>3. Issuing!ReceiptsEnqueued
    BY DEF Enqueued, Issuing!ReceiptsEnqueued, Issuing!AnchorState, Issuing!TypeOK
  <2>4. Issuing!RevokedOnce
    BY DEF Revocations, Issuing!RevokedOnce, Issuing!SharedReceipt
  <2> QED
    BY <2>1, <2>2, <2>3, <2>4 DEF Issuing!ReceiptsAgree
<1> QED
  BY <1>1, ReceiptsInit, ReceiptsStep, PTL DEF Issuing!Spec, ReceiptsAgree

(* What was stored of a check is never stored otherwise: whichever workers *)
(* observe it again, nothing but SaveObservation writes its rows, and that *)
(* inserts only what is missing.                                           *)
THEOREM ReceiptsAreFinal ==
  ASSUME Issuing!ReceiptsAssumption
  PROVE  Issuing!Spec => Issuing!ReceiptIsFinal
<1>1. ReceiptsInv /\ [Issuing!Next]_(Issuing!vars) =>
        [\A c \in Checks : receipt[c] # None =>
           receipt'[c] = receipt[c] /\ observation'[c] = observation[c]]_(Issuing!vars)
  <2> SUFFICES ASSUME ReceiptsInv, Issuing!Next, NEW c \in Checks, receipt[c] # None
               PROVE  receipt'[c] = receipt[c] /\ observation'[c] = observation[c]
    OBVIOUS
  <2> USE DEF ReceiptsInv, Issuing!vars, Issuing!tables, Issuing!links, Issuing!history
  <2>1. observation[c] # None
    BY DEF RowsAgree
  <2>2. ASSUME NEW w \in Workers, Issuing!SaveObservation(w)
        PROVE  receipt'[c] = receipt[c] /\ observation'[c] = observation[c]
    BY <2>1, <2>2 DEF Issuing!SaveObservation, Issuing!OrInsert, Issuing!TypeOK
  <2> QED
    BY <2>2 DEF Issuing!Next, Issuing!SettleCheck, Issuing!RepeatObservation,
        Issuing!ConflictingObservation, Issuing!BeginObservation,
       Issuing!ObservationRefused, Issuing!JobEnds, Issuing!CreateShare,
       Issuing!BeginRevoke, Issuing!EndRevoke, Issuing!Tick, Issuing!Crash
<1> QED
  BY <1>1, ReceiptsInit, ReceiptsStep, PTL DEF Issuing!Spec, Issuing!ReceiptIsFinal

----------------------------------------------------------------------------
(* Decision records: no more records of a report are under way than it was *)
(* paid for, and no claim outlives its request.                            *)

(* The maps of the bridge are those of BoundedMap.                         *)
LEMMA RecordingMaps ==
  \A m, K, k :
    /\ Recording!Without(m, K) = Without(m, K)
    /\ Recording!KeysOf(m) = KeysOf(m) /\ Recording!Holds(m, k) = Holds(m, k)
    /\ Recording!Get(m, k) = Get(m, k)
BY Zenon DEF Recording!Without, Without, Recording!Staying, Staying, Recording!Nth, Nth,
             Recording!Rank, Rank, Recording!Cardinality, Cardinality,
             Recording!KeysOf, KeysOf, Recording!Holds, Holds, Recording!Get, Get

LEMMA RecordingCardinality == \A S : Recording!Cardinality(S) = Cardinality(S)
BY Zenon DEF Recording!Cardinality, Cardinality

(* The capabilities, and the one of report r in state s.                   *)
Capability == [key : Reports, value : [expiresAt : Nat, state : {"ready", "pending"}]]

Capabilities == MapsOf(Capability)

Stored(m, r, s) == \E i \in DOMAIN m : m[i].key = r /\ m[i].value.state = s

LEMMA StoredState ==
  ASSUME NEW m \in Capabilities, NEW r, NEW s
  PROVE  /\ Stored(m, r, s) <=> Holds(m, r) /\ Get(m, r).state = s
         /\ Stored(m, r, s) => \A t : Stored(m, r, t) => t = s
<1>1. \A i \in DOMAIN m : Holds(m, m[i].key) /\ Get(m, m[i].key) = m[i].value
  BY GetEntry DEF Capabilities
<1>2. Holds(m, r) => \E i \in DOMAIN m : m[i].key = r /\ Get(m, r) = m[i].value
  BY HeldEntry DEF Capabilities
<1> QED
  BY <1>1, <1>2 DEF Stored

LEMMA PruneStored ==
  ASSUME NEW m \in Capabilities
  PROVE  /\ Recording!Prune(m) \in Capabilities
         /\ \A r, s : Stored(Recording!Prune(m), r, s) => Stored(m, r, s)
<1> DEFINE K == {k \in Recording!KeysOf(m) : Recording!Get(m, k).expiresAt <= bridgeNow}
<1>1. Recording!Prune(m) = Without(m, K)
  <2>1. Recording!Prune(m) = Recording!Without(m, K)
    BY DEF Recording!Prune
  <2> HIDE DEF K
  <2> QED
    BY <2>1, RecordingMaps
<1> HIDE DEF K
<1>2. Without(m, K) \in Capabilities
  BY WithoutKeyed DEF Capabilities
<1>3. \A n \in DOMAIN Without(m, K) : \E i \in DOMAIN m : Without(m, K)[n] = m[i]
  BY WithoutKeyed DEF Capabilities
<1> QED
  BY <1>1, <1>2, <1>3 DEF Stored

LEMMA CompletedStored ==
  ASSUME NEW r, capabilities \in Capabilities
  PROVE  /\ Recording!Completed(r) \in Capabilities
         /\ \A q, s : Stored(Recording!Completed(r), q, s) => q # r /\ Stored(capabilities, q, s)
<1> DEFINE w == Without(capabilities, {r})
<1>1. Recording!Completed(r) = w
  BY RecordingMaps DEF Recording!Completed
<1>2. w \in Capabilities
  BY WithoutKeyed DEF Capabilities
<1>3. \A n \in DOMAIN w : \E i \in DOMAIN capabilities :
         w[n] = capabilities[i] /\ capabilities[i].key # r
  BY WithoutKeyed DEF Capabilities
<1> HIDE DEF w
<1> QED
  BY <1>1, <1>2, <1>3 DEF Stored

LEMMA MarkedStored ==
  ASSUME NEW m \in Capabilities, NEW r, NEW s \in {"ready", "pending"}
  PROVE  /\ Recording!Marked(m, r, s) \in Capabilities
         /\ \A q, t : Stored(Recording!Marked(m, r, s), q, t) =>
              IF q = r THEN t = s /\ \E u : Stored(m, r, u) ELSE Stored(m, q, t)
<1> DEFINE n == Recording!Marked(m, r, s)
<1>1. n = [i \in DOMAIN m |->
             IF m[i].key = r THEN [m[i] EXCEPT !.value.state = s] ELSE m[i]]
  BY DEF Recording!Marked
<1>2. DOMAIN m = 1..Len(m) /\ \A i \in DOMAIN m :
        m[i] \in Capability
  BY MapDef DEF Capabilities
<1> HIDE DEF n
<1>3. ASSUME NEW i \in DOMAIN m
      PROVE  /\ n[i] \in Capability
             /\ n[i].key = m[i].key
             /\ m[i].key = r => n[i].value.state = s
             /\ m[i].key # r => n[i] = m[i]
  BY <1>1, <1>2 DEF Capability
<1>4. n \in Capabilities /\ DOMAIN n = DOMAIN m
  <2>1. n = [i \in DOMAIN m |-> n[i]]
    BY <1>1
  <2> QED
    BY <1>3, <2>1, ChangedInPlace DEF Capabilities
<1> QED
  BY <1>3, <1>4 DEF n, Stored

LEMMA RegisteredStored ==
  ASSUME Recording!DecisionRecordsAssumption, bridgeNow \in Nat, capabilities \in Capabilities,
         NEW r \in Reports, Recording!Register(r)
  PROVE  /\ capabilities' \in Capabilities
         /\ \A q, t : Stored(capabilities', q, t) =>
              IF q = r THEN t = "ready" ELSE Stored(capabilities, q, t)
<1> DEFINE E == Capability
<1> DEFINE v == [expiresAt |-> bridgeNow + TtlMs, state |-> "ready"]
<1> DEFINE e == [key |-> r, value |-> v]
<1> DEFINE m == Recording!Prune(capabilities)
<1> DEFINE n == Recording!Put(m, r, v)
<1>1. capabilities' = Recording!DropOldest(n)
  BY DEF Recording!Register
<1>2. m \in MapsOf(E) /\ \A q, s : Stored(m, q, s) => Stored(capabilities, q, s)
  BY PruneStored DEF Capabilities
<1>3. e \in E /\ e.key = r /\ e.value.state = "ready"
  <2>1. TtlMs \in Nat
    BY DEF Recording!DecisionRecordsAssumption
  <2> QED
    BY <2>1 DEF Capability
<1>4. n = IF Holds(m, r) THEN [i \in DOMAIN m |-> IF m[i].key = r THEN e ELSE m[i]]
                         ELSE Append(m, e)
  BY RecordingMaps DEF Recording!Put
<1> HIDE DEF m, n, v, e, E
<1>5. n \in MapsOf(E) /\ \A q, t : Stored(n, q, t) =>
         IF q = r THEN t = "ready" ELSE Stored(m, q, t)
  <2>1. CASE Holds(m, r)
    <3>1. n = [i \in DOMAIN m |-> IF m[i].key = r THEN e ELSE m[i]]
      BY <1>4, <2>1
    <3>2. ASSUME NEW i \in DOMAIN m
          PROVE  /\ n[i] \in E /\ n[i].key = m[i].key
                 /\ m[i].key = r => n[i] = e
                 /\ m[i].key # r => n[i] = m[i]
      <4>1. m[i] \in E
        BY <1>2, MapDef
      <4> QED
        BY <1>3, <3>1, <4>1
    <3>3. n \in MapsOf(E) /\ DOMAIN n = DOMAIN m
      <4>1. n = [i \in DOMAIN m |-> n[i]]
        BY <3>1
      <4> QED
        BY <1>2, <3>2, <4>1, ChangedInPlace
    <3> QED
      BY <1>3, <3>2, <3>3 DEF Stored
  <2>2. CASE ~ Holds(m, r)
    <3>1. /\ n \in MapsOf(E) /\ DOMAIN n = 1..(Len(m) + 1)
          /\ \A i \in DOMAIN m : i \in 1..Len(m) /\ n[i] = m[i]
          /\ n[Len(m) + 1] = e
      BY <1>2, <1>3, <1>4, <2>2, AppendKeyed
    <3>2. Len(m) \in Nat /\ DOMAIN m = 1..Len(m)
      BY <1>2, MapDef
    <3>3. \A i \in DOMAIN n : i = Len(m) + 1 \/ i \in DOMAIN m
      BY <3>1, <3>2
    <3>4. \A i \in DOMAIN m : m[i].key # r
      BY <1>2, <2>2, GetEntry
    <3> QED
      BY <1>3, <3>1, <3>3, <3>4 DEF Stored
  <2> QED
    BY <2>1, <2>2
<1>6. capabilities' = n \/ (Len(n) > MaxCapabilities /\ capabilities' = Tail(n))
  BY <1>1 DEF Recording!DropOldest
<1>7. CASE capabilities' = n
  BY <1>2, <1>5, <1>7 DEF Capabilities, E
<1>8. CASE Len(n) > MaxCapabilities /\ capabilities' = Tail(n)
  <2>1. Len(n) \in Nat /\ n \in Seq(E) /\ MaxCapabilities \in Nat
        /\ \A i, j \in 1..Len(n) : n[i].key = n[j].key => i = j
    BY <1>5, MapDef DEF Recording!DecisionRecordsAssumption
  <2>2. n # <<>> /\ Len(n) > 0
    BY <1>8, <2>1
  <2> DEFINE u == Tail(n)
  <2>3. /\ u \in Seq(E) /\ Len(u) = Len(n) - 1 /\ DOMAIN u = 1..(Len(n) - 1)
        /\ \A i \in 1..(Len(n) - 1) : u[i] = n[i + 1]
    BY <2>1, <2>2
  <2> HIDE DEF u
  <2>4. \A i \in 1..(Len(n) - 1) : i + 1 \in 1..Len(n) /\ i \in Int
    BY <2>1
  <2>5. \A i, j \in 1..Len(u) : u[i].key = u[j].key => i = j
    <3>1. ASSUME NEW i \in 1..Len(u), NEW j \in 1..Len(u), u[i].key = u[j].key
          PROVE  i = j
      <4>1. i \in Int /\ j \in Int /\ i + 1 = j + 1
        BY <2>1, <2>3, <2>4, <3>1
      <4> QED
        BY <4>1
    <3> QED
      BY <3>1
  <2>6. u \in MapsOf(E)
    BY <2>3, <2>5 DEF MapsOf
  <2>7. \A q, t : Stored(u, q, t) => Stored(n, q, t)
    <3>1. \A i \in DOMAIN u : \E j \in DOMAIN n : u[i] = n[j]
      BY <2>1, <2>3, <2>4
    <3> QED
      BY <3>1 DEF Stored
  <2>8. capabilities' = u
    BY <1>8 DEF u
  <2> QED
    BY <1>2, <1>5, <2>6, <2>7, <2>8 DEF Capabilities, E
<1> QED
  BY <1>6, <1>7, <1>8

----------------------------------------------------------------------------
(* What the requests under way, the capabilities and the purchases of a    *)
(* report have to do with each other.                                      *)
OwnedCalls ==
  \A c \in Calls : recording[c] # None =>
     /\ bought[recording[c].input.report] > 0
     /\ recording[c].input.decision = DecisionOf[recording[c].input.report]

Purchased(r) ==
  /\ IsFiniteSet(Recording!InFlight(r))
  /\ Cardinality(Recording!InFlight(r)) + (IF Stored(capabilities, r, "ready") THEN 1 ELSE 0)
       <= bought[r]

Owned(r) == Stored(capabilities, r, "pending") => Recording!InFlight(r) # {}

RecordsTyped ==
  /\ bridgeNow \in Nat
  /\ capabilities \in Capabilities
  /\ recording \in [Calls -> Recording!CallRows \union {None}]
  /\ bought \in [Reports -> Nat]
  /\ registry \in Seq([input : Recording!Inputs, state : {"sent", "executed", "failed"}])

RecordsInv ==
  /\ RecordsTyped /\ OwnedCalls /\ Recording!RecordIsWhatWasPaid
  /\ \A r \in Reports : Purchased(r) /\ Owned(r)

LEMMA CallInput ==
  ASSUME RecordsTyped, NEW c \in Calls, recording[c] # None
  PROVE  /\ recording[c] \in Recording!CallRows
         /\ recording[c].input \in Recording!Inputs /\ recording[c].input.report \in Reports
BY DEF RecordsTyped, Recording!CallRows, Recording!Inputs

LEMMA RegistryRows ==
  ASSUME RecordsTyped
  PROVE  /\ Len(registry) \in Nat /\ DOMAIN registry = 1..Len(registry)
         /\ \A i \in DOMAIN registry : registry[i] \in
               [input : Recording!Inputs, state : {"sent", "executed", "failed"}]
<1> DEFINE Rows == [input : Recording!Inputs, state : {"sent", "executed", "failed"}]
<1>1. registry \in Seq(Rows)
  BY DEF RecordsTyped
<1> HIDE DEF Rows
<1>2. /\ Len(registry) \in Nat /\ DOMAIN registry = 1..Len(registry)
      /\ \A i \in 1..Len(registry) : registry[i] \in Rows
  BY <1>1
<1> QED
  BY <1>2 DEF Rows

(* A request that ends leaves one less under way.                          *)
LEMMA CallCloses ==
  ASSUME RecordsTyped, NEW c \in Calls, recording' = [recording EXCEPT ![c] = None]
  PROVE  \A r : Recording!InFlight(r)' = Recording!InFlight(r) \ {c}
<1>1. \A d \in Calls : recording'[d] = IF d = c THEN None ELSE recording[d]
  BY DEF RecordsTyped
<1> QED
  BY <1>1 DEF Recording!InFlight

LEMMA CallOpens ==
  ASSUME RecordsTyped, NEW c \in Calls, NEW row, recording' = [recording EXCEPT ![c] = row],
         recording[c] = None, row # None
  PROVE  /\ Recording!InFlight(row.input.report)' = Recording!InFlight(row.input.report) \union {c}
         /\ \A r : r # row.input.report => Recording!InFlight(r)' = Recording!InFlight(r)
<1>1. \A d \in Calls : recording'[d] = IF d = c THEN row ELSE recording[d]
  BY DEF RecordsTyped
<1> QED
  BY <1>1 DEF Recording!InFlight

LEMMA CallGoesOn ==
  ASSUME RecordsTyped, NEW c \in Calls, NEW row, recording' = [recording EXCEPT ![c] = row],
         recording[c] # None, row # None, row.input = recording[c].input
  PROVE  \A r : Recording!InFlight(r)' = Recording!InFlight(r)
<1>1. \A d \in Calls : recording'[d] = IF d = c THEN row ELSE recording[d]
  BY DEF RecordsTyped
<1> QED
  BY <1>1 DEF Recording!InFlight

(* A request that goes on leaves the rest as it is.                        *)
LEMMA GoesOnInv ==
  ASSUME RecordsInv, NEW c \in Calls, NEW row \in Recording!CallRows,
         None \notin Recording!CallRows,
         recording' = [recording EXCEPT ![c] = row], recording[c] # None,
         row.input = recording[c].input,
         UNCHANGED <<bridgeNow, capabilities, bought>>,
         registry' \in Seq([input : Recording!Inputs, state : {"sent", "executed", "failed"}]),
         Recording!RecordIsWhatWasPaid'
  PROVE  RecordsInv'
<1> USE DEF RecordsInv
<1>1. \A r : Recording!InFlight(r)' = Recording!InFlight(r)
  BY CallGoesOn
<1>2. RecordsTyped'
  BY DEF RecordsTyped
<1>3. OwnedCalls'
  <2>1. \A d \in Calls : recording'[d] = IF d = c THEN row ELSE recording[d]
    BY DEF RecordsTyped
  <2> QED
    BY <2>1 DEF OwnedCalls
<1>4. ASSUME NEW r \in Reports
      PROVE  Purchased(r)' /\ Owned(r)'
  BY <1>1 DEF Purchased, Owned
<1> QED
  BY <1>2, <1>3, <1>4

(* A request that ends releases its claim or uses it up.                   *)
LEMMA ClosesInv ==
  ASSUME RecordsInv, NEW c \in Calls, recording[c] # None,
         recording' = [recording EXCEPT ![c] = None],
         \/ capabilities' = Recording!Released(recording[c].input.report)
         \/ capabilities' = Recording!Completed(recording[c].input.report),
         UNCHANGED <<bridgeNow, bought, registry>>
  PROVE  RecordsInv'
<1> USE DEF RecordsInv
<1> DEFINE report == recording[c].input.report
<1>1. report \in Reports
  BY CallInput
<1>2. \A r : Recording!InFlight(r)' = Recording!InFlight(r) \ {c}
  BY CallCloses
<1>3. c \in Recording!InFlight(report) /\ \A r : r # report => c \notin Recording!InFlight(r)
  BY DEF Recording!InFlight
<1>4. /\ capabilities' \in Capabilities
      /\ \A q, t : Stored(capabilities', q, t) =>
           IF q = report THEN t = "ready" ELSE Stored(capabilities, q, t)
  <2>1. CASE capabilities' = Recording!Released(report)
    <3>1. capabilities \in Capabilities
      BY DEF RecordsTyped
    <3> QED
      BY <2>1, <3>1, MarkedStored DEF Recording!Released
  <2>2. CASE capabilities' = Recording!Completed(report)
    <3>1. capabilities \in Capabilities
      BY DEF RecordsTyped
    <3> QED
      BY <2>2, <3>1, CompletedStored
  <2> QED
    BY <2>1, <2>2
<1>5. RecordsTyped'
  BY <1>4 DEF RecordsTyped
<1>6. OwnedCalls'
  <2>1. \A d \in Calls : recording'[d] = IF d = c THEN None ELSE recording[d]
    BY DEF RecordsTyped
  <2> QED
    BY <2>1 DEF OwnedCalls
<1>7. Recording!RecordIsWhatWasPaid'
  BY DEF Recording!RecordIsWhatWasPaid
<1> HIDE DEF report
<1>8. ASSUME NEW r \in Reports
      PROVE  Purchased(r)' /\ Owned(r)'
  <2>1. CASE r # report
    <3>1. Recording!InFlight(r)' = Recording!InFlight(r)
      BY <1>2, <1>3, <2>1
    <3>2. \A t : Stored(capabilities', r, t) => Stored(capabilities, r, t)
      BY <1>4, <2>1
    <3>3. IsFiniteSet(Recording!InFlight(r)) => Cardinality(Recording!InFlight(r)) \in Nat
      BY FS_CardinalityType
    <3>4. bought[r] \in Nat
      BY DEF RecordsTyped
    <3> QED
      BY <3>1, <3>2, <3>3, <3>4 DEF Purchased, Owned
  <2>2. CASE r = report
    <3>1. /\ IsFiniteSet(Recording!InFlight(r)')
          /\ Cardinality(Recording!InFlight(r)') = Cardinality(Recording!InFlight(r)) - 1
          /\ Cardinality(Recording!InFlight(r)) \in Nat
      BY <1>2, <1>3, <2>2, FS_RemoveElement, FS_CardinalityType DEF Purchased
    <3>2. bought[r] \in Nat
      BY DEF RecordsTyped
    <3>3. ~ Stored(capabilities', r, "pending")
      BY <1>4, <2>2
    <3> QED
      BY <3>1, <3>2, <3>3 DEF Purchased, Owned
  <2> QED
    BY <2>1, <2>2
<1> QED
  BY <1>5, <1>6, <1>7, <1>8

LEMMA BuyReportInv ==
  ASSUME Recording!DecisionRecordsAssumption, RecordsInv, NEW r \in Reports,
         Recording!BuyReport(r)
  PROVE  RecordsInv'
<1> USE DEF RecordsInv
<1>1. /\ Recording!Register(r) /\ bought' = [bought EXCEPT ![r] = @ + 1]
      /\ UNCHANGED <<bridgeNow, recording, registry>>
  BY DEF Recording!BuyReport
<1>2. /\ capabilities' \in Capabilities
      /\ \A q, t : Stored(capabilities', q, t) =>
           IF q = r THEN t = "ready" ELSE Stored(capabilities, q, t)
  BY <1>1, RegisteredStored DEF RecordsTyped
<1>3. \A q \in Reports : /\ bought[q] \in Nat
                        /\ bought'[q] = IF q = r THEN bought[q] + 1 ELSE bought[q]
  BY <1>1 DEF RecordsTyped
<1>4. RecordsTyped'
  BY <1>1, <1>2 DEF RecordsTyped
<1>5. OwnedCalls'
  BY <1>1, <1>3, CallInput DEF OwnedCalls
<1>6. Recording!RecordIsWhatWasPaid'
  <2>1. \A i \in DOMAIN registry : registry[i].input.report \in Reports
    BY RegistryRows DEF Recording!Inputs
  <2> QED
    BY <1>1, <1>3, <2>1 DEF Recording!RecordIsWhatWasPaid
<1>7. ASSUME NEW q \in Reports
      PROVE  Purchased(q)' /\ Owned(q)'
  <2>1. Recording!InFlight(q)' = Recording!InFlight(q)
    BY <1>1 DEF Recording!InFlight
  <2>2. IsFiniteSet(Recording!InFlight(q)) => Cardinality(Recording!InFlight(q)) \in Nat
    BY FS_CardinalityType
  <2>3. "pending" # "ready"
    OBVIOUS
  <2>4. Stored(capabilities', q, "pending") => Stored(capabilities, q, "pending")
    BY <1>2, <2>3
  <2>5. q # r => (Stored(capabilities', q, "ready") => Stored(capabilities, q, "ready"))
    BY <1>2
  <2> QED
    BY <1>3, <2>1, <2>2, <2>4, <2>5 DEF Purchased, Owned
<1> QED
  BY <1>4, <1>5, <1>6, <1>7

LEMMA RecordDecisionInv ==
  ASSUME Recording!DecisionRecordsAssumption, RecordsInv, NEW c \in Calls,
         NEW input \in Recording!Inputs, Recording!RecordDecision(c, input)
  PROVE  RecordsInv'
<1> USE DEF RecordsInv
<1> DEFINE m == Recording!Prune(capabilities)
<1>1. /\ recording[c] = None /\ Recording!Claimable(input)
      /\ UNCHANGED <<bridgeNow, bought, registry>>
  BY DEF Recording!RecordDecision
<1>2. input.report \in Reports
  BY DEF Recording!Inputs
<1>3. m \in Capabilities /\ \A r, s : Stored(m, r, s) => Stored(capabilities, r, s)
  BY PruneStored DEF RecordsTyped
<1>4. Stored(m, input.report, "ready") /\ input.decision = DecisionOf[input.report]
  <2>1. /\ Recording!Holds(m, input.report) /\ Recording!Get(m, input.report).state = "ready"
        /\ input.decision = DecisionOf[input.report]
    BY <1>1 DEF Recording!Claimable
  <2> HIDE DEF m
  <2>2. Holds(m, input.report) /\ Get(m, input.report).state = "ready"
    BY <2>1, RecordingMaps
  <2> QED
    BY <1>3, <2>1, <2>2, StoredState
<1> HIDE DEF m
<1>5. /\ Stored(capabilities, input.report, "ready")
      /\ \A t : Stored(capabilities, input.report, t) => t = "ready"
  BY <1>3, <1>4, StoredState DEF RecordsTyped
<1>6. /\ IsFiniteSet(Recording!InFlight(input.report))
      /\ Cardinality(Recording!InFlight(input.report)) \in Nat
      /\ Cardinality(Recording!InFlight(input.report)) + 1 <= bought[input.report]
      /\ bought[input.report] \in Nat
  BY <1>2, <1>5, FS_CardinalityType DEF Purchased, RecordsTyped
<1>7. Recording!RecordIsWhatWasPaid'
  BY <1>1 DEF Recording!RecordIsWhatWasPaid
<1>8. CASE Recording!isBotChainPackageHash
  <2> DEFINE row == [input |-> input, step |-> "script", tx |-> 0]
  <2>1. /\ capabilities' = Recording!Marked(m, input.report, "pending")
        /\ recording' = [recording EXCEPT ![c] = row]
    BY <1>8 DEF Recording!RecordDecision, Recording!Claimed, m
  <2>2. row \in Recording!CallRows /\ row.input = input
    BY DEF Recording!CallRows
  <2>3. row # None
    BY <2>2 DEF Recording!DecisionRecordsAssumption
  <2> HIDE DEF row
  <2>4. /\ capabilities' \in Capabilities
        /\ \A q, t : Stored(capabilities', q, t) =>
             IF q = input.report THEN t = "pending" ELSE Stored(capabilities, q, t)
    BY <1>3, <2>1, MarkedStored
  <2>5. /\ Recording!InFlight(input.report)' = Recording!InFlight(input.report) \union {c}
        /\ \A r : r # input.report => Recording!InFlight(r)' = Recording!InFlight(r)
    BY <1>1, <2>1, <2>2, <2>3, CallOpens
  <2>6. RecordsTyped'
    BY <1>1, <2>1, <2>2, <2>4 DEF RecordsTyped
  <2>7. OwnedCalls'
    <3>1. \A d \in Calls : recording'[d] = IF d = c THEN row ELSE recording[d]
      BY <2>1 DEF RecordsTyped
    <3>2. bought[input.report] > 0
      BY <1>6
    <3> QED
      BY <1>1, <1>4, <2>2, <3>1, <3>2 DEF OwnedCalls
  <2>8. ASSUME NEW r \in Reports
        PROVE  Purchased(r)' /\ Owned(r)'
    <3>1. CASE r # input.report
      <4>1. Recording!InFlight(r)' = Recording!InFlight(r)
        BY <2>5, <3>1
      <4>2. \A t : Stored(capabilities', r, t) => Stored(capabilities, r, t)
        BY <2>4, <3>1
      <4>3. IsFiniteSet(Recording!InFlight(r)) => Cardinality(Recording!InFlight(r)) \in Nat
        BY FS_CardinalityType
      <4>4. bought[r] \in Nat
        BY DEF RecordsTyped
      <4> QED
        BY <1>1, <4>1, <4>2, <4>3, <4>4 DEF Purchased, Owned
    <3>2. CASE r = input.report
      <4>1. c \notin Recording!InFlight(r)
        BY <1>1 DEF Recording!InFlight
      <4>2. /\ IsFiniteSet(Recording!InFlight(r)')
            /\ Cardinality(Recording!InFlight(r)') = Cardinality(Recording!InFlight(r)) + 1
        BY <1>6, <2>5, <3>2, <4>1, FS_AddElement
      <4>3. "ready" # "pending"
        OBVIOUS
      <4>4. ~ Stored(capabilities', r, "ready") /\ Recording!InFlight(r)' # {}
        BY <2>4, <2>5, <3>2, <4>3
      <4> QED
        BY <1>1, <1>6, <3>2, <4>2, <4>4 DEF Purchased, Owned
    <3> QED
      BY <3>1, <3>2
  <2> QED
    BY <1>7, <2>6, <2>7, <2>8
<1>9. CASE ~ Recording!isBotChainPackageHash
  <2>1. capabilities' = Recording!Marked(capabilities, input.report, "ready")
        /\ recording' = recording
    BY <1>9 DEF Recording!RecordDecision, Recording!Released
  <2>2. /\ capabilities' \in Capabilities
        /\ \A q, t : Stored(capabilities', q, t) =>
             IF q = input.report THEN t = "ready" ELSE Stored(capabilities, q, t)
    BY <2>1, MarkedStored DEF RecordsTyped
  <2>3. \A q, t : Stored(capabilities', q, t) => Stored(capabilities, q, t)
    BY <1>5, <2>2
  <2>4. RecordsTyped' /\ OwnedCalls'
    BY <1>1, <2>1, <2>2 DEF RecordsTyped, OwnedCalls
  <2>5. ASSUME NEW r \in Reports
        PROVE  Purchased(r)' /\ Owned(r)'
    <3>1. Recording!InFlight(r)' = Recording!InFlight(r)
      BY <2>1 DEF Recording!InFlight
    <3>2. IsFiniteSet(Recording!InFlight(r)) => Cardinality(Recording!InFlight(r)) \in Nat
      BY FS_CardinalityType
    <3>3. bought[r] \in Nat
      BY DEF RecordsTyped
    <3> QED
      BY <1>1, <2>3, <3>1, <3>2, <3>3 DEF Purchased, Owned
  <2> QED
    BY <1>7, <2>4, <2>5
<1> QED
  BY <1>8, <1>9

LEMMA SendInv ==
  ASSUME Recording!DecisionRecordsAssumption, RecordsInv, NEW c \in Calls, Recording!Send(c)
  PROVE  RecordsInv'
<1> USE DEF RecordsInv
<1> DEFINE Rows == [input : Recording!Inputs, state : {"sent", "executed", "failed"}]
<1> DEFINE sent == [input |-> recording[c].input, state |-> "sent"]
<1> DEFINE row == [recording[c] EXCEPT !.tx = Len(registry')]
<1>1. /\ recording[c] # None /\ recording[c].step = "script"
      /\ registry' = Append(registry, sent)
      /\ recording' = [recording EXCEPT ![c].tx = Len(registry')]
      /\ UNCHANGED <<bridgeNow, capabilities, bought>>
  BY DEF Recording!Send, Recording!InScript
<1>2. recording' = [recording EXCEPT ![c] = row]
  BY <1>1 DEF RecordsTyped
<1>3. recording[c] \in Recording!CallRows /\ recording[c].input \in Recording!Inputs
  BY <1>1, CallInput
<1>4. sent \in Rows /\ sent.input = recording[c].input
  BY <1>3
<1>5. registry \in Seq(Rows) /\ Len(registry) \in Nat
  BY RegistryRows DEF RecordsTyped
<1> HIDE DEF sent, Rows
<1>6. /\ registry' \in Seq(Rows) /\ Len(registry') \in Nat
      /\ DOMAIN registry = 1..Len(registry) /\ DOMAIN registry' = 1..(Len(registry) + 1)
      /\ registry'[Len(registry) + 1] = sent
      /\ \A i \in 1..Len(registry) : registry'[i] = registry[i]
  BY <1>1, <1>4, <1>5
<1>7. row \in Recording!CallRows /\ row.input = recording[c].input
  BY <1>1, <1>3, <1>6 DEF Recording!CallRows
<1>8. Recording!RecordIsWhatWasPaid'
  <2>1. ASSUME NEW i \in DOMAIN registry'
        PROVE  /\ bought[registry'[i].input.report] > 0
               /\ registry'[i].input.decision = DecisionOf[registry'[i].input.report]
    <3>1. CASE i = Len(registry) + 1
      BY <1>1, <1>4, <1>6, <3>1 DEF OwnedCalls
    <3>2. CASE i # Len(registry) + 1
      <4>1. i \in 1..Len(registry)
        BY <1>5, <1>6, <3>2
      <4> QED
        BY <1>6, <4>1 DEF Recording!RecordIsWhatWasPaid
    <3> QED
      BY <3>1, <3>2
  <2> QED
    BY <1>1, <2>1 DEF Recording!RecordIsWhatWasPaid
<1>9. None \notin Recording!CallRows
  BY DEF Recording!DecisionRecordsAssumption
<1> HIDE DEF row
<1> QED
  BY <1>1, <1>2, <1>6, <1>7, <1>8, <1>9, GoesOnInv DEF Rows

(* Another query of a confirmation, or the first.                          *)
LEMMA QueryInv ==
  ASSUME Recording!DecisionRecordsAssumption, RecordsInv, NEW c \in Calls, recording[c] # None,
         NEW row \in Recording!CallRows, row.input = recording[c].input,
         recording' = [recording EXCEPT ![c] = row],
         UNCHANGED <<bridgeNow, capabilities, registry, bought>>
  PROVE  RecordsInv'
<1>1. None \notin Recording!CallRows
  BY DEF Recording!DecisionRecordsAssumption
<1>2. registry' \in Seq([input : Recording!Inputs, state : {"sent", "executed", "failed"}])
  BY DEF RecordsInv, RecordsTyped
<1>3. Recording!RecordIsWhatWasPaid'
  BY DEF RecordsInv, Recording!RecordIsWhatWasPaid
<1> QED
  BY <1>1, <1>2, <1>3, GoesOnInv

LEMMA ScriptPrintsHashInv ==
  ASSUME Recording!DecisionRecordsAssumption, RecordsInv, NEW c \in Calls,
         Recording!ScriptPrintsHash(c)
  PROVE  RecordsInv'
<1> DEFINE row == [input |-> recording[c].input, step |-> "confirm", tx |-> recording[c].tx,
                   query |-> 1]
<1>1. /\ recording[c] # None /\ recording' = [recording EXCEPT ![c] = row]
      /\ UNCHANGED <<bridgeNow, capabilities, registry, bought>>
  BY DEF Recording!ScriptPrintsHash, Recording!InScript
<1>2. row \in Recording!CallRows /\ row.input = recording[c].input
  BY <1>1, CallInput DEF RecordsInv, Recording!CallRows
<1> HIDE DEF row
<1> QED
  BY <1>1, <1>2, QueryInv

LEMMA FailsInv ==
  ASSUME RecordsInv, NEW c \in Calls, recording[c] # None, NEW result,
         Recording!Fails(c, result)
  PROVE  RecordsInv'
BY ClosesInv DEF Recording!Fails

LEMMA NotExecutedInv ==
  ASSUME Recording!DecisionRecordsAssumption, RecordsInv, NEW c \in Calls,
         Recording!NotExecuted(c)
  PROVE  RecordsInv'
<1> DEFINE row == [recording[c] EXCEPT !.query = @ + 1]
<1>1. recording[c] # None /\ recording[c].step = "confirm"
  BY DEF Recording!NotExecuted, Recording!InConfirm
<1>2. CASE Recording!LastQuery(c)
  BY <1>1, <1>2, FailsInv DEF Recording!NotExecuted
<1>3. CASE ~ Recording!LastQuery(c)
  <2>1. /\ recording' = [recording EXCEPT ![c].query = @ + 1]
        /\ UNCHANGED <<bridgeNow, capabilities, registry, bought>>
    BY <1>3 DEF Recording!NotExecuted
  <2>2. recording' = [recording EXCEPT ![c] = row]
    BY <2>1 DEF RecordsInv, RecordsTyped
  <2>3. row \in Recording!CallRows /\ row.input = recording[c].input
    BY <1>1, CallInput DEF RecordsInv, Recording!CallRows
  <2> HIDE DEF row
  <2> QED
    BY <1>1, <2>1, <2>2, <2>3, QueryInv
<1> QED
  BY <1>2, <1>3

LEMMA ExecutedInv ==
  ASSUME RecordsInv, NEW c \in Calls, Recording!Executed(c)
  PROVE  RecordsInv'
<1>1. recording[c] # None
  BY DEF Recording!Executed, Recording!InConfirm
<1>2. Recording!Fails(c, "contract mismatch") \/ Recording!Succeeds(c)
  BY DEF Recording!Executed
<1>3. CASE Recording!Fails(c, "contract mismatch")
  BY <1>1, <1>3, FailsInv
<1>4. CASE Recording!Succeeds(c)
  BY <1>1, <1>4, ClosesInv DEF Recording!Succeeds
<1> QED
  BY <1>2, <1>3, <1>4

LEMMA AnswerInv ==
  ASSUME Recording!DecisionRecordsAssumption, RecordsInv, NEW c \in Calls, Recording!Answer(c)
  PROVE  RecordsInv'
<1>1. CASE Recording!ScriptPrintsHash(c)
  BY <1>1, ScriptPrintsHashInv
<1>2. CASE Recording!ScriptFails(c)
  BY <1>2, FailsInv DEF Recording!ScriptFails, Recording!InScript
<1>3. CASE Recording!NotExecuted(c)
  BY <1>3, NotExecutedInv
<1>4. CASE Recording!QueryThrows(c)
  BY <1>4, FailsInv DEF Recording!QueryThrows, Recording!InConfirm
<1>5. CASE Recording!Executed(c)
  BY <1>5, ExecutedInv
<1> QED
  BY <1>1, <1>2, <1>3, <1>4, <1>5 DEF Recording!Answer

(* Nothing but the clock or the chain moves.                               *)
LEMMA OutsideInv ==
  ASSUME RecordsInv, bridgeNow' \in Nat, UNCHANGED <<capabilities, recording, bought>>,
         registry' \in Seq([input : Recording!Inputs, state : {"sent", "executed", "failed"}]),
         Recording!RecordIsWhatWasPaid'
  PROVE  RecordsInv'
<1> USE DEF RecordsInv
<1>1. RecordsTyped' /\ OwnedCalls'
  BY DEF RecordsTyped, OwnedCalls
<1>2. \A r : Recording!InFlight(r)' = Recording!InFlight(r)
  BY DEF Recording!InFlight
<1>3. \A r \in Reports : Purchased(r)' /\ Owned(r)'
  BY <1>2 DEF Purchased, Owned
<1> QED
  BY <1>1, <1>3

LEMMA ExecuteInv ==
  ASSUME RecordsInv, NEW i \in DOMAIN registry, Recording!Execute(i)
  PROVE  RecordsInv'
<1> DEFINE Rows == [input : Recording!Inputs, state : {"sent", "executed", "failed"}]
<1>1. PICK state \in {"executed", "failed"} : registry' = [registry EXCEPT ![i].state = state]
  BY DEF Recording!Execute
<1>2. UNCHANGED <<bridgeNow, capabilities, recording, bought>>
  BY DEF Recording!Execute
<1>3. /\ Len(registry) \in Nat /\ DOMAIN registry = 1..Len(registry)
      /\ \A j \in DOMAIN registry : registry[j] \in Rows
  BY RegistryRows DEF RecordsInv
<1>4. ASSUME NEW j \in DOMAIN registry
      PROVE  registry'[j] \in Rows /\ registry'[j].input = registry[j].input
  BY <1>1, <1>3
<1>5. registry' \in Seq(Rows) /\ DOMAIN registry' = DOMAIN registry
  <2>1. DOMAIN registry' = DOMAIN registry /\ registry' = [j \in DOMAIN registry |-> registry'[j]]
    BY <1>1, <1>3
  <2> HIDE DEF Rows
  <2>2. registry' \in [1..Len(registry) -> Rows]
    BY <1>3, <1>4, <2>1
  <2> QED
    BY <1>3, <2>1, <2>2
<1>6. Recording!RecordIsWhatWasPaid'
  BY <1>2, <1>4, <1>5 DEF RecordsInv, Recording!RecordIsWhatWasPaid
<1> QED
  BY <1>2, <1>5, <1>6, OutsideInv DEF RecordsInv, RecordsTyped

LEMMA TickInv ==
  ASSUME RecordsInv, Recording!Tick
  PROVE  RecordsInv'
<1>1. UNCHANGED <<capabilities, recording, registry, bought>> /\ bridgeNow' = bridgeNow + 1
  BY DEF Recording!Tick
<1>2. bridgeNow' \in Nat /\ Recording!RecordIsWhatWasPaid'
  BY <1>1 DEF RecordsInv, RecordsTyped, Recording!RecordIsWhatWasPaid
<1> QED
  BY <1>1, <1>2, OutsideInv DEF RecordsInv, RecordsTyped

LEMMA NothingStored ==
  /\ <<>> \in Capabilities
  /\ \A r, s : ~ Stored(<<>>, r, s)
BY DEF Capabilities, MapsOf, Stored

(* The bridge forgets the requests and their claims.                       *)
LEMMA RestartInv ==
  ASSUME RecordsInv, Recording!Restart
  PROVE  RecordsInv'
<1> USE DEF RecordsInv
<1>1. /\ capabilities' = <<>> /\ recording' = [c \in Calls |-> None]
      /\ UNCHANGED <<bridgeNow, registry, bought>>
  BY DEF Recording!Restart
<1>2. RecordsTyped' /\ OwnedCalls' /\ Recording!RecordIsWhatWasPaid'
  BY <1>1, NothingStored DEF RecordsTyped, OwnedCalls, Recording!RecordIsWhatWasPaid
<1>3. \A r : Recording!InFlight(r)' = {} /\ ~ Stored(capabilities', r, "pending")
             /\ ~ Stored(capabilities', r, "ready")
  BY <1>1, NothingStored DEF Recording!InFlight
<1>4. ASSUME NEW r \in Reports
      PROVE  Purchased(r)' /\ Owned(r)'
  <2>1. bought'[r] = bought[r] /\ bought[r] \in Nat
    BY <1>1 DEF RecordsTyped
  <2>2. Recording!InFlight(r)' = {} /\ ~ Stored(capabilities', r, "pending")
        /\ ~ Stored(capabilities', r, "ready")
    BY <1>3
  <2> QED
    BY <2>1, <2>2, FS_EmptySet DEF Purchased, Owned
<1> QED
  BY <1>2, <1>4

LEMMA RecordsInit ==
  ASSUME Recording!DecisionRecordsAssumption
  PROVE  Recording!Init => RecordsInv
<1> SUFFICES ASSUME Recording!Init PROVE RecordsInv
  OBVIOUS
<1>1. RecordsTyped /\ OwnedCalls /\ Recording!RecordIsWhatWasPaid
  BY NothingStored DEF RecordsTyped, OwnedCalls, Recording!RecordIsWhatWasPaid, Recording!Init
<1>2. \A r : Recording!InFlight(r) = {} /\ ~ Stored(capabilities, r, "pending")
             /\ ~ Stored(capabilities, r, "ready")
  BY NothingStored DEF Recording!InFlight, Recording!Init
<1>3. \A r \in Reports : Purchased(r) /\ Owned(r)
  BY <1>2, FS_EmptySet DEF Purchased, Owned, Recording!Init
<1> QED
  BY <1>1, <1>3 DEF RecordsInv

LEMMA RecordsStep ==
  ASSUME Recording!DecisionRecordsAssumption, RecordsInv, [Recording!Next]_(Recording!vars)
  PROVE  RecordsInv'
<1>1. CASE \E r \in Reports : Recording!BuyReport(r)
  BY <1>1, BuyReportInv
<1>2. CASE \E c \in Calls, input \in Recording!Inputs : Recording!RecordDecision(c, input)
  BY <1>2, RecordDecisionInv
<1>3. CASE \E c \in Calls : Recording!Send(c) \/ Recording!Answer(c)
  BY <1>3, SendInv, AnswerInv
<1>4. CASE \E i \in DOMAIN registry : Recording!Execute(i)
  BY <1>4, ExecuteInv
<1>5. CASE Recording!Tick
  BY <1>5, TickInv
<1>6. CASE Recording!Restart
  BY <1>6, RestartInv
<1>7. CASE UNCHANGED Recording!vars
  <2>1. UNCHANGED <<bridgeNow, capabilities, recording, registry, bought>>
    BY <1>7 DEF Recording!vars
  <2> QED
    BY <2>1, OutsideInv DEF RecordsInv, RecordsTyped, Recording!RecordIsWhatWasPaid
<1> QED
  BY <1>1, <1>2, <1>3, <1>4, <1>5, <1>6, <1>7 DEF Recording!Next

LEMMA RecordsInvSafe ==
  RecordsInv => RecordsAreBought
<1> SUFFICES ASSUME RecordsInv PROVE RecordsAreBought
  OBVIOUS
<1> USE DEF RecordsInv
<1>1. ASSUME NEW r, NEW s
      PROVE  Stored(capabilities, r, s) <=>
               Recording!Holds(capabilities, r) /\ Recording!Get(capabilities, r).state = s
  <2>1. Stored(capabilities, r, s) <=>
           Holds(capabilities, r) /\ Get(capabilities, r).state = s
    BY StoredState DEF RecordsTyped
  <2> QED
    BY <2>1, RecordingMaps
<1>2. Recording!InFlightNeedsPurchase
  BY <1>1, RecordingCardinality DEF Recording!InFlightNeedsPurchase, Purchased
<1>3. Recording!PendingHasOwner
  <2>1. ASSUME NEW r \in Recording!KeysOf(capabilities),
               Recording!Get(capabilities, r).state = "pending"
        PROVE  Recording!InFlight(r) # {}
    <3>1. Recording!Holds(capabilities, r)
      BY DEF Recording!Holds
    <3>2. Stored(capabilities, r, "pending")
      BY <1>1, <2>1, <3>1
    <3>3. r \in Reports
      <4>1. PICK i \in DOMAIN capabilities : capabilities[i].key = r
        BY <3>2 DEF Stored
      <4>2. capabilities[i] \in Capability
        BY MapDef DEF RecordsTyped, Capabilities
      <4> QED
        BY <4>1, <4>2 DEF Capability
    <3> QED
      BY <3>2, <3>3 DEF Owned
  <2> QED
    BY <2>1 DEF Recording!PendingHasOwner
<1> QED
  BY <1>2, <1>3 DEF RecordsAreBought

(* No more records of a report are ever under way or claimable than times  *)
(* it was paid for, they record the decision derived from it, and a claim  *)
(* has a request that is under way (publicConsole.ts:55, app.ts:150).      *)
THEOREM RecordsAreBoughtCorrect ==
  ASSUME Recording!DecisionRecordsAssumption
  PROVE  Recording!Spec => []RecordsAreBought
<1>1. Recording!Init => RecordsInv
  BY RecordsInit
<1>2. RecordsInv /\ [Recording!Next]_(Recording!vars) => RecordsInv'
  BY RecordsStep
<1>3. RecordsInv => RecordsAreBought
  BY RecordsInvSafe
<1> QED
  BY <1>1, <1>2, <1>3, PTL DEF Recording!Spec, RecordsAreBought
=============================================================================
