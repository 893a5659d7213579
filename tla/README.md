# A formal model of AgentPay

AgentPay answers one question for an agent that is about to pay over x402:
PAY, REVIEW or BLOCK. A PAY reserves part of the operator's signed daily budget
until the authorization expires; after the payment, AgentPay reads the Bot Chain
transaction and settles the check. This directory holds TLA+ modules of the
parts of that program whose correctness depends on the order of things, TLC
configurations that check them on small instances, and theorems that TLAPS
checks for every instance.

- [Inventory](#inventory) of the system
- [Plan](#plan) and [layout](#how-the-project-is-laid-out)
- [What is modelled](#what-is-modelled) and how it corresponds to the code
- [Properties and runs](#properties-and-runs), [Findings](#findings)
- [Proofs](#proofs)
- [What is not modelled](#what-is-not-modelled)

## Inventory

Paths are below `src/`. `auditor/` stands for `apps/report-api/src/auditor/`.

| Component | State | Operations | Interacts with |
|---|---|---|---|
| Payment-check service, `auditor/service.ts` | none of its own between calls; local copies across an `await` | `createCheck`, `cancelCheck`, `verifySettlement`, receipts, shares | repository (calls), evidence loader and settlement RPC (awaits), anchor publisher |
| Repository, `auditor/sqliteRepository.ts` | SQLite tables: checks, reservations, authorization_reservations, settlements (+attempts), policies, provider decisions, tokens, challenges, sessions, observations, receipts, shares, anchor jobs | one transaction per method | every process that opens the file (WAL, busy timeout) |
| Payment policy, `packages/agent-pay-core/src/payment/policy.ts` | none | `evaluatePayment` | called by the service on what it just read |
| Settlement comparison, `.../payment/settlement.ts` | none | `decodeEVMX402Transaction`, `compareSettlement` | called with the RPC's answer |
| Anchor publisher, `auditor/registry.ts` | `running`, timers; the job rows | `enqueue`, `wake`, `processDue` | registry contract through a child process and RPC |
| Operator authentication, `auditor/auth.ts`, `auditor/routes.ts` | challenges, sessions, tokens, revisions | challenge, session, signed artifacts, revocation | repository |
| Report quotes and x402 settlement, `apps/report-api/src/app.ts`, `payment.ts` | pending payments, transaction map | quote, settle, confirm, deliver | facilitator, Bot Chain |
| Payment-asset evidence cache, `app.ts` 1058-1105 | one shared promise | load | chain RPC, check service |
| Rate limits, `securityLimits.ts`, `app.ts` 1201-1231 | window counters, bounded map | admit a request | every route |
| Public artifacts, `publicArtifacts.ts`, `app.ts` 427-520 | verdict cards and feed entries in SQLite (or memory) | save a card after its decision record is found, share, list | Bot Chain, web, MCP bridge |
| Account evidence, trust rules, Merkle datasets, `accountEvidence.ts`, `packages/agent-pay-core/src/trust/`, `merkle.ts` | none that outlives a call | look up, judge, prove, verify | Bot Chain RPC, every buyer of a report |
| Probe of a paid URL, `auditor/probe.ts` | one request with its deadline | resolve, ask, follow redirects | name servers, the paid service |
| MCP bridge, `apps/mcp-server/src/` | limiter, decision capabilities, configuration | tools, `assess`, claim / complete, registry status | report API, registry script |
| Checked-call client, `packages/agent-pay-client/src/checkedCall.ts` | progress of one call | check, sign, pay, verify, observe | check service, paid service |
| Web audit flow, `apps/web/src/audit/useAuditFlow.ts` | React state, request generations | draft, check, pay, verify | check service, wallet |
| Operator rules, `apps/web/src/audit/walletOperatorActions.ts`, `apps/cli/src/operatorClient.ts` | session token, wallet account, the save under way | log in, read, compose, sign, post | operator routes, wallet |
| Evidence console, `apps/web/src/console/useEvidenceRun.ts`, `App.tsx` | the page, the calls in flight | run, pay, reset, tamper | MCP tools |
| Command line, `apps/cli/src/` | none but the exit code | every command | auditor, signer, paid service |
| Schema migrations, `auditor/sqliteRepository.ts` 806-1270 | `schema_migrations`, tables | open, migrate, refuse | other processes and older builds |
| Deployment, `deploy/luxvps/` | the three database files, archives, containers | snapshot, restore, deploy | report-api |
| RPC transport, signatures, canonical JSON, hashing, other pages, one-off scripts | none that outlives a call | | |

What is hard, and what makes each component correct:

- **Checks and budget.** Two reads, an evaluation and a transaction, with other
  requests and other connections between them; expiry as a side effect of
  queries; a nonce table that must follow the reservations. Correct when no
  admission exceeds cap or slots, no nonce is claimed twice, a retry always gets
  the check of its own content, and controls in force are the controls used.
- **Cancellation and settlement.** Two transactions for a cancellation; a
  settlement written from a row read before an RPC await; several polls in
  flight; a payment found after its reservation expired. Correct when check,
  settlement and reservation agree, a verdict is final, a transaction settles
  one check, and a cancelled check was never paid.
- **Anchors.** Submission that times out after it was sent, crashes, retries
  with back-off. Correct when a confirmed job is on chain and every job ends.
- **Signed controls.** Challenge consumed exactly once, revisions without gaps.
- **Report payments.** A settled payment is delivered, never twice, and not
  forgotten by pruning.
- **Evidence.** Several calls of which some fail while the chain changes. Correct
  when nothing favourable rests on an answer that was not given, or is too old.
- **Caches, limits, capabilities.** Stale answers, eviction, claims that outlive
  what they claim. Correct when a forgotten count costs at most what eviction
  allows and a claim ends with its record.
- **Clients.** Late answers, retries after lost ones, wallets that switch
  accounts. Correct when only what was approved is signed and only once.
- **Storage.** Migrations and maintenance that stop half-way. Correct when every
  committed row is found in the database or in a backup.

`PROJECT.json` lists the hazards at the line where they bite.

## Plan

The plan of the project, in order of importance, and where it stands. Modules are
written to be proved about: parameters are CONSTANTS with a named assumption, one
action per operation, no RECURSIVE operator.

1. Checks and budget: `PaymentChecks`, `BudgetLedger` and their proofs - done.
2. `AnchorPublisher`: safety, liveness and proofs - done.
3. `Receipts` - done.
4. `OperatorAuth` against the abstract `SignedLog`; `OperatorRules` for the
   clients that write such revisions - done.
5. `ReportQuotes`, with liveness - done.
6. `PolicyEvaluation`, `TrustRules`, `AccountEvidence`, `MerkleDataset` - done.
7. `PaymentReadiness`, `RateLimits`, `PublicArtifacts` against `ArtifactStore`,
   `PublicAccess`, `DecisionRecords`, `RegistryReadiness` - done.
8. `CheckedCall`, `AuditFlow`, `Assessment` and `AssessTool`, `CliCommands`,
   `EvidenceRun` - done.
9. `X402Probe`, `SchemaMigrations`, `DatabaseFiles` - done.

Every safety property of the runs is also a theorem, except the two that the code
violates. Left: a composition of `CheckedCall` with `PaymentChecks` in place of the
check service it assumes, and proofs of the properties of single modules that no
run lists (`AccountEvidence`'s `FactsWereTrue`, and the like).

## How the project is laid out

- A component has a module of its own, `X.tla`. Where it owes its users something
  simpler, that is a module as well (`BudgetLedger`, `SignedLog`, `ArtifactStore`,
  and `Assessment` for the tools) and the component implements it under a
  refinement mapping.
- A `*_proofs.tla` module holds the theorems of one part of the system. It EXTENDS
  that part's suite (`PaymentChecks_proofs` the module itself). A suite's constants
  have their values in the cfg alone, so the theorems are about the very components
  that TLC runs, for every value.
- `MCPaymentChecks` instantiates the core for TLC. The other `MC` modules
  (`MCReportApi`, `MCEvidence`, `MCRegistry`, `MCBridge`, `MCClients`, `MCStorage`,
  `MCProgress`) are *suites*: they instantiate several components that belong to one part of the
  system and share no state there. The variable `part` is chosen in the initial
  state, and a behaviour runs that component alone and leaves the others as they
  started. The states of a suite are therefore the sum, not the product, of those
  of its components, and the run is exactly one run of each.
- A property of a suite is the conjunction of what one reader would ask of that
  component. It names properties of the component's module, so that each can be
  listed in a cfg alone.
- A definition that stands for code names the code; a mutated definition beside it
  (`UnderCapOfOpen`, `CachedAfterEnd`, ...) changes it the way a plausible mistake
  would, and the property it belongs to then fails.
- Modules hold some more properties than the runs list: the type invariants, and
  the parts of the conjunctions. They were checked while the modules were written
  and can be added to a cfg.

## What is modelled

### PaymentChecks

A state is the database, the requests in flight, and the clock.

| Variable | Code |
|---|---|
| `charge` | what a create request carries: Idempotency-Key, authorization nonce, amount, `validBefore`; constant |
| `policy`, `provider` | newest row of `policies`; newest matching `provider_decisions` row |
| `status`, `limits` | `checks.status` and the policy snapshot in `checks.json` |
| `reservation`, `day`, `claims` | `reservations.status`, `.utc_day`; rows of `authorization_reservations` |
| `txOf`, `verdict` | the row of `settlements` |
| `phase`, `host`, `reply` | a create request: not begun, awaiting evidence, past it, answered; the process that runs it; its answer |
| `section` | the synchronous section a process is in, with the policy it read |
| `poll` | `verifySettlement` calls awaiting the RPC |
| `late` | history: reservations settled after they expired |

A *worker* is one Node.js process with its own database connection. Node runs a
request without interruption until an `await`, so a worker is either idle or in
one section, and every action that starts or resumes a request needs it idle. A
section is split at its repository transactions, because a crash, the clock or
the other connection can come between them.

| Action | Code |
|---|---|
| `ReplayCheck`, `BeginCheck` | `createCheck` up to the evidence await |
| `EvidenceFails`, `EvaluateCheck` | the await ends: error, or expiry, the reads and `evaluatePayment` |
| `ReserveTooLate`, `SaveRaced`, `ReserveRefused`, `Admit` | the outcomes of `saveCheckAndReserve`: thrown, `check_conflict`, refused and rolled back, committed |
| `SaveUnpaid` | `saveCheck` of a blocked or review check, also after a refusal |
| `BeginCancel`, `ReleaseReservation`, `CancelRefused`, `MarkCancelled` | `cancelCheck`: read, first transaction, second transaction |
| `BeginPoll`, `ApplySettlement`, `RejectSettlement` | `verifySettlement` before the RPC await; `applySettlement` after it |
| `SavePolicy`, `SaveProviderDecision` | a signed revision is stored |
| `Tick`, `Crash` | time; a process exits and is restarted (`Restart=on-failure`) |

Abstractions, each of them named where it is made:

- One operator, payer and asset: every query is confined to them, so others
  share nothing with these rows.
- `finding` stands for the rules of `evaluatePayment` that read no shared state
  (resource, evidence, fields of the authorization, missing cap, expiry of the
  provider decision); any of the three outcomes is possible.
- The reads of one evaluation are one step. They are consecutive synchronous
  queries; only another connection could write between them, and what they
  return is checked again by the admission.
- A retry is another request with an equal charge. The answer of an RPC read is
  chosen when it arrives. A lost answer is a crash, or a client that polls again.
- `settlement_attempts`, response bodies, hashes and timestamps other than the
  expiry and the UTC day carry nothing a property depends on.

### BudgetLedger

What the operator is owed, without checks, requests, nonces or processes: at
most one entry per check; an entry is made only within slots and cap and with a
nonce no on-time committed entry has; consumed, quarantined and released entries
never change; an expired entry may still be committed and is then *late*.
`PaymentChecks` implements it with `entry <- reservation`.

### The components around the core

Every module begins with a comment on what it stands for; the table says how its
state and its actions correspond to the code. "Left out" is what the module
abstracts from without a property that would notice.

| Module | Code | State | Actions | Left out |
|---|---|---|---|---|
| `AnchorPublisher` | `auditor/registry.ts`, anchor-job rows of `sqliteRepository.ts` | `job` and `stored` are rows; `wait` is `next_attempt_at` as time left; `step`, `batch`, `doing` what a publisher awaits and the copies it works from; `carries`, `chain` the registry transactions | `FinalizeReceipt`, `EnqueueAgain`; `StartBatch`, `TakeJob`, `Submitting`, `Confirming`, `Reading`, `EndBatch` (one per `await`); `SendTransaction`, `Settle` (chain); `Tick`, `Crash` | construction from the environment |
| `Receipts` | `service.ts` 345-496, receipt tables | `observation`, `receipt`, `job`, `share`; `call` is what a worker read | `SettleCheck`, `RepeatObservation`, `ConflictingObservation`, `BeginObservation`/`SaveObservation`/`ObservationRefused`, `CreateShare`, `BeginRevoke`/`EndRevoke`, `JobEnds`, `Tick`, `Crash` | headers of the observed response |
| `OperatorAuth` (implements `SignedLog`) | `auth.ts`, signed routes of `routes.ts` | `challenge`, `session`, `rows`, `revoked`; `work` is what a worker is doing | `IssueChallenge`, `Sign`, `Begin*`, `Consume`, `Replayed`, `SaveSession`, `SaveArtifact`, `ArtifactConflict`, `MessageRefused`, `Tick`, `Crash` | scopes of tokens (guards of single requests), `revokeSession` (not routed) |
| `ReportQuotes`, `BoundedMap` | `app.ts` 247-425, 1107-1160, `payment.ts` 500-800 | `quotes`, `settledTransactionQuotes` are the bounded maps, `sold` and `pending` the fields of a snapshot, `call` the await of a request | `RequestQuote`, `OfferQuote`, `Buy`, `Handler` (verify, settle, confirm), `Execute`, `Tick`, `Restart` | `quote_expired` (needs two clock readings of one handler to differ) |
| `PaymentReadiness` | `app.ts` 980-1105, `payment.ts` | `cached` the entry of the cache, `load` the promises, `request` | `Ask`, `Ends`, `Answers`; `Upgrade` (the token), `Tick` | configuration reasons |
| `RateLimits` | `securityLimits.ts` | `buckets`, `limit` | `Consume`, `Tick` | the client address |
| `PublicArtifacts` (implements `ArtifactStore`) | `publicArtifacts.ts`, `app.ts` 427-520 | `rows`, `entries` with AUTOINCREMENT counters; `waiting` requests; `recorded` the chain | `PostCard`, `CardRefused`, `CardSaved`, `Share`, `Record`, `Restart` | drawing; the spelling of a transaction hash |
| `PolicyEvaluation` | `normalize.ts`, `policy.ts`, `receipt.ts`, `botchainRpc.ts` | `in` what the parties supply; `evidence`, `faults`, `decision`, `receipt` | `Normalize`, one action per evidence call, `CallFails`, `Tick`, `Decide`, `BuildReceipt` | holder concentration, contract age (the loader never sets them) |
| `AccountEvidence` | `accountEvidence.ts` | `step`, `attempt`, `facts`; `account` is the chain | `Lookup`, `Change` | the token lookup (one call no rule reads) |
| `TrustRules` | `trust/rules.ts`, `trust/accountRules.ts` | `facts` | `Learn`, `Forget`, `Worsen` | wording |
| `MerkleDataset` | `merkle.ts` | `current` the hash the proof leads to | `Apply` | JSON canonicalisation |
| `X402Probe` | `auditor/probe.ts` | `phase`, the request, `addresses`, `hops`, `limit` | `Begin`, and answers, failures and time-outs of lookup and request | ports, paths, reading of terms |
| `DecisionRecords` | `publicConsole.ts`, `botchainClient.ts` | `capabilities`, `call`, `chain` | `BuyReport`, `RecordDecision`, `Send`, `Answer`, `Execute`, `Tick`, `Restart` | metering (in `PublicAccess`) |
| `RegistryReadiness` | `botchainClient.ts` 85-560 | `config` | `RepairRegistry`, `RepairReceipts`, `Break` | wording |
| `PublicAccess` | `publicAccess.ts`, `app.ts` 290-360 of the bridge | `clients`, `dailyKey`, `dailyCount`, `options` | `Call`, `Tick` | validation at start |
| `Assessment` | `trust/assess.ts` | `phase`, `quote`, `paid`, `unchecked` | `Begin`, `Quoted`, `Settled`, `Verified`, `Score`, `Record`, `Throws` | the narrator |
| `AssessTool` (implements `Assessment`) | `tools.ts`, `apiClient.ts` | `call`, `bridge`, `signer` | `Ask`, `Step`, `RequestFails`, `Restart` | URL overrides |
| `CheckedCall` | `packages/agent-pay-client/src/checkedCall.ts` | `call` per attempt; AgentPay's `checks`, `settled`, `receipts`; `signed`, `chain` | `Start`, `Step`, `RequestFails`, `AnswerLost`, `FalseCheck`, `Execute` | formats |
| `AuditFlow` | `useAuditFlow.ts`, `walletPayment.ts` | the page's fields; `tasks` requests and loops under way | `Visitor` (every button), `Progress` (every answer), `Execute`, `Anchor` | `cancelCheck` (no button calls it), the service quote |
| `OperatorRules` | `walletOperatorActions.ts`, `operatorClient.ts`, `evmWallet.ts` | `log` the server's revisions; `token`, `key`, `account`, `job` of a client | `Connect`, `SwitchAccount`, `PasteToken`, `SignOut`, `Read`, `Challenge`, `Compare`, `Sign`, `Post`, `Fails` | form validation; the server is `OperatorAuth` with one process |
| `CliCommands` | `apps/cli/src` | `cmd` per shell, the auditor's `checks`, `settled`, `controls` | one per stage of a command | output |
| `EvidenceRun` | `useEvidenceRun.ts`, `App.tsx` 299-480 | the page; `tasks` the calls in flight | `Run`, `Answer`, `SetPayload`, `ContinueSettlement`, `Reset`, `TamperReport`, `RestoreReport` | network selector |
| `SchemaMigrations` | `sqliteRepository.ts` 806-1270 | `pc`, `at` of a process; `db` what is committed; `writer`, `work` the open transaction | one per statement, `Busy`, `Crash`, `SavePolicy` | columns |
| `DatabaseFiles` | `deploy/luxvps/*.sh`, `compose.yaml` | `disk` the three files, `service`, `job`, `step`, `stage`, `archives`, `backups` | `Commit`, `Checkpoint`, `Crashes`, `Restarts`, each command of the three scripts, `Fails`, `Killed` | dry runs, ownership; one script at a time |

Some facts about the code that a reader of the modules will meet:

- A quote id contains a dataset id that is random or time-based, so a quote and its
  snapshot are one thing in `ReportQuotes`. A quote is offered as payable only
  where the configured token can be loaded, which `ReportQuotes` assumes
  (`OfferQuote(q, payable)` leaves the choice open).
- In `AssessTool` the paid branch is unreachable, because the signature is not
  awaited (see [Findings](#findings)). `Assessment` is checked alone with every
  answer a purchase may have.
- A Merkle root does not determine the list of records: the last node of an odd
  level is paired with itself. `OnlyRecordsVerify` is about membership.
- A hash is the text it was computed from and a signature a fact about who signed
  what: their strength is assumed everywhere.

## Properties and runs

Twelve runs; ten pass, two state what the documents say and are violated (see
[Findings](#findings)). All of them use CONSTANTS alone: no definition is replaced.

| Run | Property | Says |
|---|---|---|
| `checks` | `ClaimsGuardNonces` | claims belong to counting reservations, cover all that were not settled late, and never share a nonce |
| | `RetriesAgree` | a key names one check; an answer has the request's own content |
| | `SettlementConsistent` | check, settlement and reservation tell one story |
| | `CancelledIsUnused` | a cancelled check has a released reservation and no transaction |
| | `AdmittedUnderCurrentControls` | the pin and the policy used are those in force at the admission |
| `checks_budget` | `OnTimeSpendWithinCap` | a day's committed amount, late settlements aside, is within a cap admitted that day |
| | `LedgerImplemented` | refinement of `BudgetLedger` |
| `two_connections` | `TransactionBindsOneCheck` | no transaction settles two checks |
| | `AdmissionWithinCap` | an admission leaves the day within the cap of the policy stored with its check |
| `report_api` | `EntriesHaveCards` | every entry of the feed has its card, after any eviction |
| | `StorePromises` | the SQLite store implements the store in memory (`ArtifactStore`) |
| | `ReportsArePaid` | a report is released only for an executed transfer; a settlement in progress has a request that works on it |
| | `SoldQuoteChargesNobody` | no transfer leaves a buyer for a quote already sold |
| | `ReadinessIsCurrent` | what is said of a token was seen for this token within the life of the cache; an outage is not reported as absence |
| | `OverBudgetNeedsCrowd` | twice its limit in the span of a window is let through for a client only when as many others as there are buckets came in that span or the window before |
| `evidence` | `SendsOnlyWherePermitted` | each address a request goes to was resolved for that hop and permitted |
| | `AnswersRestOnTheChain` | a PAY and an approved account rest on calls that succeeded, in time, and on what the chain held |
| | `RiskNeverHelps` | no fact that gets worse makes the decision better |
| | `OnlyRecordsVerify` | no sequence of proof steps leads a foreign record to the root, and built proofs verify |
| `registry` | `ConfirmedIsRecorded` | a confirmed anchor is an executed transaction that carries this receipt |
| | `SubmissionsAccounted` | transactions of a receipt that no job remembers come from crashes, lost answers and re-enqueued jobs |
| | `ReceiptsAgree` | receipts are of approved payments; one observation of a check is accepted and repeatable; every receipt has its job; one of two revocations is acknowledged |
| | `RecordsAreBought` | no more records of a report are under way than it was paid for; a claim has a living owner |
| `bridge` | `RecordIsEarned` | what is recorded is the right policy's decision on whole, verified evidence of the quoted and paid dataset |
| | `SpentOnWhatWasAsked` | no payment on a quote for another network |
| | `SpendingIsLimited` | the calls of a day are within the daily limit, a client's within its windows (but for a crowd, as above), and no ground lets an anonymous call pass unmetered |
| | `CallsAreAssessments` | every call of the tools implements `Assessment` |
| `clients` | `OnePaymentPerTrueKey` | as long as AgentPay's answers are true, one authorization is signed per key |
| | `ChargedWasApproved` | what is charged is what the attempt was told to pay |
| | `OnlyApprovedIsSent` | a wallet signature goes only to a service whose charge a check of this page approved; nothing goes on after sign-out |
| | `StoredIsOwn` | a rule is stored only for the operator who signed it, and a tab asks only that operator's wallet |
| | `RerunsAgree` | a script that runs a check again books one payment, and exit codes tell the record |
| `storage` | `SchemaIsAPrefix` | version rows and tables are those of the first n migrations, in any race |
| | `CommittedIsSomewhere` | a committed transaction is on disk or in the copy a restore made, and files are touched only while they are closed |
| | `SignaturesAreSpentOnce` | a signature has one effect, of what was signed, or none for a reason; a token is refused exactly when its revocation is stored |
| | `SignedLogImplemented` | revisions are the append-only log of `SignedLog` |
| `progress` | `BuysAreAnswered` | every buyer is answered unless the process stops |
| | `JobsEnd` | every anchor job ends confirmed or failed |
| | `ReasonsLeadToReady` | repairing what the reason names, one after the other, leads to ready |
| | `RunsEnd` | a run of a hash ends |

### Instances

| Run | Components (distinct states of each) | Distinct states |
|---|---|---|
| `checks` | `PaymentChecks`: one process, 2 requests, 3 charges, 3 policies, 2 polls, 2 transactions, days of 2 units, time 0..2 | 1 042 347 |
| `checks_budget` | `PaymentChecks`: one process, 3 requests against a cap that covers two, days of 1 unit, time 0..2 | 259 627 |
| `two_connections` | `PaymentChecks`: two processes, 2 requests for one cap, 2 polls, one transaction | 87 594 |
| `report_api` | `PublicArtifacts` 30 896, `ReportQuotes` 65 051, `PaymentReadiness` 68 257, `RateLimits` 23 267 | 187 471 |
| `evidence` | `X402Probe` 39 212, `PolicyEvaluation` 360 208, `AccountEvidence` 12 229, `TrustRules` 8 192, `MerkleDataset` 18 604 | 438 445 |
| `registry` | `AnchorPublisher` 57 906, `Receipts` 7 174, `DecisionRecords` 167 301 | 232 381 |
| `bridge` | `Assessment` 45 605, `AssessTool` 82 364, `PublicAccess` 29 210 | 157 179 |
| `clients` | `CheckedCall` 73 027, `AuditFlow` 84 899 and 180 122, `OperatorRules` 221 568, `CliCommands` 15 831 | 575 447 |
| `storage` | `SchemaMigrations` 203 823, `DatabaseFiles` 12 082, `OperatorAuth` 113 123 | 329 028 |
| `progress` | `ReportQuotes` 2 761, `AnchorPublisher` 67 430, `RegistryReadiness` 4 160, `EvidenceRun` 8 019 | 82 370 |

Why the bounds are enough, and what each makes happen:

- `checks`, `checks_budget`, `two_connections`. Of two payments one ends early and
  one late; two share a nonce, two share a key; a payment of 1 and one of 2 are
  kept apart by the cap of 2 alone, the single slot alone, or the nonce alone. Two
  polls can hold answers for one check, with one transaction that reverts. Three
  payments are needed for one to be settled late, one to take its room and one to
  be refused. A day boundary lies inside the range of the clock. `Workers` is one
  where a property rests on a synchronous section, and two where it rests on
  database transactions alone: the deployment starts one process
  (`deploy/agentpay/agentpay-report-api.service`), and the repository provides for
  several connections (WAL, `busy_timeout`, `BEGIN IMMEDIATE`).
  `AdmittedUnderCurrentControls`, `SettlementConsistent`, `CancelledIsUnused` and
  `LedgerImplemented` do not hold for two processes.
- `report_api`. Two limits, so that a restart can lower one; two verdicts and three
  transactions, so that a card names a transaction that recorded the other
  verdict. Two buyers for two quotes of which one may be open, two authorizations
  of which one ends before the other. Two tokens share one entry of the cache, one
  of them cannot be queried. Three clients for two buckets.
- `evidence`. Two public addresses of either family, a private one, and a name that
  resolves to any of six lists at every hop; two redirects. Payments that differ
  in at most two fields from a right one, which is what two reasons that hide each
  other need; two failed calls. An account that changes twice. Facts on both sides
  of each threshold. Three records, the first size with an odd level, and a
  stranger, with proofs one step longer than any built one.
- `registry`. Two receipts and three transactions: one each and one repeated
  submission; one crash, one reopened job. Two workers and two observations of a
  check. Two reports of which one capability is kept, and two requests for it.
- `bridge`. Answers that agree with the quote in all but one field; evidence with a
  leaf missing or spoilt. Two calls and one fault. Two clients of which one is
  tracked, and a day that ends inside a window.
- `clients`. Two attempts under one key or two, one lost answer, one false one. A
  page that reads two charges, and one that has one charge checked twice (two
  instances, since the pairs together do not fit), each with two requests in
  flight. One tab and one command of two operators. Two shells, two files of which
  one names an idempotency key.
- `storage`. Two processes of the current build and one of the build before, two
  faults. Two transactions, one archive, two backups, one failed command; a kill
  of a script has no trap and is left to the constants below. Two workers with
  three challenges for controls of all four kinds: two of them race while a third
  comes after them, and a token is issued and revoked.
- `progress`. One quote and two buyers who join; two receipts that wait for each
  other in batches of one; configurations that fail at most three checks, and one
  setting that breaks again; two runs with Reset.

Symmetry is declared over identifiers that nothing orders or names, and never in
`progress`. `CHECK_DEADLOCK FALSE` stands where a component really stops: a bounded
number of requests, calls or runs was made and answered, or the one assessment has
ended. The core never stops, because polls, policies and decisions go on.

### Fairness

Only `progress` assumes any, and each assumption is of a step the code takes by
itself:

- `ReportQuotes`: weak fairness of every handler of a buy request. Its awaits end,
  because the facilitator and the RPC are called with a timeout and the
  confirmation makes a fixed number of attempts. Buyers, transfers and the clock
  have none.
- `AnchorPublisher`: weak fairness of the clock and of each step of the publisher:
  a timer wakes it, its script is killed after a minute and its RPC calls time
  out. That a transaction executes is not assumed: a job may end failed.
- `RegistryReadiness`: weak fairness of repairs. The operator is assumed to repair
  what the reason names, and only that; what the property says is that the reasons
  lead somewhere.
- `EvidenceRun`: weak fairness of the calls that have a deadline
  (`Timely`). `resolveToken` has none, so `RunsEnd` is about runs of a hash.
- In the suite, these are weak fairness conditions of the component that runs.

## Findings

Two runs state what the documents say and are violated.

- `late_settlement_cap`: a payment made in time but verified after its
  reservation expired is counted again, when its room may be taken. The day's
  committed amount is then above every cap. `OnTimeSpendWithinCap` is what is
  kept.
- `match_not_compared`: `compareSettlement` never looks at the approved
  authorization; any successful transaction is a match. `ReceiptsAgree` shows that
  a receipt is not built from such a match.

The modules contain more places where code and documents disagree. Each was found
by checking the property named here, which stands in its module and is violated
under the constants given; the runs above are restricted to what is kept. They are
not runs of their own. Where such a defect keeps the code from reaching anything
behind it, the suites give the constant the value the documents assume
(`HandedOn = "prefixed"`, `Loader = "any"`, network names the bridge expects,
`SignsMessages = TRUE`, `HashForm = "bare"`), so that the rest is checked too.

| Property | Module | What happens |
|---|---|---|
| `UsedNonceStaysClaimed` | `PaymentChecks` | a late settlement does not restore the nonce claim of its reservation (`sqliteRepository.ts:557`); the service no longer recognises a used nonce, though the token contract does |
| `ReleasedCheckIsCancelled` | `PaymentChecks` | between the two transactions of a cancellation a crash leaves a check `reserved` with a released reservation, for ever (`service.ts:250`) |
| `SeriesRevisionsUnique` | `OperatorAuth`, `HandedOn = "prefixed"`, two workers | a token and a revocation can be stored under one revision (`sqliteRepository.ts:203`) |
| `SignedIsAccepted` | `OperatorAuth`, `HandedOn = "bare"` | the `0x` of a signature is stripped before `verifyMessage`, which then rejects it (`routes.ts:748`) |
| `AcceptableIsPaid`, `ParsedIsAnswered`, `PayIsProvable` | `PolicyEvaluation`, `Loader = "node"` for the first | the evidence loader takes only 64 hexadecimal digits as asset (`botchainRpc.ts:326`); a nonce with `0x` ends in an internal error (`service.ts:742`); a checksummed address or a relayed transaction gives a PAY that can have no receipt (`receipt.ts:333`) |
| `TransactionSellsOnce`, `RejectedIsUnpaid` | `ReportQuotes`, `FacilitatorRepeats = TRUE` for the first | the record of a used transaction ends with its quote (`app.ts:1137`); a transfer whose confirmation is given up is answered as rejected (`payment.ts:740`) |
| `ConfiguredTokenIsRead` | `PaymentReadiness`, a token not in `Loadable` | the fee token must be an EVM address, which the loader refuses (`app.ts:987`) |
| `OneWritePerReport`, `ExecutedIsConfirmed` | `DecisionRecords`, `RegistryHash = "64 hex"` for the second | a retry after a lost answer records a second time (`app.ts:153` of the bridge); a hash of 64 digits is never confirmed (`decisionRecord.ts:147`) |
| `AssessmentsPay`, `QuotesAreHad`, `NamesResolve` | `AssessTool`, `ApiNetworks` and `ApiResolves` as built | the signature is not awaited (`tools.ts:463`); bridge and API name networks differently (`assess.ts:257`); `/resolve` is not served (`app.ts:202`) |
| `StalePollsAreCancelled`, `PaymentIsFollowed` | `AuditFlow` | a late answer starts the polling of a previous receipt (`useAuditFlow.ts:632`), or cancels that of a payment (`:527`) |
| `KeysCanSign`, `HashesAreTaken` | `CliCommands`, `SignsMessages = FALSE`, `HashForm = "prefixed"` | the signer has no `sign` (`operatorClient.ts:331`); every hash is refused (`main.ts:468`) |
| `MatchIsOfTheQuote`, `TamperingFails` | `EvidenceRun` | answers of a reset run land on the next page (`useEvidenceRun.ts:127`); a boolean fact is left alone by the tamper demo (`:266`) |
| `DeployRecreates` | `DatabaseFiles`, `FreshHost = TRUE` | the first deployment ends at the snapshot of a database that is not there (`snapshot-sqlite.sh:70`) |
| `ReplacedIsKept` | `DatabaseFiles`, `BetweenStarts = TRUE` | a service between two starts is not listed and not stopped (`restore-sqlite.sh:120`) |
| `TouchedOnlyWhenQuiet` | `DatabaseFiles`, `PsFails = TRUE` | a failing `docker compose ps` lists nothing, and nothing is stopped (`snapshot-sqlite.sh:79`) |
| `SnapshotIsWhole` | `DatabaseFiles`, `MaxKills = 1` | a log without its `-shm` is left out of a snapshot (`snapshot-sqlite.sh:110`) |

Two hazards hold no property because of how the code is: a page whose
`buy_report` timed out after the payment has no way to send its payload again
(`useEvidenceRun.ts:140`), and a request given up at one address of a probed host
is sent to the next although the first may have received it (`probe.ts:291`).

## Proofs

Eight modules hold the theorems; 54 of them are results (`PROJECT.json`, "theorems"),
the others lemmas. They state all 36 safety properties of the passing runs, the four
refinements among them (`LedgerImplemented`, `StorePromises`, `SignedLogImplemented`,
`CallsAreAssessments`), for every value of the constants, and some more.

What they assume:

- the named ASSUME of the component they are about (finitely many requests,
  well-formed charges, null values distinct from real ones, positive limits). A
  component that a suite instantiates has its assumption asserted by the suite's
  ASSUME, which TLC evaluates in the run; the theorem names it as a hypothesis.
- `OneProcess` or `OnePublisher` where the property is false for several, as the
  module's comments and [Findings](#findings) say.
- `Listable` for `DatabaseFiles`: `docker compose ps` answers, and a script does not
  list what runs while the service is between two starts. Findings shows what
  happens otherwise.

The bounds of the modules (`MaxTime`, `MaxRestarts`, ...) are constants like the
others, so each theorem holds for any bound.

### Checks and budget: `PaymentChecks_proofs`

- `TypeCorrect`: one step per action.
- `ClaimsCorrect`: `ClaimsGuardNonces` is inductive given the types. Expiry drops
  exactly the claims of what it expires; an admission finds no counting claim
  with its nonce; only a late settlement makes a reservation count without one.
- `SectionsCorrect`: the strengthening the next two need. A section that cancels
  is of a stored check, and one that reserves has a policy.
- `RetriesCorrect`: actions fall into four kinds (a stored check changes status,
  a new check answers its own request, an answer without a write, neither), each
  of which keeps `RetriesAgree`.
- `TransactionsCorrect`, `SettlementFinalCorrect`: from the guard of
  `applySettlement` on the rows as they are now.
- `SlotsCorrect`: only `Admit` makes a reservation (`OnlyAdmitReserves`), the open
  ones become at most one more, and there were fewer than the slots.
- `CapCorrect`, `OnTimeSpendCorrect`: sums over sets of checks. Lemmas first: the
  total of the amounts of a finite set exists, grows by what is added, and does not
  shrink when the set grows. A step then moves a check in or out of the committed
  ones, and only `Admit` adds, under a guard on the total of that day. What was
  settled late is left out of the second property, and with it nothing can pass
  the cap of the last admission of the day (`OnTimeCovered`).
- `SettlementConsistentCorrect`, `CancelledIsUnusedCorrect`,
  `AdmittedUnderCurrentControlsCorrect`: from `SingleInv`. Neither property is
  inductive: a cancellation is harmless only because its check is still
  `reserved` (so no settlement exists) until it is marked, and its reservation is
  released before; that is `SectionsCurrent`, which one process keeps because no
  settlement or revision is written while it is in a section. With two processes
  both properties are false (`service.ts:250`).
- `LedgerCorrect`: every step is a ledger step or a stutter. `EvaluateCheck` is
  `Lapse`, `Admit` is `Make` with what lapses in the same transaction,
  `ReleaseReservation` is `Release`, a final `ApplySettlement` is `Settle`. The
  nonce guard of `Make` follows from `ClaimsGuardNonces`, the sum from its being
  the same sum.

### The registry: `Registry_proofs`

*Anchors.* `AnchorTypeCorrect` includes that no job passes its limit of attempts,
which is not inductive without `RetriesBoundedCorrect`: a waiting job, and every copy
of it that a publisher holds, has an attempt left. `ConfirmedIsRecordedCorrect`
strengthens "a confirmed job's transaction executed and carries its receipt" to every
copy in hand and to the answer of the script, since rows are written whole from
copies. `ConfirmedIsFinalCorrect` needs one publisher: its copies are then of rows
nobody else confirms. So does `SubmissionsAccountedCorrect`: copies name the
transaction their row names (`CurrentTx`), so the script is started only for a receipt
of which nothing is known, and the number of transactions sent for a receipt is at
most those lost and the one known (`Accounted`); a step that drops the known one
counts it as lost.

*Receipts.* `ReceiptsAgreeCorrect`: an observation is written from a settlement read
before an await, so the invariant says of every write under way that what it read
still stands (`ReadsHold`): a settlement and a share never change once there, except
that a share is revoked. The rest says that observation and receipt of a check are
stored together (`RowsAgree`), that a refusal names another observation than the
stored one, and that a share's revocations are counted by its `revoked` flag.
`ReceiptsAreFinal` follows.

*Decision records.* `RecordsAreBoughtCorrect`: calls in flight for a report plus its
capability, if that is ready, are at most its purchases (`Purchased`), and a pending
capability has a call in flight (`Owned`). The map that holds the capabilities evicts
and moves entries, which is where the lemmas of `BoundedMap_proofs` come in.

### The report API: `ReportApi_proofs`

*Cards.* `SharedCardsAreRecorded` for any limits, also when a restart changes them:
eviction of a card drops its entries in the same transaction (the foreign key), and
rows are numbered below their counters (`StoreTypes`). `StorePromisesCorrect` is the
refinement of `ArtifactStore`: the n-th card of the list is the row of rank n, ranks
being counts of smaller numbers. Lemmas say that the rows of a table and their ranks
determine each other (`RowsInOrder`), and what each change of a table does to the
list: a row with a higher number is appended, the newest rows are a suffix, rows
chosen by name keep their order. With them each transaction is the step of the store
in memory. `EvictionIsOldestFirstCorrect` comes from the same lemmas.

*Quotes.* `ReportsArePaidCorrect` and `SoldQuoteChargesNobodyCorrect`: a request that
settles a quote is the one the quote is pending on, what is pending has such a request
and is not sold, and a settlement is stored only after its transfer executed. So
nobody is at the settling call of a sold quote.

*Readiness.* `ReadinessIsCurrentCorrect`: a load that has ended holds what a token it
saw gives under some failing queries; the entry of the cache lives as long as that
evidence may (`CacheIsCurrent`); whoever awaits a load asked before its end or within
its life, and keeps having done so when the entry is replaced (`AskedInTime`).

*Rate limits.* `OverBudgetNeedsCrowdCorrect`. An evicted client begins at zero, so the
count in its bucket is no bound by itself. The invariant accounts, for every window
that has not ended and in which no crowd came, for the client's requests by the
count of the bucket it has now: those since the bucket's start are counted, those
before it are fewer than a budget. That a client without a crowd is not evicted
follows from the order of the map, which is that of last requests.

### What answers rest on: `Evidence_proofs`

- `OnlyWherePermitted`, `ResultIsOfTheRequest` (`X402Probe`): the addresses left to try
  in a hop were permitted as a list, and the URL is checked before each lookup; the
  request is followed through every redirect.
- `AnswersRestOnTheChainCorrect`: for `PolicyEvaluation`, evidence that lacks nothing
  comes from calls that all succeeded, one after the other (`Gathered`), and a PAY is
  decided only with no reason left. For `AccountEvidence`, each fact found was read
  from a state the account had during the lookup, perhaps not the same one
  (`FactsWereSeen`); no decision can clear an account on less.
- `RiskNeverHelpsCorrect` (`TrustRules`): a step makes one signal worse; each list of
  reasons can then only grow, signal by signal, and the decision is determined by
  which of the lists are empty.
- `OnlyRecordsVerifyCorrect` (`MerkleDataset`): for datasets and proofs of any size. A
  foreign record stays outside the tree because the tree contains the children of
  every node it contains and no pair is a record; and the steps of a built proof lead
  from level to level. Levels are recursive functions, and that they exist, with the
  values they should have, is proved first, by induction over sets of numbers.

### The bridge: `Bridge_proofs`

- `RecordsAreEarned`, `SpendingIsAsked` (`Assessment`): the invariant carries through
  every phase what was established before it: the quote is acceptable for the
  request, the purchase agrees with the quote, the leaves no longer in `unchecked` are
  vouched for. There is no assumption on the five dependencies.
- `CallsAreAssessmentsCorrect`: for every call of a tool each action of `AssessTool` is
  a step of `Assessment` or a stutter, which needs only what stage a call is in and
  that its kind of subject is known exactly from the quote on (`CallsAreStaged`). The
  two theorems above so hold of the tools.
- `SpendingIsLimitedCorrect` (`PublicAccess`): the accounting of `RateLimits` once more,
  for a map with another eviction rule; and the count of the day is the number of calls
  that passed that day.

### Clients: `Clients_proofs`

- `ChargesWereApproved`, `ResponsesAreSettled`, `RetriesPayOnce` (`CheckedCall`): an
  executed authorization was signed, and one is signed only in the stage after an
  answer that binds the very terms, nonce and verdict; the invariant says what each
  stage knows. Nonces are never drawn twice because a nonce belongs to its attempt.
  As long as no answer was false, whoever signs and whoever has signed did so for the
  check on record under its key (`KeyInv`), and a check on record is never replaced.
- `OnlyApprovedIsSentCorrect` (`AuditFlow`): the wallet is asked only for the charge of
  a check that says pay (`AskedAsApproved`), whatever the page shows by the time it
  answers; the decisions of AgentPay are of the charge they were asked for, and no
  two of them say pay to one nonce (`PaysOnce`).
- `StoredIsOwnCorrect`, `RevisionsFollowCorrect`, `SavesKeepTheRestCorrect`
  (`OperatorRules`): a save that will be numbered next amends the policy as it now is
  (`DraftAmends`), although it was composed before the wallet was asked: a rule stored
  meanwhile takes the number and the save is refused.
- `RerunsAgreeCorrect`, `CallCodesTellThePaymentCorrect` (`CliCommands`): what an exit
  code claims is true of the rows, which never change (`IsTrueExit`).

### What is kept: `Storage_proofs`

- `SchemaSafety` (`SchemaMigrations`): the committed log is a prefix, and a transaction
  in progress is a prefix with at most its own migration half made; the version a
  process read is at most the one on disk. `NewerIsRefused` and `NoRowIsLost` follow.
- `SignaturesAreSpentOnceCorrect`, `RevisionsAreSequential` (`OperatorAuth`): a consumed
  challenge has exactly one fate - an effect, a worker that is about to save it, or a
  reason for its loss (`OneFate`) - and one such worker (`OneSaver`); what is being
  saved was signed and comes at most one after the latest of its series, which is
  what the unique key of the table then turns into "no gaps".
- `ImplementsSignedLog`: a stored artifact is the append of `SignedLog`, all else
  stutters.
- `CommittedIsSomewhereCorrect`, `ReplacedIsKeptCorrect` (`DatabaseFiles`): while a script
  is at a command that touches files, the service is stopped; while it replaces them,
  every acknowledged transaction is in a backup.

### Lemmas on bounded maps: `BoundedMap_proofs`

A map that forgets is a sequence of entries, and what stays after a deletion is given
by ranks (`Without`): the n-th remaining entry is the one that n remaining indices are
not above. Ranks are proved to number a finite set of naturals without gap
(`NthRank`, `NthGrows`), from which follow the keys, the order and the size of what a
deletion or an insertion leaves.

### How the modules are written for it

Recursion is in recursive functions over naturals, or avoided: ranks instead of a filter
on sequences (`SelectSeq` is recursive), levels of a Merkle tree as functions. A
decision with an order of precedence is an IF chain.

### Only model-checked

- Liveness (`progress`): fairness is defined by ENABLED, which the prover does not
  reach.
- The two violated properties, which are false.
- The other properties of single modules that the runs do not list.

## What is not modelled

The components marked so in `PROJECT.json`:

- Signatures, canonical JSON, hashing. Pure functions whose strength is
  cryptographic; what the code does with their results is modelled everywhere.
- Formats of addresses, hashes and numbers, the transport of RPC and HTTP calls.
  That a call may fail, time out, or lose its answer is modelled where it is made.
- The decoding of call data in `settlement.ts`: its result is not used by the
  comparison.
- Drawing of cards, pages that display what one request returned, the wiring of
  the MCP protocol library, submission and end-to-end scripts that run once, by
  hand and alone.

What is partly modelled, and the part that is left out, stands in the notes of
`PROJECT.json`. Bounds on the environment are explicit: the number of crashes,
faults, restarts and false answers, and the range of the clock, are constants of
each module. What the sender, a buyer, a paid service or the chain may do is never
restricted otherwise: any transaction may exist at any time, and any answer come
late or not at all.
