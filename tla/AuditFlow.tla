----------------------------- MODULE AuditFlow ------------------------------
(***************************************************************************)
(* The payment checker of the browser (apps/web/src/audit/useAuditFlow.ts, *)
(* walletPayment.ts): read a charge, have it checked, pay it with the      *)
(* wallet, poll the settlement, record the response, poll the receipt's    *)
(* anchor.  Every request is a task whose answer may come after the page   *)
(* has moved on; pollRunRef is modelled by the field "live" of the tasks   *)
(* that look at it, which clearPollTimer takes from all of them.           *)
(***************************************************************************)
EXTENDS Naturals, FiniteSets

CONSTANTS
  Keys,           \* idempotency keys the page may draw; a check is known by its key
  Nonces,         \* nonces of the authorizations it may prepare
  Charges,        \* terms a service may ask for
  MaxProbes,      \* bound: charges read
  MaxTasks,       \* bound: requests in flight
  MaxPolls,       \* SETTLEMENT_POLL_ATTEMPTS and POLL_MAX_ATTEMPTS
  None

Verdicts == {"pay", "review"}
Authorizations == [nonce : Nonces, charge : Charges]
Decisions == [auth : Authorizations \cup {None}, charge : Charges, verdict : Verdicts]

BoundsAssumption == MaxPolls \in Nat \ {0} /\ None \notin Decisions \cup Verdicts

VARIABLES
  token,        \* tokenRef: whether a bearer token is present
  text,         \* the authorization in the editor, or None
  probe,        \* the charge on the page
  check,        \* the decision on the page
  key,          \* idempotencyKeyRef
  settlement, observation, receipt, payment,     \* the later steps
  previous,     \* previousChecks
  tasks,        \* requests and loops under way
  probes, minted,
  db,           \* AgentPay: [Keys -> None or the check under the key]
  chain,        \* nonces the token contract executed
  matched, receipts, anchored,    \* AgentPay: checks settled, observed, anchored
  sent          \* what was sent to a service: the check, and the terms accepted

page == <<token, text, probe, check, key, settlement, observation, receipt, payment, previous>>
server == <<db, chain, matched, receipts, anchored>>
vars == <<page, tasks, probes, minted, server, sent>>

Idle == [status |-> "idle", of |-> None]
Running == [status |-> "running", of |-> None]
Failed == [status |-> "error", of |-> None]
Shows(x) == [status |-> "success", of |-> x]
Unsettled == [status |-> "idle", of |-> None, verdict |-> None]
NoReceipt == [status |-> "idle", of |-> None, poll |-> "idle"]

Init ==
  /\ token = TRUE /\ text = None
  /\ probe = Idle /\ check = Idle /\ key = None
  /\ settlement = Unsettled /\ observation = Idle /\ receipt = NoReceipt
  /\ payment = "idle" /\ previous = {} /\ tasks = {} /\ probes = 0 /\ minted = {}
  /\ db = [k \in Keys |-> None] /\ chain = {} /\ matched = {} /\ receipts = {}
  /\ anchored = {} /\ sent = {}

Task(op, of) == [op |-> op, of |-> of, auth |-> None, charge |-> None, hash |-> None,
                 n |-> 0, live |-> TRUE]
Begins(t) == Cardinality(tasks) < MaxTasks /\ t \notin tasks /\ tasks' = tasks \cup {t}
Ends(t) == tasks' = tasks \ {t}
Becomes(t, u) == tasks' = (tasks \ {t}) \cup {u}

(* clearPollTimer: the loops and payment runs under way are stale. *)
Stale == {[t EXCEPT !.live = FALSE] : t \in tasks}
BeginsAlone(t) == Cardinality(tasks) < MaxTasks /\ tasks' = Stale \cup {t}

Decision == IF check.of = None THEN None ELSE db[check.of].verdict
-----------------------------------------------------------------------------
(* A new token takes the place of the old one. *)
SetToken ==
  /\ ~token /\ token' = TRUE
  /\ UNCHANGED <<text, probe, check, key, settlement, observation, receipt, payment,
                 previous, tasks, probes, minted, server, sent>>

(* signOut, with reset: what is in flight is not taken back. *)
SignOut ==
  /\ token /\ token' = FALSE
  /\ text' = None /\ probe' = Idle /\ check' = Idle /\ key' = None
  /\ settlement' = Unsettled /\ observation' = Idle /\ receipt' = NoReceipt
  /\ payment' = "idle" /\ previous' = {} /\ tasks' = Stale
  /\ UNCHANGED <<probes, minted, server, sent>>

(* An authorization is typed or pasted, perhaps for other terms. *)
EditAuthorization(a) ==
  /\ text # a
  /\ text' = a /\ payment' = "idle"
  /\ UNCHANGED <<token, probe, check, key, settlement, observation, receipt, previous, tasks,
                 probes, minted, server, sent>>

(* preparePaymentDetails: a new nonce for the terms on the page. *)
Drawn == {a.nonce : a \in {t.auth : t \in tasks} \ {None}} \cup
         {db[k].auth.nonce : k \in {j \in Keys : db[j] # None /\ db[j].auth # None}}
PreparePaymentDetails(nonce) ==
  /\ probe.of # None
  /\ nonce \notin Drawn
  /\ text' = [nonce |-> nonce, charge |-> probe.of]
  /\ UNCHANGED <<token, probe, check, key, settlement, observation, receipt, payment, previous,
                 tasks, probes, minted, server, sent>>

RunProbe ==
  /\ token /\ probe.status # "running" /\ probes < MaxProbes
  /\ probes' = probes + 1
  /\ BeginsAlone(Task("probe", None))
  /\ probe' = Running /\ check' = Idle /\ key' = None /\ text' = None
  /\ settlement' = Unsettled /\ observation' = Idle /\ receipt' = NoReceipt
  /\ payment' = "idle" /\ previous' = {}
  /\ UNCHANGED <<token, minted, server, sent>>

(* The probe finds a charge the checker supports, or another answer. *)
ProbeAnswered(t, charge) ==
  /\ t.op = "probe" /\ Ends(t)
  /\ probe' = IF charge = None THEN [status |-> "success", of |-> None] ELSE Shows(charge)
  /\ UNCHANGED <<token, text, check, key, settlement, observation, receipt, payment, previous,
                 probes, minted, server, sent>>
ProbeFailed(t) ==
  /\ t.op = "probe" /\ Ends(t)
  /\ probe' = Failed
  /\ UNCHANGED <<token, text, check, key, settlement, observation, receipt, payment, previous,
                 probes, minted, server, sent>>
-----------------------------------------------------------------------------
Submits(k, stale) ==
  LET t == [Task("check", k) EXCEPT !.auth = text, !.charge = probe.of] IN
  IF stale THEN BeginsAlone(t) ELSE Begins(t)

(* runCheck: the key of a check that got no answer is used again.          *)
RunCheck(k) ==
  /\ token /\ probe.of # None /\ check.status # "running" /\ Decision = None
  /\ IF key = None THEN k \notin minted ELSE k = key
  /\ key' = k /\ minted' = minted \cup {k}
  /\ Submits(k, FALSE)
  /\ check' = Running
  /\ UNCHANGED <<token, text, probe, settlement, observation, receipt, payment, previous,
                 probes, server, sent>>

(* recheck: a new key; the check on the page is kept among the previous.   *)
Recheck(k) ==
  /\ token /\ probe.of # None /\ check.status # "running" /\ Decision # None
  /\ k \notin minted
  /\ key' = k /\ minted' = minted \cup {k}
  /\ previous' = previous \cup {check.of}
  /\ Submits(k, TRUE)
  /\ check' = Running
  /\ settlement' = Unsettled /\ observation' = Idle /\ receipt' = NoReceipt /\ payment' = "idle"
  /\ UNCHANGED <<token, text, probe, probes, server, sent>>

(* AgentPay approves an authorization for the very charge, once per nonce. *)
MayPay(auth, charge) ==
  /\ auth # None
  /\ auth.charge = charge
  /\ \A j \in Keys : db[j] # None /\ db[j].verdict = "pay" => db[j].auth.nonce # auth.nonce

Conflict(t) == db[t.of] # None /\ (db[t.of].auth # t.auth \/ db[t.of].charge # t.charge)

(* The check is made, or found under its key; the answer may be lost.      *)
Checked(t, verdict) ==
  /\ ~Conflict(t)
  /\ db[t.of] = None /\ verdict = "pay" => MayPay(t.auth, t.charge)
  /\ db[t.of] # None => verdict = db[t.of].verdict
  /\ db' = [db EXCEPT ![t.of] = [auth |-> t.auth, charge |-> t.charge, verdict |-> verdict]]
CheckAnswered(t, verdict) ==
  /\ t.op = "check" /\ Ends(t)
  /\ Checked(t, verdict)
  /\ check' = Shows(t.of)
  /\ UNCHANGED <<token, text, probe, key, settlement, observation, receipt, payment, previous,
                 probes, minted, chain, matched, receipts, anchored, sent>>
CheckFailsSilently(t) ==
  /\ t.op = "check" /\ Ends(t)
  /\ UNCHANGED <<page, probes, minted, server, sent>>
CheckFailed(t) ==
  /\ t.op = "check" /\ Ends(t)
  /\ check' = Failed
  /\ \/ UNCHANGED db
     \/ db[t.of] = None /\ \E verdict \in Verdicts : Checked(t, verdict)
  /\ UNCHANGED <<token, text, probe, key, settlement, observation, receipt, payment, previous,
                 probes, minted, chain, matched, receipts, anchored, sent>>
-----------------------------------------------------------------------------
AnyChallenge(c) == probe.of # None
(* approvedAuthorization and checkedChallenge: the check says pay, and the *)
(* charge on the page is still the one it is about.                        *)
CheckedChallenge(c) == probe.of # None /\ db[c].verdict = "pay" /\ db[c].charge = probe.of

(* payWithWallet, until the wallet is asked; the button is shown with a    *)
(* pay decision and disabled while something of a payment is under way.    *)
PayWithWallet ==
  /\ token /\ Decision = "pay"
  /\ payment \notin {"running", "success"} /\ settlement.status # "running"
  /\ settlement' = Unsettled /\ observation' = Idle /\ receipt' = NoReceipt
  /\ IF CheckedChallenge(check.of)
       THEN /\ BeginsAlone([Task("sign", check.of) EXCEPT !.charge = probe.of])
            /\ payment' = "running"
       ELSE /\ tasks' = Stale
            /\ payment' = "error"
  /\ UNCHANGED <<token, text, probe, check, key, previous, probes, minted, server, sent>>

(* The wallet signs, and the request with the payment goes out. *)
WalletSigns(t) ==
  /\ t.op = "sign"
  /\ Becomes(t, [t EXCEPT !.op = "pay"])
  /\ sent' = sent \cup {[check |-> t.of, accepted |-> t.charge]}
  /\ UNCHANGED <<page, probes, minted, server>>

(* The wallet refuses, or the authorization is out of date, or the service *)
(* cannot be reached, answers too much or names no transaction.            *)
PaymentFails(t) ==
  /\ t.op \in {"sign", "pay"} /\ Ends(t)
  /\ payment' = IF t.live THEN "error" ELSE payment
  /\ UNCHANGED <<token, text, probe, check, key, settlement, observation, receipt, previous,
                 probes, minted, server, sent>>

(* A service that holds a signed authorization may have it executed. *)
Execute(s) ==
  /\ s \in sent /\ db[s.check].auth.nonce \notin chain
  /\ chain' = chain \cup {db[s.check].auth.nonce}
  /\ UNCHANGED <<page, tasks, probes, minted, db, matched, receipts, anchored, sent>>

PaidByAnyRun(t, hash) ==
  /\ t.op = "pay"
  /\ Becomes(t, [t EXCEPT !.op = "settle", !.hash = hash, !.n = 1])
  /\ payment' = "success" /\ settlement' = [Unsettled EXCEPT !.status = "running"]
  /\ UNCHANGED <<token, text, probe, check, key, observation, receipt, previous,
                 probes, minted, server, sent>>

(* The paid answer names a transaction; a superseded run ends there.       *)
Paid(t, hash) ==
  /\ t.op = "pay"
  /\ IF t.live
       THEN /\ Becomes(t, [t EXCEPT !.op = "settle", !.hash = hash, !.n = 1])
            /\ payment' = "success" /\ settlement' = [Unsettled EXCEPT !.status = "running"]
       ELSE Ends(t) /\ UNCHANGED <<payment, settlement>>
  /\ UNCHANGED <<token, text, probe, check, key, observation, receipt, previous,
                 probes, minted, server, sent>>
-----------------------------------------------------------------------------
Verdict(k, hash) ==
  IF hash \notin chain THEN "pending"
  ELSE IF db[k].auth # None /\ hash = db[k].auth.nonce THEN "match" ELSE "mismatch"
Verifies(k, hash) ==
  matched' = IF Verdict(k, hash) = "match" THEN matched \cup {k} ELSE matched

(* One poll of the settlement of a payment run.  A match leads to the      *)
(* recording of the response, for the check the run began with.            *)
SettlementPolled(t) ==
  /\ t.op = "settle"
  /\ Verifies(t.of, t.hash)
  /\ LET verdict == Verdict(t.of, t.hash)
         last == verdict # "pending" \/ t.n = MaxPolls IN
     IF ~t.live THEN Ends(t) /\ UNCHANGED <<settlement, observation>>
     ELSE IF ~last THEN Becomes(t, [t EXCEPT !.n = @ + 1]) /\ UNCHANGED <<settlement, observation>>
     ELSE /\ settlement' = [status |-> "success", of |-> t.of, verdict |-> verdict]
          /\ IF verdict = "match" /\ token
               THEN Becomes(t, Task("observe", t.of)) /\ observation' = Running
               ELSE Ends(t) /\ observation' = IF verdict = "match" THEN Failed ELSE observation
  /\ UNCHANGED <<token, text, probe, check, key, receipt, payment, previous,
                 probes, minted, db, chain, receipts, anchored, sent>>
SettlementPollFails(t) ==
  /\ t.op = "settle" /\ Ends(t)
  /\ settlement' = IF t.live THEN [Unsettled EXCEPT !.status = "error"] ELSE settlement
  /\ UNCHANGED <<token, text, probe, check, key, observation, receipt, payment, previous,
                 probes, minted, server, sent>>

(* A transaction is entered by hand, or a verdict asked for again. *)
VerifySettlement(hash) ==
  /\ token /\ settlement.status # "running"
  /\ Decision = "pay" \/ settlement.of # None
  /\ check.of # None
  /\ Begins([Task("verify", check.of) EXCEPT !.hash = hash])
  /\ settlement' = [Unsettled EXCEPT !.status = "running"]
  /\ UNCHANGED <<token, text, probe, check, key, observation, receipt, payment, previous,
                 probes, minted, server, sent>>
SettlementVerified(t) ==
  /\ t.op = "verify" /\ Ends(t)
  /\ Verifies(t.of, t.hash)
  /\ settlement' = [status |-> "success", of |-> t.of, verdict |-> Verdict(t.of, t.hash)]
  /\ UNCHANGED <<token, text, probe, check, key, observation, receipt, payment, previous,
                 probes, minted, db, chain, receipts, anchored, sent>>
VerificationFails(t) ==
  /\ t.op = "verify" /\ Ends(t)
  /\ settlement' = [Unsettled EXCEPT !.status = "error"]
  /\ UNCHANGED <<token, text, probe, check, key, observation, receipt, payment, previous,
                 probes, minted, server, sent>>
-----------------------------------------------------------------------------
(* A response of another client is recorded by hand. *)
RecordObservation ==
  /\ token /\ check.of # None
  /\ settlement.verdict = "match" \/ observation.status # "idle"
  /\ observation.status \notin {"running", "success"}
  /\ Begins(Task("observe", check.of))
  /\ observation' = Running
  /\ UNCHANGED <<token, text, probe, check, key, settlement, receipt, payment, previous,
                 probes, minted, server, sent>>

(* startReceiptPolling, from which every loop but the new one is stale. *)
StartsPolling(t, k) ==
  /\ receipt' = [status |-> "success", of |-> k,
                 poll |-> IF k \in anchored THEN "terminal" ELSE "polling"]
  /\ LET others == {[u EXCEPT !.live = FALSE] : u \in tasks \ {t}} IN
     tasks' = IF k \in anchored \/ ~token THEN others
              ELSE others \cup {[Task("poll", k) EXCEPT !.n = 1]}

(* AgentPay records a response only of a matched settlement. *)
ObservationRecorded(t) ==
  /\ t.op = "observe" /\ t.of \in matched
  /\ receipts' = receipts \cup {t.of}
  /\ observation' = Shows(t.of)
  /\ StartsPolling(t, t.of)
  /\ UNCHANGED <<token, text, probe, check, key, settlement, payment, previous,
                 probes, minted, db, chain, matched, anchored, sent>>
ObservationFails(t) ==
  /\ t.op = "observe" /\ Ends(t)
  /\ observation' = Failed
  /\ UNCHANGED <<token, text, probe, check, key, settlement, receipt, payment, previous,
                 probes, minted, server, sent>>

Anchor(k) ==
  /\ k \in receipts \ anchored
  /\ anchored' = anchored \cup {k}
  /\ UNCHANGED <<page, tasks, probes, minted, db, chain, matched, receipts, sent>>

PolledOneMore(t) ==
  /\ t.op = "poll" /\ t.live
  /\ receipt' = [status |-> "success", of |-> t.of,
                 poll |-> IF t.of \in anchored THEN "terminal" ELSE "polling"]
  /\ IF t.of \notin anchored /\ t.n <= MaxPolls /\ token
       THEN Becomes(t, [t EXCEPT !.n = @ + 1])
       ELSE Ends(t)
  /\ UNCHANGED <<token, text, probe, check, key, settlement, observation, payment, previous,
                 probes, minted, server, sent>>

(* pollReceipt: a tick of the loop and its answer. *)
ReceiptPolled(t) ==
  /\ t.op = "poll"
  /\ IF ~t.live THEN Ends(t) /\ UNCHANGED receipt
     ELSE /\ receipt' = [status |-> "success", of |-> t.of,
                         poll |-> IF t.of \in anchored THEN "terminal" ELSE "polling"]
          /\ IF t.of \notin anchored /\ t.n < MaxPolls /\ token
               THEN Becomes(t, [t EXCEPT !.n = @ + 1])
               ELSE Ends(t)
  /\ UNCHANGED <<token, text, probe, check, key, settlement, observation, payment, previous,
                 probes, minted, server, sent>>
ReceiptPollFails(t) ==
  /\ t.op = "poll" /\ Ends(t)
  /\ receipt' = IF t.live THEN [receipt EXCEPT !.poll = "error"] ELSE receipt
  /\ UNCHANGED <<token, text, probe, check, key, settlement, observation, payment, previous,
                 probes, minted, server, sent>>

RefreshReceipt ==
  /\ token /\ receipt.of # None
  /\ Begins(Task("refresh", receipt.of))
  /\ UNCHANGED <<page, probes, minted, server, sent>>
ReceiptRefreshed(t) ==
  /\ t.op = "refresh" /\ StartsPolling(t, t.of)
  /\ UNCHANGED <<token, text, probe, check, key, settlement, observation, payment, previous,
                 probes, minted, server, sent>>
RefreshFails(t) ==
  /\ t.op = "refresh" /\ Ends(t)
  /\ receipt' = [receipt EXCEPT !.poll = "error"]
  /\ UNCHANGED <<token, text, probe, check, key, settlement, observation, payment, previous,
                 probes, minted, server, sent>>
-----------------------------------------------------------------------------
(* Every request is answered or ended by its timer: some step of it occurs. *)
Progress(t) ==
  \/ \E charge \in Charges \cup {None} : ProbeAnswered(t, charge)
  \/ ProbeFailed(t)
  \/ \E verdict \in Verdicts : CheckAnswered(t, verdict)
  \/ CheckFailed(t)
  \/ WalletSigns(t) \/ PaymentFails(t) \/ \E hash \in Nonces : Paid(t, hash)
  \/ SettlementPolled(t) \/ SettlementPollFails(t)
  \/ SettlementVerified(t) \/ VerificationFails(t)
  \/ ObservationRecorded(t) \/ ObservationFails(t)
  \/ ReceiptPolled(t) \/ ReceiptPollFails(t)
  \/ ReceiptRefreshed(t) \/ RefreshFails(t)

Visitor ==
  \/ SetToken \/ SignOut
  \/ \E a \in Authorizations \cup {None} : EditAuthorization(a)
  \/ \E nonce \in Nonces : PreparePaymentDetails(nonce)
  \/ RunProbe
  \/ \E k \in Keys : RunCheck(k) \/ Recheck(k)
  \/ PayWithWallet
  \/ \E hash \in Nonces : VerifySettlement(hash)
  \/ RecordObservation \/ RefreshReceipt

Next ==
  \/ Visitor
  \/ \E t \in tasks : Progress(t)
  \/ \E s \in sent : Execute(s)
  \/ \E k \in Keys : Anchor(k)

ProgressOf(op) == \E t \in tasks : t.op = op /\ Progress(t)
Ops == {"probe", "check", "sign", "pay", "settle", "verify", "observe", "poll", "refresh"}

Spec == Init /\ [][Next]_vars
FairSpec == Spec /\ \A op \in Ops : WF_vars(ProgressOf(op))
-----------------------------------------------------------------------------
Status == {"idle", "running", "success", "error"}
ReceiptStates == [status : Status, of : Keys \cup {None},
                  poll : {"idle", "polling", "terminal", "error"}]
Tasks == [op : Ops, of : Keys \cup {None}, auth : Authorizations \cup {None},
          charge : Charges \cup {None}, hash : Nonces \cup {None}, n : 0..MaxPolls, live : BOOLEAN]

TypeOK ==
  /\ token \in BOOLEAN /\ text \in Authorizations \cup {None}
  /\ probe \in [status : Status, of : Charges \cup {None}]
  /\ check \in [status : Status, of : Keys \cup {None}]
  /\ key \in Keys \cup {None} /\ previous \subseteq Keys /\ minted \subseteq Keys
  /\ settlement \in [status : Status, of : Keys \cup {None},
                     verdict : {None, "pending", "match", "mismatch"}]
  /\ observation \in [status : Status, of : Keys \cup {None}]
  /\ receipt \in ReceiptStates
  /\ payment \in Status
  /\ tasks \subseteq Tasks /\ Cardinality(tasks) <= MaxTasks
  /\ db \in [Keys -> Decisions \cup {None}]
  /\ chain \subseteq Nonces /\ matched \cup receipts \cup anchored \subseteq Keys
  /\ sent \subseteq [check : Keys, accepted : Charges]

(* Whatever answers arrive late, the wallet's signature goes only to a     *)
(* service whose charge is the one a check of this page approved, and no   *)
(* nonce is signed for two checks (approvedAuthorization, checkedChallenge *)
(* and the idempotency keys of runCheck and recheck).                      *)
ApprovedTermsAreSent ==
  /\ \A s \in sent : /\ db[s.check].verdict = "pay"
                     /\ db[s.check].charge = s.accepted
                     /\ db[s.check].auth.charge = s.accepted
  /\ \A r, s \in sent : db[r.check].auth.nonce = db[s.check].auth.nonce => r = s

(* Once the visitor has signed out, no payment is reported and no receipt  *)
(* is polled, although a payment may still be under way (pollRunRef).      *)
SignedOutIsQuiet ==
  ~token => payment = "idle" /\ ~\E t \in tasks : t.op \in {"sign", "pay", "settle", "poll"} /\ t.live

(* What is under way does nothing that the page did not approve or that    *)
(* its visitor has ended.                                                  *)
OnlyApprovedIsSent == ApprovedTermsAreSent /\ SignedOutIsQuiet

(* A check that is running is answered: the page never waits for ever. *)
ChecksEnd == check.status = "running" ~> check.status # "running"
-----------------------------------------------------------------------------
(* pollRunRef "cancels stale poll loops on reset/recheck": a receipt loop  *)
(* that goes on is not of a check the visitor has left behind.             *)
StalePollsAreCancelled ==
  \A t \in tasks : t.op = "poll" /\ t.live => t.of \notin previous

(* A payment under way is followed to its settlement: the browser is still *)
(* waiting for it as long as the page says so.                             *)
PaymentIsFollowed ==
  payment = "running" => \E t \in tasks : t.op \in {"sign", "pay"} /\ t.live
=============================================================================
