---------------------------- MODULE EvidenceRun ----------------------------
(***************************************************************************)
(* The evidence console of the browser (apps/web/src/console/useEvidenceRun *)
(* .ts, App.tsx): quote, settle over x402, verify, record.  A run is a      *)
(* chain of awaited tool calls, each of which writes its part of the page   *)
(* when its answer lands; no call knows which run it belongs to, and Reset  *)
(* takes none of them back.  A report, its proof and its payload are named  *)
(* by the quote they were sold for.  Left out: the texts of errors, and the *)
(* network selector, which a run reads once when it starts.                 *)
(***************************************************************************)
EXTENDS Naturals, FiniteSets

CONSTANTS
  Quotes,      \* quotes the service may hand out, each once
  Sound,       \* quotes whose report fits its root
  Facts,       \* of a report: what "tamper one fact" finds in it to change
  Resets,      \* whether the user presses Reset
  Symbols,     \* whether the user types a symbol, which is looked up first
  MaxRuns, MaxTasks,     \* bounds
  None

EvidenceRunAssumption ==
  /\ Sound \subseteq Quotes /\ None \notin Quotes
  /\ Facts \in [Quotes -> {"number", "boolean", "empty"}]
  /\ {Resets, Symbols} \subseteq BOOLEAN
  /\ {MaxRuns, MaxTasks} \subseteq Nat

VARIABLES
  state,
  quote, paid, receipt,      \* on the page: of which quote, or None
  verification, tamper,      \* on the page: of which quote, and what was answered
  registry,                  \* whether the registry's status was read
  payload,                   \* in the box: the quote it was signed for, or None
  tasks,                     \* the tool call each chain of calls awaits, or None
  quoted, sold,              \* the service: quotes handed out, reports paid for
  recorded,                  \* the chain: how often a report's decision was recorded
  runs

flow == <<quote, paid, receipt, verification, tamper, registry, payload>>
service == <<quoted, sold, recorded>>
vars == <<state, flow, tasks, service, runs>>

Shown(q) == [of |-> q, verified |-> FALSE]
Nothing == Shown(None)

Chains == 1..MaxTasks
Tools == {"resolve", "quote_report", "registry_status", "buy_report", "verify_report",
          "record_decision", "tamper"}
Calls == [tool : Tools, quote : Quotes \cup {None}, payload : Quotes \cup {None}]
Task(tool, q, p) == [tool |-> tool, quote |-> q, payload |-> p]

TypeOK ==
  /\ state \in {"idle", "running", "payment_required", "complete", "error"}
  /\ {quote, paid, receipt, payload} \subseteq Quotes \cup {None}
  /\ \A x \in {verification, tamper} :
       x \in [of : Quotes \cup {None}, verified : BOOLEAN]
  /\ registry \in BOOLEAN
  /\ tasks \in [Chains -> Calls \cup {None}]
  /\ quoted \subseteq Quotes /\ sold \subseteq quoted
  /\ recorded \in [Quotes -> Nat]
  /\ state = "complete" => receipt # None

(* The paid report of the run before is still there. *)
BlankButPaid ==
  /\ quote' = None /\ paid' = paid /\ receipt' = None
  /\ verification' = Nothing /\ tamper' = Nothing /\ registry' = FALSE /\ payload' = None

(* timeline: the stops of the rail that are done. *)
Done == [quote |-> quote # None, payment |-> paid # None,
         proof |-> verification.verified, record |-> receipt # None]

Blank ==
  /\ quote' = None /\ paid' = None /\ receipt' = None
  /\ verification' = Nothing /\ tamper' = Nothing /\ registry' = FALSE /\ payload' = None

Init ==
  /\ state = "idle"
  /\ quote = None /\ paid = None /\ receipt = None
  /\ verification = Nothing /\ tamper = Nothing /\ registry = FALSE /\ payload = None
  /\ tasks = [c \in Chains |-> None] /\ quoted = {} /\ sold = {} /\ recorded = [q \in Quotes |-> 0] /\ runs = 0

(* The free chain is the first one: chains have no identity in the code.   *)
Free == {c \in Chains : tasks[c] = None}
Begins(t) ==
  /\ Free # {}
  /\ tasks' = [tasks EXCEPT ![CHOOSE c \in Free : \A d \in Free : c <= d] = t]
Becomes(c, t) == tasks' = [tasks EXCEPT ![c] = t]
Ends(c) == Becomes(c, None)
Awaits(c, tool) == tasks[c] # None /\ tasks[c].tool = tool
Of(c) == tasks[c].quote
-----------------------------------------------------------------------------
(* runZadper: the button is disabled only while the page says "running".   *)
Run(symbol) ==
  /\ state # "running" /\ runs < MaxRuns
  /\ symbol => Symbols
  /\ Begins(Task(IF symbol THEN "resolve" ELSE "quote_report", None, None))
  /\ Blank /\ state' = "running" /\ runs' = runs + 1
  /\ UNCHANGED service

Resolved(c) ==
  /\ Awaits(c, "resolve") /\ Becomes(c, Task("quote_report", None, None))
  /\ UNCHANGED <<state, flow, service, runs>>

Quoted(c, q) ==
  /\ Awaits(c, "quote_report") /\ q \notin quoted
  /\ quoted' = quoted \cup {q} /\ quote' = q
  /\ Becomes(c, Task("registry_status", q, None))
  /\ UNCHANGED <<state, paid, receipt, verification, tamper, registry, payload, sold, recorded, runs>>

RegistryRead(c) ==
  /\ Awaits(c, "registry_status") /\ registry' = TRUE
  /\ Becomes(c, Task("buy_report", Of(c), None))
  /\ UNCHANGED <<state, quote, paid, receipt, verification, tamper, payload, service, runs>>

(* The service sells a report for the payload signed for it, and hands it   *)
(* out again to who sends that payload again; it answers 402 to the rest.   *)
Sells(c) == tasks[c].payload = Of(c)

Bought(c) ==
  /\ Awaits(c, "buy_report") /\ Sells(c)
  /\ sold' = sold \cup {Of(c)} /\ paid' = Of(c)
  /\ Becomes(c, Task("verify_report", Of(c), None))
  /\ UNCHANGED <<state, quote, receipt, verification, tamper, registry, payload, quoted, recorded, runs>>

PaymentRequired(c) ==
  /\ Awaits(c, "buy_report") /\ ~Sells(c)
  /\ state' = "payment_required" /\ Ends(c)
  /\ UNCHANGED <<flow, service, runs>>

(* A report that does not fit is recorded all the same. *)
VerifiedUnchecked(c) ==
  /\ Awaits(c, "verify_report")
  /\ verification' = [of |-> Of(c), verified |-> Of(c) \in Sound]
  /\ state' = state /\ Becomes(c, Task("record_decision", Of(c), None))
  /\ UNCHANGED <<quote, paid, receipt, tamper, registry, payload, service, runs>>

Verified(c) ==
  /\ Awaits(c, "verify_report")
  /\ verification' = [of |-> Of(c), verified |-> Of(c) \in Sound]
  /\ IF Of(c) \in Sound
       THEN state' = state /\ Becomes(c, Task("record_decision", Of(c), None))
       ELSE state' = "error" /\ Ends(c)
  /\ UNCHANGED <<quote, paid, receipt, tamper, registry, payload, service, runs>>

(* The page is complete, and the receipt left out. *)
RecordedWithout(c) ==
  /\ Awaits(c, "record_decision")
  /\ recorded' = [recorded EXCEPT ![Of(c)] = @ + 1]
  /\ state' = "complete" /\ Ends(c)
  /\ UNCHANGED <<quote, paid, receipt, verification, tamper, registry, payload, quoted, sold, runs>>

Recorded(c) ==
  /\ Awaits(c, "record_decision")
  /\ recorded' = [recorded EXCEPT ![Of(c)] = @ + 1]
  /\ receipt' = Of(c) /\ state' = "complete" /\ Ends(c)
  /\ UNCHANGED <<quote, paid, verification, tamper, registry, payload, quoted, sold, runs>>

(* The run's failure is told to nobody. *)
FailsSilently(c) ==
  /\ tasks[c] # None /\ tasks[c].tool # "tamper" /\ Ends(c)
  /\ \/ UNCHANGED <<sold, recorded>>
     \/ Awaits(c, "buy_report") /\ Sells(c) /\ sold' = sold \cup {Of(c)} /\ UNCHANGED recorded
     \/ Awaits(c, "record_decision") /\ UNCHANGED sold
        /\ recorded' = [recorded EXCEPT ![Of(c)] = @ + 1]
  /\ UNCHANGED <<state, flow, quoted, runs>>

(* A call is refused or breaks, or its answer is too late: what it was      *)
(* asked to do may have been done.                                          *)
Fails(c) ==
  /\ tasks[c] # None /\ tasks[c].tool # "tamper" /\ state' = "error" /\ Ends(c)
  /\ \/ UNCHANGED <<sold, recorded>>
     \/ Awaits(c, "buy_report") /\ Sells(c) /\ sold' = sold \cup {Of(c)} /\ UNCHANGED recorded
     \/ Awaits(c, "record_decision") /\ UNCHANGED sold
        /\ recorded' = [recorded EXCEPT ![Of(c)] = @ + 1]
  /\ UNCHANGED <<flow, quoted, runs>>

(* The payment sheet: the buyer's CLI signed for the quote it shows. *)
SetPayload(q) ==
  /\ q \in quoted \cup {None} /\ state = "payment_required" /\ quote # None
  /\ payload # q /\ payload' = q
  /\ UNCHANGED <<state, quote, paid, receipt, verification, tamper, registry, tasks, service, runs>>

(* The sheet stays open while a payment is under way. *)
ContinuesTwice(q) == state \in {"payment_required", "running"} /\ q # None

Continues(q) == state = "payment_required" /\ q # None

(* continueSettlement: an empty box, or one that is no JSON, is an error.  *)
ContinueSettlement(readable) ==
  /\ Continues(quote)
  /\ IF payload # None /\ readable
       THEN state' = "running" /\ Begins(Task("buy_report", quote, payload))
       ELSE state' = "error" /\ tasks' = tasks
  /\ UNCHANGED <<flow, service, runs>>

Reset ==
  /\ Resets /\ Blank /\ state' = "idle"
  /\ UNCHANGED <<tasks, service, runs>>

(* tamperReport: the button is there while no tampered fact is shown.      *)
TamperReport ==
  /\ paid # None /\ tamper = Nothing /\ Facts[paid] # "empty"
  /\ Begins(Task("tamper", paid, None))
  /\ UNCHANGED <<state, flow, service, runs>>

(* A boolean fact is left as it is; a call that fails is shown as refused. *)
Tampered(c, fails) ==
  /\ Awaits(c, "tamper") /\ Ends(c)
  /\ tamper' = [of |-> Of(c),
                verified |-> ~fails /\ Of(c) \in Sound /\ Facts[Of(c)] = "boolean"]
  /\ UNCHANGED <<state, quote, paid, receipt, verification, registry, payload, service, runs>>

RestoreReport ==
  /\ tamper # Nothing /\ tamper' = Nothing
  /\ UNCHANGED <<state, quote, paid, receipt, verification, registry, payload, tasks, service, runs>>

Answer(c) ==
  \/ Resolved(c) \/ (\E q \in Quotes : Quoted(c, q)) \/ RegistryRead(c)
  \/ Bought(c) \/ PaymentRequired(c) \/ Verified(c) \/ Recorded(c) \/ Fails(c)
  \/ \E fails \in BOOLEAN : Tampered(c, fails)

Next ==
  \/ \E symbol \in BOOLEAN : Run(symbol)
  \/ \E c \in Chains : Answer(c)
  \/ \E q \in Quotes \cup {None} : SetPayload(q)
  \/ \E readable \in BOOLEAN : ContinueSettlement(readable)
  \/ Reset \/ TamperReport \/ RestoreReport

(* toolTimeoutMs: every tool call is answered or given up; a symbol's lookup *)
(* has no such limit.                                                        *)
TimedToolsButOne == Tools \ {"resolve", "record_decision"}

TimedTools == Tools \ {"resolve"}
Timely(c) == tasks[c] # None /\ tasks[c].tool \in TimedTools /\ Answer(c)

Spec == Init /\ [][Next]_vars
Fairness == \A c \in Chains : WF_vars(Timely(c))
FairSpec == Spec /\ Fairness
-----------------------------------------------------------------------------
(* A decision goes on chain only for a report whose proof fits its root,    *)
(* whatever answers come late or twice (settleQuote throws before it        *)
(* records).                                                                *)
RecordedWasVerified == \A q \in Quotes : recorded[q] > 0 => q \in sold \cap Sound

(* The page does not say it is running when nothing it waits for is left:   *)
(* every way a run ends says so (runZadper, continueSettlement).            *)
RunningWaitsForSomething ==
  state = "running" => \E c \in Chains : tasks[c] # None /\ tasks[c].tool # "tamper"

(* As long as nobody presses Reset, what is on the page belongs together:   *)
(* report, verification and receipt are those of the quote that is shown,   *)
(* and nothing is shown as recorded that was not shown as verified, although *)
(* no call is told which run it is for.                                     *)
ShownTogether ==
  /\ paid \in {quote, None}
  /\ verification.of \in {paid, None}
  /\ receipt \in {paid, None}
  /\ Done.record => Done.proof

(* As long as nobody presses Reset, a report's decision is recorded once,   *)
(* and its payment is asked for only while it is unpaid, however calls time *)
(* out and payloads are sent again.                                         *)
AskedAndRecordedOnce ==
  /\ \A q \in Quotes : recorded[q] <= 1
  /\ state = "payment_required" => quote # None /\ quote \notin sold

(* A run of a hash comes to its end: the deadlines of the calls it chains   *)
(* see to it (callTool).                                                    *)
RunsEnd == state = "running" ~> state # "running"

(* App.tsx:389 of a verified report: "The evidence matched the quoted       *)
(* fingerprint."                                                            *)
MatchIsOfTheQuote ==
  verification.verified /\ paid # None /\ quote # None => paid = quote

(* docs/user-surfaces.md:23: the "tamper one fact" demo shows "proof        *)
(* verification failing".                                                   *)
TamperingFails == tamper # Nothing => ~tamper.verified
=============================================================================
