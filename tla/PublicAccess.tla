---------------------------- MODULE PublicAccess ----------------------------
(***************************************************************************)
(* Who may call a tool of the MCP bridge, and how often: the bearer token, *)
(* the tools that are public, and the limiter of the testnet assessments   *)
(* that are paid from the operator's account.                              *)
(***************************************************************************)
EXTENDS Integers, Sequences, FiniteSets, BoundedMap

CONSTANTS
  Clients,                          \* request.ip
  WindowMs, RequestsPerWindow, DailyLimit, MaxTrackedClients,
  Day,                              \* units of time in a day
  MaxTime, MaxCalls,                \* bounds
  None

PublicAccessAssumption ==
  /\ {WindowMs, RequestsPerWindow, DailyLimit, MaxTrackedClients, Day} \subseteq Nat \ {0}
  /\ {MaxTime, MaxCalls} \subseteq Nat

PrivilegedTools == {"assess_subject", "buy_report", "record_decision", "check_x402_payment"}
PublicAssessmentTools == {"assess_subject"}
PublicStatusTools == {"payment_status"}
PublicBrowserConsoleTools == {"buy_report", "record_decision", "verify_report"}
MeteredBrowserConsoleTools == {"buy_report"}
Tools == PrivilegedTools \union PublicStatusTools \union PublicBrowserConsoleTools

(* Tools that pay, or send a transaction, from the account of the operator.*)
SpendingTools == {"assess_subject", "buy_report", "record_decision"}

Options == [authToken : BOOLEAN, publicAssessments : BOOLEAN,
            allowedOrigins : BOOLEAN, allowUnauthenticated : BOOLEAN]

Requests == [client : Clients, tool : Tools, bearer : {None, "right", "wrong"},
             origin : {None, "allowed", "other"}, direct : BOOLEAN]

VARIABLES
  options,
  now,
  clients,      \* client -> startedAt, count
  dailyKey, dailyCount,
  log,          \* history: the metered calls that passed
  passed        \* history: the last spending call that passed, and why

vars == <<options, now, clients, dailyKey, dailyCount, log, passed>>

Grounds == {"token", "metered", "console", "unauthenticated", "open"}

TypeOK ==
  /\ options \in Options
  /\ now \in 0..MaxTime
  /\ \A i \in DOMAIN clients : clients[i] \in
        [key : Clients, value : [startedAt : 0..now, count : 1..RequestsPerWindow]]
  /\ Len(clients) <= MaxTrackedClients
  /\ dailyKey \in 0..(now \div Day) \union {None}
  /\ dailyCount \in 0..DailyLimit
  /\ \A i \in DOMAIN log : log[i] \in [client : Clients, at : 0..now]
  /\ passed \in [tool : SpendingTools, ground : Grounds] \union {None}

(* validateBridgeAccessOptions: no public assessments without an origin.   *)
Init ==
  /\ options \in {o \in Options : o.publicAssessments => o.allowedOrigins}
  /\ now = 0
  /\ clients = <<>>
  /\ dailyKey = None
  /\ dailyCount = 0
  /\ log = <<>>
  /\ passed = None

-----------------------------------------------------------------------------
Today == now \div Day

CountToday == IF dailyKey = Today THEN dailyCount ELSE 0

(* The window ends a moment too early.                                     *)
WindowOfLate(client) ==
  IF Holds(clients, client) /\ now - Get(clients, client).startedAt < WindowMs - 1
    THEN Get(clients, client)
    ELSE [startedAt |-> now, count |-> 0]

(* The window of a client, a new one if the old one is over.               *)
Window(client) ==
  IF Holds(clients, client) /\ now - Get(clients, client).startedAt < WindowMs
    THEN Get(clients, client)
    ELSE [startedAt |-> now, count |-> 0]

(* Both bounds let one more call through.                                  *)
LimiterAllowsOneMore(client) ==
  /\ CountToday <= DailyLimit
  /\ Window(client).count <= RequestsPerWindow

LimiterAllows(client) ==
  /\ CountToday < DailyLimit
  /\ Window(client).count < RequestsPerWindow

(* The day starts again with the window of a client.                       *)
CountCallByWindow(client) ==
  /\ dailyKey' = Today
  /\ dailyCount' = IF Window(client).count = 0 THEN 1 ELSE CountToday + 1
  /\ clients' = SetBounded(clients, client,
                  [Window(client) EXCEPT !.count = @ + 1], MaxTrackedClients)

CountCall(client) ==
  /\ dailyKey' = Today
  /\ dailyCount' = CountToday + 1
  /\ clients' = SetBounded(clients, client,
                  [Window(client) EXCEPT !.count = @ + 1], MaxTrackedClients)

(* A refused call starts the count of a new day and nothing else.          *)
RefuseCall ==
  /\ dailyKey' = Today
  /\ dailyCount' = CountToday
  /\ UNCHANGED clients

Passes(r, ground) ==
  passed' = IF r.tool \in SpendingTools THEN [tool |-> r.tool, ground |-> ground] ELSE passed

OriginIsRefused(r) == r.origin = "other" \/ (r.origin = "allowed" /\ ~ options.allowedOrigins)

(* The exceptions are looked at before the public console and the token.   *)
GroundLoopbackFirst(r) ==
  IF OriginIsRefused(r) THEN "none"
  ELSE IF r.bearer # None THEN IF options.authToken /\ r.bearer = "right" THEN "token" ELSE "none"
  ELSE IF r.tool \in PublicStatusTools THEN "open"
  ELSE IF options.allowUnauthenticated \/ r.direct THEN "unauthenticated"
  ELSE "none"

(* The ground on which a call may pass, "none" if it may not.  A metered   *)
(* one is then asked of the limiter.                                       *)
Ground(r) ==
  IF OriginIsRefused(r) THEN "none"
  ELSE IF r.bearer # None THEN IF options.authToken /\ r.bearer = "right" THEN "token" ELSE "none"
  ELSE IF r.tool \in PublicStatusTools THEN "open"
  ELSE IF options.publicAssessments /\ r.tool \in PublicAssessmentTools \union PublicBrowserConsoleTools
    THEN IF r.origin # "allowed" THEN "none"
         ELSE IF r.tool \in PublicAssessmentTools \union MeteredBrowserConsoleTools
         THEN "metered" ELSE "console"
  ELSE IF options.authToken THEN "none"
  ELSE IF options.allowUnauthenticated \/ r.direct THEN "unauthenticated"
  ELSE IF r.tool \in PrivilegedTools THEN "none"
  ELSE "open"

CallMetered(r) ==
  /\ Ground(r) = "metered"
  /\ Len(log) < MaxCalls
  /\ LimiterAllows(r.client)
  /\ CountCall(r.client)
  /\ log' = Append(log, [client |-> r.client, at |-> now])
  /\ Passes(r, "metered")

CallOverLimit(r) ==
  /\ Ground(r) = "metered"
  /\ ~ LimiterAllows(r.client)
  /\ RefuseCall
  /\ UNCHANGED <<log, passed>>

CallUnmetered(r) ==
  /\ Ground(r) \notin {"none", "metered"}
  /\ Passes(r, Ground(r))
  /\ UNCHANGED <<clients, dailyKey, dailyCount, log>>

(* A request whose ground is "none" is answered 401, 403 or 503.           *)
Call(r) ==
  /\ CallMetered(r) \/ CallOverLimit(r) \/ CallUnmetered(r)
  /\ UNCHANGED <<options, now>>

Tick ==
  /\ now < MaxTime
  /\ now' = now + 1
  /\ UNCHANGED <<options, clients, dailyKey, dailyCount, log, passed>>

Next == Tick \/ \E r \in Requests : Call(r)

Spec == Init /\ [][Next]_vars

-----------------------------------------------------------------------------
CallsOf(client) == {i \in DOMAIN log : log[i].client = client}

(* However many clients come and go, and whichever of them the limiter has *)
(* forgotten, the operator pays for no more public calls of a day than the *)
(* daily limit (src/apps/mcp-server/src/publicAccess.ts:134).              *)
DailyBudget ==
  \A day \in 0..Today :
     Cardinality({i \in DOMAIN log : log[i].at \div Day = day}) <= DailyLimit

(* One client is let through 2 * requestsPerWindow times in the span of a  *)
(* window only if as many others as the limiter tracks were let through in *)
(* that span or the window before it, so that it was forgotten             *)
(* (src/apps/mcp-server/src/publicAccess.ts:142).                          *)
ClientBudget ==
  \A client \in Clients, first \in 0..now :
     LET span == first..(first + WindowMs - 1)
         around == (first - WindowMs + 1)..(first + WindowMs - 1)
     IN  Cardinality({i \in CallsOf(client) : log[i].at \in span}) >= 2 * RequestsPerWindow
           => Cardinality({c \in Clients \ {client} :
                 \E i \in CallsOf(c) : log[i].at \in around}) >= MaxTrackedClients

(* Once a bridge token is set, or the public console is on, neither the    *)
(* loopback exception nor the opt-in lets an anonymous call spend the      *)
(* operator's money unmetered, except for a record, which the capability   *)
(* of a paid report has to cover                                           *)
(* (src/apps/mcp-server/src/app.ts:307).                                   *)
TokenIsNotBypassed ==
  passed # None /\ (options.authToken \/ options.publicAssessments) =>
     \/ passed.ground \in {"token", "metered"}
     \/ passed.ground = "console" /\ passed.tool = "record_decision"
=============================================================================
