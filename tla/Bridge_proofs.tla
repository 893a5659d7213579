---------------------------- MODULE Bridge_proofs ----------------------------
(***************************************************************************)
(* The MCP bridge, for every set of calls, clients, roots, datasets and    *)
(* terms: what an assessment records was earned and its money was spent on *)
(* what was asked; every call of the tools is such an assessment; and what *)
(* the public calls cost the operator is limited.                          *)
(***************************************************************************)
EXTENDS MCBridge, BoundedMap_proofs, TLAPS

-----------------------------------------------------------------------------
(* Nothing is spent before the quote is accepted, and nothing of the       *)
(* request or the quote moves after that.                                  *)
Agreed ==
  /\ phase \in {"idle", "quoting"} => paid = None /\ recorded = None
  /\ phase = "settling" => QuoteIsAcceptable(quote) /\ paid = None
  /\ phase \in {"settling", "verifying", "recording", "done"} => QuoteIsAcceptable(quote)
  /\ paid # None => QuoteIsAcceptable(quote)

(* What is known of the purchase while its leaves are vouched for. *)
Vouched ==
  /\ phase \in {"verifying", "recording"} => PurchaseMatches(paid) /\ recorded = None
  /\ phase = "verifying" => \A leaf \in paid.evidence : leaf \in unchecked \/ LeafHolds(leaf)
  /\ phase = "recording" => /\ \A leaf \in paid.evidence : LeafHolds(leaf)
                            /\ EvidenceSuffices

Recorded ==
  recorded # None =>
    /\ phase \in {"done", "failed"}
    /\ recorded = [dataset |-> paid.dataset, root |-> paid.root, decision |-> Decision]
    /\ PurchaseMatches(paid) /\ QuoteIsAcceptable(quote)
    /\ \A leaf \in paid.evidence : LeafHolds(leaf)
    /\ EvidenceSuffices

AssessmentInv ==
  /\ Agreed
  /\ Vouched
  /\ phase \in {"settling"} => recorded = None
  /\ Recorded

LEMMA InitAssessmentInv == Init => AssessmentInv
BY DEF Init, AssessmentInv, Agreed, Vouched, Recorded

(* A step of the call keeps the invariant. *)
LEMMA NextAssessmentInv == AssessmentInv /\ [Next]_vars => AssessmentInv'
<1> SUFFICES ASSUME AssessmentInv, [Next]_vars PROVE AssessmentInv'
  OBVIOUS
<1> USE DEF AssessmentInv, Agreed, Vouched, Recorded, QuoteIsAcceptable, PurchaseMatches,
            LeafHolds, EvidenceSuffices, Decision
<1>1. ASSUME NEW r \in Requests, Begin(r) PROVE AssessmentInv'
  BY <1>1 DEF Begin
<1>2. ASSUME NEW q \in Quotes, Quoted(q) PROVE AssessmentInv'
  BY <1>2 DEF Quoted
<1>3. ASSUME NEW p \in PaidAnswers, Settled(p) PROVE AssessmentInv'
  BY <1>3 DEF Settled
<1>4. ASSUME NEW leaf \in Leaves, Verified(leaf) PROVE AssessmentInv'
  BY <1>4 DEF Verified
<1>5. CASE Score
  BY <1>5 DEF Score
<1>6. CASE Record
  BY <1>6 DEF Record
<1>7. CASE Throws
  BY <1>7 DEF Throws
<1>8. CASE UNCHANGED vars
  BY <1>8 DEF vars
<1> QED
  BY <1>1, <1>2, <1>3, <1>4, <1>5, <1>6, <1>7, <1>8 DEF Next

(* What reaches the registry was earned on the whole way. *)
THEOREM RecordsAreEarned == Spec => []RecordIsEarned
<1>1. AssessmentInv => RecordIsEarned
  BY DEF AssessmentInv, Recorded, RecordIsEarned, QuoteIsAcceptable, PurchaseMatches,
         LeafHolds, EvidenceSuffices, Decision
<1> QED
  BY InitAssessmentInv, NextAssessmentInv, <1>1, PTL DEF Spec

(* Money is spent only on a quote for the network the caller named. *)
THEOREM SpendingIsAsked == Spec => []SpentOnWhatWasAsked
<1>1. AssessmentInv => SpentOnWhatWasAsked
  BY DEF AssessmentInv, Agreed, SpentOnWhatWasAsked, QuoteIsAcceptable
<1> QED
  BY InitAssessmentInv, NextAssessmentInv, <1>1, PTL DEF Spec

-----------------------------------------------------------------------------
ToolQuotes == [network : Networks, root : ApiRoots, dataset : ApiDatasets, terms : ApiTerms \cup {None}]

Outcomes ==
  {"invalid_input", "upstream", "internal", "not_configured", "payment_required", "lost"}

(* A call of the tools as it is stored: nothing is ever paid, and a call   *)
(* has a kind exactly from when its subject is exact or resolved.          *)
ToolRows ==
  [stage : {"unasked", "resolving", "quoting", "signing", "buying", "over"},
   tool : Tool!Tools \cup {None}, kind : {"token", "account", None}, form : Tool!Forms \cup {None},
   named : Networks \cup {None}, network : Networks \cup {None},
   quote : ToolQuotes \cup {None}, paid : {None}, outcome : Outcomes \cup {None}]

CallsAreStaged ==
  /\ call \in [Calls -> ToolRows]
  /\ \A c \in Calls :
       /\ call[c].stage \in {"unasked", "resolving"} => call[c].kind = None
       /\ call[c].stage \in {"quoting", "signing", "buying"} => call[c].kind # None

CallsStutter(c) == UNCHANGED Tool!AssessmentOf(c)!vars \/ Tool!AssessmentOf(c)!Next

(* A call that ends stays a stored call. *)
LEMMA OverIsStaged ==
  ASSUME CallsAreStaged, NEW c \in Calls, NEW outcome \in Outcomes, Tool!Over(c, outcome)
  PROVE  CallsAreStaged'
<1> DEFINE row == [call[c] EXCEPT !.stage = "over", !.outcome = outcome]
<1>1. call' = [call EXCEPT ![c] = row]
  BY DEF Tool!Over, CallsAreStaged
<1>2. row \in ToolRows /\ row.stage = "over"
  BY DEF CallsAreStaged, ToolRows
<1> HIDE DEF row
<1> QED BY <1>1, <1>2 DEF CallsAreStaged

LEMMA CallsStaged ==
  ASSUME Tool!NamesAssumption
  PROVE  Tool!Spec => []CallsAreStaged
<1>1. Tool!Init => CallsAreStaged
  BY DEF Tool!Init, Tool!Unasked, CallsAreStaged, ToolRows, Outcomes
<1>2. CallsAreStaged /\ [Tool!Next]_(Tool!vars) => CallsAreStaged'
  <2> SUFFICES ASSUME CallsAreStaged, [Tool!Next]_(Tool!vars)
               PROVE  CallsAreStaged'
    OBVIOUS
  <2> USE DEF CallsAreStaged
  <2>1. ASSUME NEW c \in Calls, NEW tool \in Tool!Tools, NEW form \in Tool!Forms,
               NEW network \in Tool!Networks \cup {None}, Tool!Ask(c, tool, form, network)
        PROVE  CallsAreStaged'
    <3> DEFINE entered == Tool!Entered(tool, form)
    <3>1. Tool!KindOf(entered) \in {"token", "account"}
      BY DEF Tool!KindOf
    <3> QED BY <2>1, <3>1 DEF Tool!Ask, Tool!Unasked, ToolRows, Outcomes, Tool!Networks, Networks, Tool!NamesAssumption
  <2>2. ASSUME NEW c \in Calls, NEW known \in BOOLEAN, Tool!Resolve(c, known)
        PROVE  CallsAreStaged'
    <3> DEFINE found == [call[c] EXCEPT !.stage = "quoting", !.network = "botchain-mainnet",
                           !.kind = IF call[c].form = "name" THEN "account" ELSE "token"]
    <3>1. found \in ToolRows /\ found.stage = "quoting" /\ found.kind # None
      BY DEF ToolRows, CallsAreStaged, Networks, Tool!NamesAssumption
    <3>2. CASE \E outcome \in Outcomes : Tool!Over(c, outcome)
      BY <3>2, OverIsStaged
    <3>3. CASE call' = [call EXCEPT ![c] = found]
      <4> HIDE DEF found
      <4> QED BY <3>1, <3>3 DEF CallsAreStaged
    <3> QED BY <2>2, <3>2, <3>3 DEF Tool!Resolve, Outcomes
  <2>3. ASSUME NEW c \in Calls, NEW root \in ApiRoots, NEW dataset \in ApiDatasets,
               NEW terms \in ApiTerms \cup {None}, Tool!Quote(c, root, dataset, terms)
        PROVE  CallsAreStaged'
    <3>1. Tool!AcceptsQuote(c, Tool!ApiQuote(c, root, dataset, terms))
            => Tool!ApiQuote(c, root, dataset, terms) \in ToolQuotes
      BY DEF Tool!AcceptsQuote, Tool!ApiQuote, ToolQuotes, Tool!Networks, Networks
    <3> QED BY <2>3, <3>1 DEF Tool!Quote, Tool!Over, ToolRows, Outcomes
  <2>4. ASSUME NEW c \in Calls, Tool!CannotSign(c)
        PROVE  CallsAreStaged'
    BY <2>4, OverIsStaged DEF Tool!CannotSign, Outcomes
  <2>5. ASSUME NEW c \in Calls, Tool!Sign(c)
        PROVE  CallsAreStaged'
    BY <2>5 DEF Tool!Sign, ToolRows, Outcomes
  <2>6. ASSUME NEW c \in Calls, Tool!UnhandledRejection(c)
        PROVE  CallsAreStaged'
    <3> DEFINE lost(d) == [call[d] EXCEPT !.stage = "over", !.outcome = "lost"]
    <3>1. \A d \in Calls : lost(d) \in ToolRows /\ lost(d).stage = "over"
      BY DEF ToolRows, Outcomes, CallsAreStaged
    <3>2. \A d \in Calls : call[d] \in ToolRows
      BY DEF CallsAreStaged
    <3>3. call' = [d \in Calls |-> IF call[d].stage \in {"unasked", "over"} THEN call[d] ELSE lost(d)]
      BY <2>6 DEF Tool!UnhandledRejection
    <3> HIDE DEF lost
    <3> QED BY <3>1, <3>2, <3>3 DEF CallsAreStaged
  <2>7. ASSUME NEW c \in Calls, Tool!Buy(c)
        PROVE  CallsAreStaged'
    BY <2>7, OverIsStaged DEF Tool!Buy, Tool!PaymentPayload, Outcomes
  <2>8. ASSUME NEW c \in Calls, Tool!RequestFails(c)
        PROVE  CallsAreStaged'
    BY <2>8, OverIsStaged DEF Tool!RequestFails, Outcomes
  <2>9. ASSUME Tool!Restart \/ UNCHANGED Tool!vars
        PROVE  CallsAreStaged'
    BY <2>9 DEF Tool!Restart, Tool!vars
  <2> QED BY <2>1, <2>2, <2>3, <2>4, <2>5, <2>6, <2>7, <2>8, <2>9 DEF Tool!Next, Tool!Step
<1> QED BY <1>1, <1>2, PTL DEF Tool!Spec

LEMMA CallStays ==
  ASSUME NEW c, call'[c] = call[c]
  PROVE  CallsStutter(c)
BY DEF CallsStutter, Tool!AssessmentOf!vars, Tool!AssessmentPhase

LEMMA CallEnds ==
  ASSUME CallsAreStaged, NEW c \in Calls, call[c].stage # "unasked",
         call'[c].stage = "over", call'[c].kind = call[c].kind, call'[c].network = call[c].network,
         call'[c].quote = call[c].quote, call'[c].paid = call[c].paid
  PROVE  CallsStutter(c)
<1> USE DEF CallsAreStaged, ToolRows
<1>1. CASE call[c].stage \in {"resolving", "over"}
  BY <1>1 DEF CallsStutter, Tool!AssessmentOf!vars, Tool!AssessmentPhase
<1>2. CASE call[c].stage \in {"quoting", "signing", "buying"}
  <2>1. Tool!AssessmentOf(c)!Throws
    BY <1>2 DEF Tool!AssessmentOf!Throws, Tool!AssessmentPhase
  <2> QED BY <2>1 DEF CallsStutter, Tool!AssessmentOf!Next
<1> QED BY <1>1, <1>2

LEMMA CallBegins ==
  ASSUME CallsAreStaged, NEW c \in Calls, call[c].stage \in {"unasked", "resolving"},
         call'[c].stage = "quoting", call'[c].kind \in {"token", "account"}, call'[c].kind # None,
         call'[c].network \in Networks \cup {None},
         call'[c].quote = call[c].quote, call'[c].paid = call[c].paid
  PROVE  CallsStutter(c)
<1> DEFINE r == [kind |-> call'[c].kind, network |-> call'[c].network]
<1>1. r \in Tool!AssessmentOf(c)!Requests
  BY DEF Tool!AssessmentOf!Requests, Tool!AssessmentOf!Kinds, Tool!AssessmentOf!Networks, Networks
<1>2. Tool!AssessmentOf(c)!Begin(r)
  BY DEF CallsAreStaged, Tool!AssessmentOf!Begin, Tool!AssessmentPhase
<1> QED BY <1>1, <1>2 DEF CallsStutter, Tool!AssessmentOf!Next

LEMMA CallIsQuoted ==
  ASSUME CallsAreStaged, NEW c \in Calls, NEW root \in ApiRoots, NEW dataset \in ApiDatasets,
         NEW terms \in ApiTerms \cup {None}, Tool!Quote(c, root, dataset, terms)
  PROVE  CallsStutter(c)
<1> DEFINE q == Tool!ApiQuote(c, root, dataset, terms)
<1>1. CASE (call[c].network # None /\ ~ Tool!ApiKnows(call[c].network)) \/ ~ Tool!AcceptsQuote(c, q)
  BY <1>1, CallEnds DEF Tool!Quote, Tool!Over, CallsAreStaged, ToolRows
<1>2. CASE (call[c].network = None \/ Tool!ApiKnows(call[c].network)) /\ Tool!AcceptsQuote(c, q)
  <2>1. q \in Tool!AssessmentOf(c)!Quotes
    BY <1>2 DEF Tool!ApiQuote, Tool!AcceptsQuote, Tool!Networks, Tool!AssessmentOf!Quotes,
                Tool!AssessmentOf!Networks
  <2>2. call' = [call EXCEPT ![c].stage = "signing", ![c].quote = q] /\ call[c].stage = "quoting"
    BY <1>2 DEF Tool!Quote
  <2>3. /\ call'[c].stage = "signing" /\ call'[c].quote = q
        /\ call'[c].kind = call[c].kind /\ call'[c].network = call[c].network
        /\ call'[c].paid = call[c].paid
    <3> HIDE DEF q
    <3> QED BY <2>2 DEF CallsAreStaged, ToolRows
  <2>4. call[c].kind # None
    BY <2>2 DEF CallsAreStaged
  <2>5. Tool!AssessmentOf(c)!QuoteIsAcceptable(q)
    BY <1>2, <2>4 DEF Tool!AcceptsQuote, Tool!Networks, Tool!AssessmentOf!QuoteIsAcceptable,
                Tool!AssessmentOf!Networks
  <2>6. Tool!AssessmentOf(c)!Quoted(q)
    <3> HIDE DEF q
    <3> QED BY <2>2, <2>3, <2>4, <2>5 DEF Tool!AssessmentOf!Quoted, Tool!AssessmentPhase
  <2> QED BY <2>1, <2>6 DEF CallsStutter, Tool!AssessmentOf!Next
<1> QED BY <1>1, <1>2

LEMMA CallsImplement ==
  ASSUME Tool!NamesAssumption, CallsAreStaged, [Tool!Next]_(Tool!vars), NEW d \in Calls
  PROVE  CallsStutter(d)
<1> USE DEF CallsAreStaged
<1> DEFINE Ended(c) ==
      /\ call'[c].stage = "over" /\ call'[c].kind = call[c].kind
      /\ call'[c].network = call[c].network /\ call'[c].quote = call[c].quote /\ call'[c].paid = call[c].paid
<1>0. \A c \in Calls, outcome \in Outcomes : Tool!Over(c, outcome) => Ended(c)
  BY DEF Tool!Over, ToolRows
<1>1. ASSUME NEW c \in Calls, NEW tool \in Tool!Tools, NEW form \in Tool!Forms,
             NEW network \in Tool!Networks \cup {None}, Tool!Ask(c, tool, form, network), c = d
      PROVE  CallsStutter(d)
  <2> DEFINE entered == Tool!Entered(tool, form)
             asked == [Tool!Unasked EXCEPT !.tool = tool, !.form = form, !.named = network, !.network = network]
  <2>0. call[c] = Tool!Unasked
    BY <1>1 DEF Tool!Ask
  <2>1. CASE call' = [call EXCEPT ![c] = [asked EXCEPT !.stage = "over", !.outcome = "invalid_input"]]
    BY <1>1, <2>0, <2>1
       DEF Tool!Unasked, CallsStutter, Tool!AssessmentOf!vars, Tool!AssessmentPhase
  <2>2. CASE call' = [call EXCEPT ![c] = [asked EXCEPT !.stage = "resolving"]]
    BY <1>1, <2>0, <2>2
       DEF Tool!Unasked, CallsStutter, Tool!AssessmentOf!vars, Tool!AssessmentPhase
  <2>3. CASE call' = [call EXCEPT ![c] = [asked EXCEPT !.stage = "quoting", !.kind = Tool!KindOf(entered)]]
    <3>1. Tool!KindOf(entered) \in {"token", "account"} /\ Tool!KindOf(entered) # None
      BY DEF Tool!KindOf, Tool!NamesAssumption
    <3> HIDE DEF entered
    <3>2. /\ call'[c].stage = "quoting" /\ call'[c].kind = Tool!KindOf(entered) /\ call'[c].network = network
          /\ call'[c].quote = call[c].quote /\ call'[c].paid = call[c].paid /\ call[c].stage = "unasked"
      BY <2>0, <2>3 DEF Tool!Unasked
    <3>3. network \in Networks \cup {None}
      BY DEF Networks, Tool!Networks
    <3> QED BY <1>1, <3>1, <3>2, <3>3, CallBegins
  <2> QED BY <1>1, <2>1, <2>2, <2>3 DEF Tool!Ask
<1>2. ASSUME NEW c \in Calls, NEW known \in BOOLEAN, Tool!Resolve(c, known), c = d
      PROVE  CallsStutter(d)
  <2> DEFINE found == [call[c] EXCEPT !.stage = "quoting", !.network = "botchain-mainnet",
                         !.kind = IF call[c].form = "name" THEN "account" ELSE "token"]
  <2>1. CASE \E outcome \in Outcomes : Tool!Over(c, outcome)
    BY <1>2, <1>0, <2>1, CallEnds DEF Tool!Resolve
  <2>2. CASE call' = [call EXCEPT ![c] = found]
    <3>1. /\ call'[c].stage = "quoting" /\ call'[c].kind \in {"token", "account"}
          /\ call'[c].network = "botchain-mainnet"
          /\ call'[c].quote = call[c].quote /\ call'[c].paid = call[c].paid
      BY <2>2 DEF ToolRows
    <3>2. call'[c].kind # None /\ call'[c].network \in Networks \cup {None}
      BY <3>1 DEF Networks, Tool!NamesAssumption
    <3> QED BY <1>2, <3>1, <3>2, CallBegins DEF Tool!Resolve
  <2> QED BY <1>2, <2>1, <2>2 DEF Tool!Resolve, Outcomes
<1>3. ASSUME NEW c \in Calls, NEW root \in ApiRoots, NEW dataset \in ApiDatasets,
             NEW terms \in ApiTerms \cup {None}, Tool!Quote(c, root, dataset, terms), c = d
      PROVE  CallsStutter(d)
  BY <1>3, CallIsQuoted
<1>4. ASSUME NEW c \in Calls, Tool!CannotSign(c), c = d
      PROVE  CallsStutter(d)
  BY <1>4, <1>0, CallEnds DEF Tool!CannotSign, Outcomes
<1>5. ASSUME NEW c \in Calls, Tool!Sign(c), c = d
      PROVE  CallsStutter(d)
  BY <1>5 DEF Tool!Sign, ToolRows, CallsStutter, Tool!AssessmentOf!vars, Tool!AssessmentPhase
<1>6. ASSUME NEW c \in Calls, Tool!UnhandledRejection(c)
      PROVE  CallsStutter(d)
  <2>1. CASE call[d].stage \in {"unasked", "over"}
    BY <1>6, <2>1, CallStays DEF Tool!UnhandledRejection
  <2>2. CASE call[d].stage \notin {"unasked", "over"}
    <3>1. call'[d] = [call[d] EXCEPT !.stage = "over", !.outcome = "lost"]
      BY <1>6, <2>2 DEF Tool!UnhandledRejection
    <3>2. call[d] \in ToolRows
      OBVIOUS
    <3>3. Ended(d)
      BY <3>1, <3>2 DEF ToolRows
    <3> QED BY <2>2, <3>3, CallEnds
  <2> QED BY <2>1, <2>2
<1>7. ASSUME NEW c \in Calls, Tool!Buy(c), c = d
      PROVE  CallsStutter(d)
  BY <1>7, <1>0, CallEnds DEF Tool!Buy, Tool!PaymentPayload, Outcomes
<1>8. ASSUME NEW c \in Calls, Tool!RequestFails(c), c = d
      PROVE  CallsStutter(d)
  BY <1>8, <1>0, CallEnds DEF Tool!RequestFails, Tool!Waiting, Outcomes
<1>9. ASSUME Tool!Restart \/ UNCHANGED Tool!vars
      PROVE  CallsStutter(d)
  BY <1>9, CallStays DEF Tool!Restart, Tool!vars
<1>10. ASSUME NEW c \in Calls, c # d,
              \/ \E tool \in Tool!Tools, form \in Tool!Forms, network \in Tool!Networks \cup {None} :
                   Tool!Ask(c, tool, form, network)
              \/ \E known \in BOOLEAN : Tool!Resolve(c, known)
              \/ \E root \in ApiRoots, dataset \in ApiDatasets, terms \in ApiTerms \cup {None} :
                   Tool!Quote(c, root, dataset, terms)
              \/ Tool!CannotSign(c) \/ Tool!Sign(c) \/ Tool!Buy(c) \/ Tool!RequestFails(c)
       PROVE  CallsStutter(d)
  <2>1. \E x : call' = [call EXCEPT ![c] = x]
    BY <1>10 DEF Tool!Ask, Tool!Resolve, Tool!Quote, Tool!CannotSign, Tool!Sign, Tool!Buy, Tool!RequestFails,
                 Tool!Over
  <2> QED BY <1>10, <2>1, CallStays
<1> QED
  BY <1>1, <1>2, <1>3, <1>4, <1>5, <1>6, <1>7, <1>8, <1>9, <1>10 DEF Tool!Next, Tool!Step

(* Every call of the tools is an assessment. *)
THEOREM CallsAreAssessmentsCorrect ==
  ASSUME Tool!NamesAssumption
  PROVE  Tool!Spec => CallsAreAssessments
<1>1. ASSUME NEW c \in Calls, call[c] = Tool!Unasked
      PROVE  Tool!AssessmentOf(c)!Init
  BY <1>1 DEF Tool!Unasked, Tool!AssessmentOf!Init, Tool!AssessmentPhase
<1>2. CallsAreStaged /\ [Tool!Next]_(Tool!vars) =>
        [\A c \in Calls :
           /\ call[c] = Tool!Unasked => Tool!AssessmentOf(c)!Init
           /\ UNCHANGED Tool!AssessmentOf(c)!vars \/ Tool!AssessmentOf(c)!Next]_(Tool!vars)
  BY <1>1, CallsImplement DEF CallsStutter
<1> QED BY <1>2, CallsStaged, PTL DEF CallsAreAssessments, Tool!CallsAreAssessments, Tool!Spec

-----------------------------------------------------------------------------
(* The maps of the limiter are those of BoundedMap.                        *)
LEMMA AccessMaps ==
  \A m, K, k, v, capacity :
    /\ Access!Holds(m, k) = Holds(m, k) /\ Access!Get(m, k) = Get(m, k)
    /\ Access!SetBounded(m, k, v, capacity) = SetBounded(m, k, v, capacity)
<1>1. \A m, k : Access!Holds(m, k) = Holds(m, k) /\ Access!Get(m, k) = Get(m, k)
  BY Zenon DEF Access!Holds, Holds, Access!KeysOf, KeysOf, Access!Get, Get
<1>2. \A m, K : Access!Without(m, K) = Without(m, K)
  BY Zenon DEF Access!Without, Without, Access!Staying, Staying, Access!Nth, Nth,
               Access!Rank, Rank, Access!Cardinality, Cardinality
<1>3. \A m, k, capacity : Access!Evicted(m, k, capacity) = Evicted(m, k, capacity)
  BY <1>2 DEF Access!Evicted, Evicted
<1>4. \A m, k, v, capacity : Access!SetBounded(m, k, v, capacity) = SetBounded(m, k, v, capacity)
  BY <1>2, <1>3 DEF Access!SetBounded, SetBounded
<1> QED
  BY <1>1, <1>4

LEMMA AccessCardinality == \A S : Access!Cardinality(S) = Cardinality(S)
BY Zenon DEF Access!Cardinality, Cardinality

LEMMA AccessConstants ==
  ASSUME Access!PublicAccessAssumption
  PROVE  /\ WindowMs \in Nat \ {0} /\ RequestsPerWindow \in Nat \ {0} /\ DailyLimit \in Nat \ {0}
         /\ MaxTrackedClients \in Nat \ {0} /\ Day \in Nat \ {0}
BY DEF Access!PublicAccessAssumption

ClientWindow == [key : Clients, value : [startedAt : Nat, count : Nat \ {0}]]

(* The calls that passed are in the order of time; a window that is kept   *)
(* counts no more than a client may.                                       *)
AccessTyped ==
  /\ now \in Nat
  /\ clients \in MapsOf(ClientWindow)
  /\ \A c \in KeysOf(clients) : /\ Get(clients, c).startedAt <= now
                                /\ Get(clients, c).count <= RequestsPerWindow
  /\ log \in Seq([client : Clients, at : Nat])
  /\ \A i, j \in 1..Len(log) : i <= j => log[i].at <= log[j].at /\ log[j].at <= now

(* The clients are kept in the order of their last calls.                  *)
LastCallsOrdered ==
  \A a, b \in Clients : Before(clients, a, b) =>
    \A i \in 1..Len(log) : log[i].client = a => \E j \in 1..Len(log) : i <= j /\ log[j].client = b

(* The calls of a client in the window from first, and the others that     *)
(* called in it or the window before.                                      *)
CallsIn(client, first) == {i \in Access!CallsOf(client) : log[i].at \in first..(first + WindowMs - 1)}

CallersAround(client, first) ==
  {c \in Clients \ {client} :
     \E i \in Access!CallsOf(c) : log[i].at \in (first - WindowMs + 1)..(first + WindowMs - 1)}

CallsCrowded(client, first) == Cardinality(CallersAround(client, first)) >= MaxTrackedClients

(* Without a crowd, the window of a client accounts for its calls in the   *)
(* windows that have not ended: those from its start on are counted, those *)
(* before it are fewer than it may have.                                   *)
CallsAccounted(client) ==
  \A first \in Nat : first <= now /\ now < first + WindowMs /\ ~ CallsCrowded(client, first) =>
    /\ first <= Access!Window(client).startedAt =>
         Cardinality(CallsIn(client, first)) <= RequestsPerWindow - 1 + Access!Window(client).count
    /\ first > Access!Window(client).startedAt =>
         Cardinality(CallsIn(client, first)) <= Access!Window(client).count - 1

CallsWithinBudget(client) ==
  \A first \in Nat : first <= now /\ ~ CallsCrowded(client, first) =>
    Cardinality(CallsIn(client, first)) < 2 * RequestsPerWindow

(* The count of the day is that of its calls, and no day has more than its *)
(* limit.                                                                  *)
OfDay(day) == {i \in 1..Len(log) : log[i].at \div Day = day}

DaysCounted ==
  /\ dailyCount \in Nat /\ dailyCount <= DailyLimit
  /\ dailyCount # 0 => dailyKey \in Nat /\ dailyKey <= Access!Today
  /\ Cardinality(OfDay(Access!Today)) = Access!CountToday
  /\ \A day \in Nat : Cardinality(OfDay(day)) <= DailyLimit

AccessInv ==
  /\ AccessTyped /\ LastCallsOrdered /\ DaysCounted /\ Access!TokenIsNotBypassed
  /\ \A client \in Clients : CallsAccounted(client) /\ CallsWithinBudget(client)

----------------------------------------------------------------------------
(* The calls that passed.                                                  *)

LEMMA AccessLogRows ==
  ASSUME AccessTyped
  PROVE  /\ Len(log) \in Nat /\ DOMAIN log = 1..Len(log)
         /\ \A j \in 1..Len(log) : log[j].client \in Clients /\ log[j].at \in Nat
<1> DEFINE Rows == [client : Clients, at : Nat]
<1>1. log \in Seq(Rows)
  BY DEF AccessTyped
<1> HIDE DEF Rows
<1>2. Len(log) \in Nat /\ DOMAIN log = 1..Len(log) /\ \A j \in 1..Len(log) : log[j] \in Rows
  BY <1>1
<1> QED
  BY <1>2 DEF Rows

LEMMA CallsFinite ==
  ASSUME AccessTyped
  PROVE  /\ \A c, first : /\ IsFiniteSet(CallsIn(c, first))
                          /\ Cardinality(CallsIn(c, first)) \in Nat
         /\ \A day : IsFiniteSet(OfDay(day)) /\ Cardinality(OfDay(day)) \in Nat
<1>1. IsFiniteSet(1..Len(log))
  BY AccessLogRows, FirstNaturals
<1>2. \A c, first : CallsIn(c, first) \in SUBSET (1..Len(log))
  BY AccessLogRows DEF CallsIn, Access!CallsOf
<1>3. \A day : OfDay(day) \in SUBSET (1..Len(log))
  BY DEF OfDay
<1> QED
  BY <1>1, <1>2, <1>3, FS_Subset, FS_CardinalityType

CallersFinite ==
  \A client, first : /\ IsFiniteSet(CallersAround(client, first))
                     /\ Cardinality(CallersAround(client, first)) \in Nat

LEMMA CallersAroundFinite == ASSUME AccessTyped PROVE CallersFinite
<1> DEFINE R == {log[j].client : j \in 1..Len(log)}
<1> DEFINE f == [j \in 1..Len(log) |-> log[j].client]
<1>1. f \in Surjection(1..Len(log), R)
  BY DEF Surjection
<1>2. IsFiniteSet(R)
  <2> HIDE DEF f, R
  <2>1. IsFiniteSet(1..Len(log))
    BY AccessLogRows, FirstNaturals
  <2> QED
    BY <1>1, <2>1, FS_Surjection
<1>3. \A client, first : CallersAround(client, first) \in SUBSET R
  BY AccessLogRows DEF CallersAround, Access!CallsOf
<1> HIDE DEF R
<1> QED
  BY <1>2, <1>3, FS_Subset, FS_CardinalityType DEF CallersFinite

LEMMA CallersAroundFiniteNext == AccessTyped' => CallersFinite'
<1>1. AccessTyped => CallersFinite
  BY CallersAroundFinite
<1> QED
  BY <1>1, PTL

(* A call that passes is the last of the log.                              *)
LEMMA OneMoreRow ==
  ASSUME AccessTyped, NEW n \in Clients, log' = Append(log, [client |-> n, at |-> now])
  PROVE  /\ log' \in Seq([client : Clients, at : Nat]) /\ Len(log') = Len(log) + 1
         /\ DOMAIN log' = 1..(Len(log) + 1)
         /\ log'[Len(log) + 1].client = n /\ log'[Len(log) + 1].at = now
         /\ \A j \in 1..Len(log) : log'[j] = log[j]
         /\ \A j : j \in 1..Len(log') <=> j \in 1..Len(log) \/ j = Len(log) + 1
         /\ Len(log) + 1 \notin 1..Len(log)
<1> DEFINE last == [client |-> n, at |-> now]
<1>1. last \in [client : Clients, at : Nat] /\ last.client = n /\ last.at = now
  BY DEF AccessTyped
<1>2. log \in Seq([client : Clients, at : Nat]) /\ Len(log) \in Nat /\ DOMAIN log = 1..Len(log)
  BY AccessLogRows DEF AccessTyped
<1> HIDE DEF last
<1>3. /\ log' \in Seq([client : Clients, at : Nat]) /\ Len(log') = Len(log) + 1
      /\ DOMAIN log' = 1..(Len(log) + 1) /\ log'[Len(log) + 1] = last
      /\ \A j \in 1..Len(log) : log'[j] = log[j]
  BY <1>1, <1>2 DEF last
<1>4. /\ \A j : j \in 1..(Len(log) + 1) <=> j \in 1..Len(log) \/ j = Len(log) + 1
      /\ Len(log) + 1 \notin 1..Len(log)
  BY <1>2
<1> QED
  BY <1>1, <1>3, <1>4

(* It adds to the windows it is in, and to its day.                        *)
LEMMA OneMoreCall ==
  ASSUME AccessTyped, NEW n \in Clients, log' = Append(log, [client |-> n, at |-> now])
  PROVE  /\ \A c, first :
              /\ CallersAround(c, first) \subseteq CallersAround(c, first)'
              /\ c = n /\ now \in first..(first + WindowMs - 1) =>
                   Cardinality(CallsIn(c, first)') = Cardinality(CallsIn(c, first)) + 1
              /\ ~ (c = n /\ now \in first..(first + WindowMs - 1)) =>
                   CallsIn(c, first)' = CallsIn(c, first)
         /\ \A day :
              /\ now \div Day = day =>
                   Cardinality(OfDay(day)') = Cardinality(OfDay(day)) + 1
              /\ now \div Day # day => OfDay(day)' = OfDay(day)
<1> DEFINE more == Len(log) + 1
<1>1. /\ DOMAIN log' = 1..more /\ DOMAIN log = 1..Len(log)
      /\ log'[more].client = n /\ log'[more].at = now
      /\ \A j \in 1..Len(log) : log'[j] = log[j]
      /\ \A j : j \in 1..more <=> j \in 1..Len(log) \/ j = more
      /\ more \notin 1..Len(log) /\ Len(log') = more
  BY OneMoreRow, AccessLogRows
<1> HIDE DEF more
<1>2. ASSUME NEW c, NEW first
      PROVE  /\ c = n /\ now \in first..(first + WindowMs - 1) =>
                  CallsIn(c, first)' = CallsIn(c, first) \union {more}
             /\ ~ (c = n /\ now \in first..(first + WindowMs - 1)) =>
                  CallsIn(c, first)' = CallsIn(c, first)
             /\ more \notin CallsIn(c, first)
  BY <1>1 DEF CallsIn, Access!CallsOf
<1>3. ASSUME NEW c, NEW first, c = n, now \in first..(first + WindowMs - 1)
      PROVE  Cardinality(CallsIn(c, first)') = Cardinality(CallsIn(c, first)) + 1
  <2>1. IsFiniteSet(CallsIn(c, first))
    BY CallsFinite
  <2> QED
    BY <1>2, <1>3, <2>1, FS_AddElement
<1>4. ASSUME NEW day
      PROVE  /\ now \div Day = day => OfDay(day)' = OfDay(day) \union {more}
             /\ now \div Day # day => OfDay(day)' = OfDay(day)
             /\ more \notin OfDay(day)
  BY <1>1 DEF OfDay
<1>5. ASSUME NEW day, now \div Day = day
      PROVE  Cardinality(OfDay(day)') = Cardinality(OfDay(day)) + 1
  <2>1. IsFiniteSet(OfDay(day))
    BY CallsFinite
  <2> QED
    BY <1>4, <1>5, <2>1, FS_AddElement
<1>6. ASSUME NEW c, NEW first
      PROVE  CallersAround(c, first) \subseteq CallersAround(c, first)'
  <2>1. \A x : Access!CallsOf(x) \subseteq Access!CallsOf(x)'
    BY <1>1 DEF Access!CallsOf
  <2>2. \A x, i : i \in Access!CallsOf(x) => log'[i] = log[i]
    BY <1>1 DEF Access!CallsOf
  <2> QED
    BY <2>1, <2>2 DEF CallersAround
<1> QED
  BY <1>2, <1>3, <1>4, <1>5, <1>6

(* A crowd does not go away.                                               *)
LEMMA CallCrowdsGrow ==
  ASSUME AccessTyped, AccessTyped', Access!PublicAccessAssumption,
         NEW n \in Clients, log' = Append(log, [client |-> n, at |-> now])
  PROVE  \A client, first : CallsCrowded(client, first) => CallsCrowded(client, first)'
<1> SUFFICES ASSUME NEW client, NEW first, CallsCrowded(client, first)
             PROVE  CallsCrowded(client, first)'
  OBVIOUS
<1>1. CallersAround(client, first) \subseteq CallersAround(client, first)'
  BY OneMoreCall
<1>2. IsFiniteSet(CallersAround(client, first)') /\ Cardinality(CallersAround(client, first)') \in Nat
  BY CallersAroundFiniteNext DEF CallersFinite
<1>3. Cardinality(CallersAround(client, first)) <= Cardinality(CallersAround(client, first)')
  BY <1>1, <1>2, FS_Subset
<1>4. Cardinality(CallersAround(client, first)) \in Nat
  BY CallersAroundFinite DEF CallersFinite
<1> QED
  BY <1>2, <1>3, <1>4, AccessConstants DEF CallsCrowded

----------------------------------------------------------------------------
(* The windows.                                                            *)

LEMMA WindowTyped ==
  ASSUME AccessTyped, Access!PublicAccessAssumption, NEW client
  PROVE  /\ Access!Window(client) \in [startedAt : Nat, count : Nat]
         /\ Access!Window(client).startedAt <= now
         /\ now < Access!Window(client).startedAt + WindowMs
         /\ Access!Window(client).count <= RequestsPerWindow
         /\ ~ Holds(clients, client) => Access!Window(client) = [startedAt |-> now, count |-> 0]
<1>1. CASE Holds(clients, client) /\ now - Get(clients, client).startedAt < WindowMs
  <2>1. PICK i \in DOMAIN clients : clients[i].key = client /\ Get(clients, client) = clients[i].value
    BY <1>1, HeldEntry DEF AccessTyped
  <2>2. clients[i] \in ClientWindow
    BY MapDef DEF AccessTyped
  <2>3. Get(clients, client) \in [startedAt : Nat, count : Nat]
    BY <2>1, <2>2 DEF ClientWindow
  <2>4. /\ Get(clients, client).startedAt <= now
        /\ Get(clients, client).count <= RequestsPerWindow
    BY <1>1 DEF AccessTyped, Holds
  <2>5. Access!Window(client) = Get(clients, client)
    BY <1>1, AccessMaps DEF Access!Window
  <2> QED
    BY <1>1, <2>3, <2>4, <2>5, AccessConstants DEF AccessTyped
<1>2. CASE ~ (Holds(clients, client) /\ now - Get(clients, client).startedAt < WindowMs)
  <2>1. Access!Window(client) = [startedAt |-> now, count |-> 0]
    BY <1>2, AccessMaps DEF Access!Window
  <2> QED
    BY <2>1, AccessConstants DEF AccessTyped
<1> QED
  BY <1>1, <1>2

OpenFrom(first) == first <= now /\ now < first + WindowMs

(* What is accounted for is within the budget.                             *)
AccountedIsWithin ==
  \A client : AccessTyped /\ CallsAccounted(client) =>
    \A first \in Nat : OpenFrom(first) /\ ~ CallsCrowded(client, first) =>
      Cardinality(CallsIn(client, first)) < 2 * RequestsPerWindow

LEMMA AccountedIsWithinHolds == ASSUME Access!PublicAccessAssumption PROVE AccountedIsWithin
<1> SUFFICES ASSUME NEW client, AccessTyped, CallsAccounted(client), NEW first \in Nat,
                    OpenFrom(first), ~ CallsCrowded(client, first)
             PROVE  Cardinality(CallsIn(client, first)) < 2 * RequestsPerWindow
  BY DEF AccountedIsWithin
<1> DEFINE w == Access!Window(client)
<1>1. w.startedAt \in Nat /\ w.count \in Nat /\ w.count <= RequestsPerWindow
  BY WindowTyped
<1>2. /\ first <= w.startedAt =>
           Cardinality(CallsIn(client, first)) <= RequestsPerWindow - 1 + w.count
      /\ first > w.startedAt => Cardinality(CallsIn(client, first)) <= w.count - 1
  BY DEF CallsAccounted, OpenFrom
<1>3. Cardinality(CallsIn(client, first)) \in Nat /\ RequestsPerWindow \in Nat \ {0}
  BY CallsFinite, AccessConstants
<1> HIDE DEF w
<1> QED
  BY <1>1, <1>2, <1>3

LEMMA AccountedIsWithinNext == ASSUME Access!PublicAccessAssumption PROVE AccountedIsWithin'
<1>1. AccountedIsWithin
  BY AccountedIsWithinHolds
<1> QED
  BY <1>1, PTL

----------------------------------------------------------------------------
(* A metered call.                                                         *)

(* What a metered call of client n does.                                   *)
Passing(n) ==
  /\ Access!LimiterAllows(n)
  /\ clients' = SetBounded(clients, n, [Access!Window(n) EXCEPT !.count = @ + 1], MaxTrackedClients)
  /\ dailyKey' = Access!Today
  /\ dailyCount' = Access!CountToday + 1
  /\ log' = Append(log, [client |-> n, at |-> now])
  /\ UNCHANGED now

(* The window of the client counts the call; the others keep theirs or     *)
(* are forgotten, the one that called first of all the others.             *)
LEMMA PassingClients ==
  ASSUME Access!PublicAccessAssumption, AccessTyped, NEW n \in Clients, Passing(n)
  PROVE  /\ clients' \in MapsOf(ClientWindow)
         /\ Holds(clients', n)
         /\ Get(clients', n).startedAt = Access!Window(n).startedAt
         /\ Get(clients', n).count = Access!Window(n).count + 1
         /\ Access!Window(n).count < RequestsPerWindow
         /\ \A x : x # n /\ Holds(clients', x) =>
              Holds(clients, x) /\ Get(clients', x) = Get(clients, x)
         /\ \A a, b : Before(clients', a, b) => a # n /\ (b = n \/ Before(clients, a, b))
         /\ \A x : x # n /\ Holds(clients, x) /\ ~ Holds(clients', x) =>
              /\ \A y : y # n /\ y # x /\ Holds(clients, y) => Before(clients, x, y)
              /\ Cardinality(KeysOf(clients) \ {n}) >= MaxTrackedClients
<1> DEFINE w == Access!Window(n)
<1> DEFINE v == [w EXCEPT !.count = @ + 1]
<1>1. w \in [startedAt : Nat, count : Nat]
  BY WindowTyped
<1>2. w.count < RequestsPerWindow
  BY DEF Passing, Access!LimiterAllows
<1> HIDE DEF w
<1>3. v \in [startedAt : Nat, count : Nat \ {0}] /\ v.startedAt = w.startedAt /\ v.count = w.count + 1
  BY <1>1
<1>4. clients' = SetBounded(clients, n, v, MaxTrackedClients)
  BY DEF Passing, w
<1> HIDE DEF v
<1>5. [key |-> n, value |-> v] \in ClientWindow
  BY <1>3 DEF ClientWindow
<1>6. clients \in MapsOf(ClientWindow) /\ MaxTrackedClients \in Nat \ {0}
  BY AccessConstants DEF AccessTyped
<1> DEFINE s == SetBounded(clients, n, v, MaxTrackedClients)
<1>7. /\ s \in MapsOf(ClientWindow) /\ Holds(s, n) /\ Get(s, n) = v
      /\ \A x : x # n /\ Holds(s, x) => Holds(clients, x) /\ Get(s, x) = Get(clients, x)
      /\ \A a, b : Before(s, a, b) => a # n /\ (b = n \/ Before(clients, a, b))
      /\ \A x : x # n /\ Holds(clients, x) /\ ~ Holds(s, x) =>
           /\ \A y : y # n /\ y # x /\ Holds(clients, y) => Before(clients, x, y)
           /\ Cardinality(KeysOf(clients) \ {n}) >= MaxTrackedClients
  BY <1>5, <1>6, SetBoundedEntries
<1>8. clients' = s
  BY <1>4
<1> HIDE DEF s
<1> QED
  BY <1>2, <1>3, <1>7, <1>8 DEF w

LEMMA PassingTyped ==
  ASSUME Access!PublicAccessAssumption, AccessTyped, NEW n \in Clients, Passing(n)
  PROVE  AccessTyped'
<1>1. now \in Nat /\ now' = now
  BY DEF AccessTyped, Passing
<1>2. ASSUME NEW c \in KeysOf(clients')
      PROVE  Get(clients', c).startedAt <= now /\ Get(clients', c).count <= RequestsPerWindow
  <2>1. CASE c = n
    <3>1. /\ Access!Window(n).startedAt <= now
          /\ Access!Window(n) \in [startedAt : Nat, count : Nat]
      BY WindowTyped
    <3>2. /\ Get(clients', c).startedAt = Access!Window(n).startedAt
          /\ Get(clients', c).count = Access!Window(n).count + 1
          /\ Access!Window(n).count < RequestsPerWindow
      BY <2>1, PassingClients
    <3> QED
      BY <3>1, <3>2, AccessConstants
  <2>2. CASE c # n
    <3>1. Holds(clients, c) /\ Get(clients', c) = Get(clients, c)
      BY <2>2, PassingClients DEF Holds
    <3> QED
      BY <3>1 DEF AccessTyped, Holds
  <2> QED
    BY <2>1, <2>2
<1>3. log' = Append(log, [client |-> n, at |-> now])
  BY DEF Passing
<1>4. ASSUME NEW i \in 1..Len(log'), NEW j \in 1..Len(log'), i <= j
      PROVE  log'[i].at <= log'[j].at /\ log'[j].at <= now
  <2>1. /\ log'[Len(log) + 1].at = now /\ \A k \in 1..Len(log) : log'[k] = log[k]
        /\ \A k : k \in 1..Len(log') <=> k \in 1..Len(log) \/ k = Len(log) + 1
    BY <1>3, OneMoreRow
  <2>2. \A k \in 1..Len(log) : k <= k /\ log[k].at \in Nat
    BY AccessLogRows
  <2>3. \A k \in 1..Len(log) : log[k].at <= now
    BY <2>2 DEF AccessTyped
  <2>4. CASE j = Len(log) + 1
    BY <1>1, <2>1, <2>3, <2>4
  <2>5. CASE j # Len(log) + 1
    <3>1. j \in 1..Len(log) /\ i \in 1..Len(log)
      BY <1>4, <2>1, <2>5, AccessLogRows
    <3> QED
      BY <1>4, <2>1, <3>1 DEF AccessTyped
  <2> QED
    BY <2>4, <2>5
<1>5. log' \in Seq([client : Clients, at : Nat])
  BY <1>3, OneMoreRow
<1> QED
  BY <1>1, <1>2, <1>4, <1>5, PassingClients DEF AccessTyped

LEMMA PassingOrdered ==
  ASSUME Access!PublicAccessAssumption, AccessTyped, LastCallsOrdered, NEW n \in Clients, Passing(n)
  PROVE  LastCallsOrdered'
<1> SUFFICES ASSUME NEW a \in Clients, NEW b \in Clients, Before(clients', a, b),
                    NEW i \in 1..Len(log'), log'[i].client = a
             PROVE  \E j \in 1..Len(log') : i <= j /\ log'[j].client = b
  BY DEF LastCallsOrdered
<1>1. /\ log'[Len(log) + 1].client = n /\ \A k \in 1..Len(log) : log'[k] = log[k]
      /\ \A k : k \in 1..Len(log') <=> k \in 1..Len(log) \/ k = Len(log) + 1
  BY OneMoreRow DEF Passing
<1>2. a # n /\ (b = n \/ Before(clients, a, b))
  BY PassingClients
<1>3. i \in 1..Len(log) /\ log[i].client = a
  BY <1>1, <1>2
<1>4. CASE b = n
  <2>1. i <= Len(log) + 1
    BY <1>3, AccessLogRows
  <2> QED
    BY <1>1, <1>4, <2>1
<1>5. CASE Before(clients, a, b)
  <2>1. PICK j \in 1..Len(log) : i <= j /\ log[j].client = b
    BY <1>3, <1>5 DEF LastCallsOrdered
  <2> QED
    BY <1>1, <2>1
<1> QED
  BY <1>2, <1>4, <1>5

(* A client is forgotten in a crowd only, if it called in the window.      *)
LEMMA ForgottenInCrowd ==
  ASSUME Access!PublicAccessAssumption, AccessTyped, AccessTyped', LastCallsOrdered,
         NEW n \in Clients, Passing(n), NEW client \in Clients, client # n,
         Holds(clients, client), ~ Holds(clients', client),
         NEW first \in Nat, OpenFrom(first), NEW i \in CallsIn(client, first)
  PROVE  CallsCrowded(client, first)'
<1> DEFINE others == (KeysOf(clients) \ {n}) \ {client}
<1> DEFINE all == others \union {n}
<1>1. /\ Cardinality(KeysOf(clients) \ {n}) >= MaxTrackedClients
      /\ \A y \in others : Before(clients, client, y)
  BY PassingClients DEF Holds
<1>2. IsFiniteSet(KeysOf(clients))
  BY KeysCardinality DEF AccessTyped
<1>3. IsFiniteSet(KeysOf(clients) \ {n}) /\ client \in KeysOf(clients) \ {n}
  BY <1>2, FS_Subset DEF Holds
<1>4. IsFiniteSet(all) /\ Cardinality(all) = Cardinality(KeysOf(clients) \ {n})
  <2> DEFINE K == KeysOf(clients) \ {n}
  <2>1. IsFiniteSet(K) /\ client \in K /\ others = K \ {client} /\ n \notin others
    BY <1>3
  <2> HIDE DEF K, others
  <2>2. IsFiniteSet(K \ {client}) /\ Cardinality(K \ {client}) = Cardinality(K) - 1
        /\ Cardinality(K) \in Nat
    BY <2>1, FS_RemoveElement, FS_CardinalityType
  <2>3. IsFiniteSet(others \union {n}) /\ Cardinality(others \union {n}) = Cardinality(others) + 1
    BY <2>1, <2>2, FS_AddElement
  <2>4. \A k \in Nat : k - 1 + 1 = k
    OBVIOUS
  <2> QED
    BY <2>1, <2>2, <2>3, <2>4 DEF K
<1>5. WindowMs \in Nat \ {0} /\ now \in Nat /\ Len(log) \in Nat /\ now' = now
  BY AccessConstants, AccessLogRows DEF AccessTyped, Passing
<1>6. /\ DOMAIN log' = 1..(Len(log) + 1) /\ DOMAIN log = 1..Len(log)
      /\ log'[Len(log) + 1].client = n /\ log'[Len(log) + 1].at = now
      /\ \A k \in 1..Len(log) : log'[k] = log[k]
  BY OneMoreRow, AccessLogRows DEF Passing
<1>7. i \in 1..Len(log) /\ log[i].client = client /\ log[i].at \in first..(first + WindowMs - 1)
  BY <1>6 DEF CallsIn, Access!CallsOf
<1>8. n \in CallersAround(client, first)'
  <2>1. now \in (first - WindowMs + 1)..(first + WindowMs - 1)
    BY <1>5 DEF OpenFrom
  <2>2. Len(log) + 1 \in DOMAIN log'
    BY <1>5, <1>6
  <2>3. Len(log) + 1 \in Access!CallsOf(n)'
    BY <1>6, <2>2 DEF Access!CallsOf
  <2> QED
    BY <1>6, <2>1, <2>3 DEF CallersAround
<1>9. ASSUME NEW y \in others
      PROVE  y \in CallersAround(client, first)'
  <2>1. y \in Clients
    <3>1. PICK q \in DOMAIN clients : clients[q].key = y
      BY DEF KeysOf
    <3>2. clients[q] \in ClientWindow
      BY MapDef DEF AccessTyped
    <3> QED
      BY <3>1, <3>2 DEF ClientWindow
  <2>2. PICK j \in 1..Len(log) : i <= j /\ log[j].client = y
    BY <1>1, <1>7, <2>1 DEF LastCallsOrdered
  <2>3. log[i].at <= log[j].at /\ log[j].at <= now /\ log[j].at \in Nat /\ log[i].at \in Nat
    BY <1>7, <2>2, AccessLogRows DEF AccessTyped
  <2>4. log[j].at \in (first - WindowMs + 1)..(first + WindowMs - 1)
    BY <1>5, <1>7, <2>3 DEF OpenFrom
  <2>5. j \in DOMAIN log' /\ log'[j] = log[j]
    BY <1>5, <1>6
  <2>6. j \in Access!CallsOf(y)'
    BY <2>2, <2>5 DEF Access!CallsOf
  <2> QED
    BY <2>1, <2>4, <2>5, <2>6 DEF CallersAround
<1>10. all \subseteq CallersAround(client, first)'
  BY <1>8, <1>9
<1>11. /\ IsFiniteSet(CallersAround(client, first)')
       /\ Cardinality(CallersAround(client, first)') \in Nat
  BY CallersAroundFiniteNext DEF CallersFinite
<1>12. Cardinality(KeysOf(clients) \ {n}) \in Nat
  BY <1>3, FS_CardinalityType
<1> HIDE DEF all, others
<1>13. Cardinality(all) <= Cardinality(CallersAround(client, first)')
  BY <1>10, <1>11, FS_Subset
<1> QED
  BY <1>1, <1>4, <1>11, <1>12, <1>13, AccessConstants DEF CallsCrowded

LEMMA PassingAccounted ==
  ASSUME Access!PublicAccessAssumption, AccessTyped, AccessTyped', LastCallsOrdered,
         NEW n \in Clients, Passing(n), NEW client \in Clients, CallsAccounted(client)
  PROVE  CallsAccounted(client)'
<1> DEFINE w == Access!Window(client)
<1> DEFINE v == Access!Window(client)'
<1>1. SUFFICES ASSUME NEW first \in Nat, OpenFrom(first), ~ CallsCrowded(client, first)'
               PROVE
        /\ first <= v.startedAt =>
             Cardinality(CallsIn(client, first)') <= RequestsPerWindow - 1 + v.count
        /\ first > v.startedAt => Cardinality(CallsIn(client, first)') <= v.count - 1
  BY DEF CallsAccounted, OpenFrom, Passing
<1>2. log' = Append(log, [client |-> n, at |-> now]) /\ now' = now
  BY DEF Passing
<1>3. ~ CallsCrowded(client, first)
  BY <1>1, <1>2, CallCrowdsGrow
<1>4. /\ w.startedAt \in Nat /\ w.count \in Nat /\ w.startedAt <= now
      /\ now < w.startedAt + WindowMs
  BY WindowTyped
<1>5. /\ first <= w.startedAt =>
           Cardinality(CallsIn(client, first)) <= RequestsPerWindow - 1 + w.count
      /\ first > w.startedAt => Cardinality(CallsIn(client, first)) <= w.count - 1
  BY <1>1, <1>3 DEF CallsAccounted, OpenFrom
<1>6. now \in first..(first + WindowMs - 1) /\ first <= now
  BY <1>1, AccessConstants DEF OpenFrom, AccessTyped
<1>7. Cardinality(CallsIn(client, first)) \in Nat /\ RequestsPerWindow \in Nat \ {0}
      /\ WindowMs \in Nat \ {0} /\ now \in Nat
  BY CallsFinite, AccessConstants DEF AccessTyped
<1>8. v = IF Holds(clients', client) /\ now - Get(clients', client).startedAt < WindowMs
            THEN Get(clients', client) ELSE [startedAt |-> now, count |-> 0]
  BY <1>2, AccessMaps DEF Access!Window
<1>9. w = IF Holds(clients, client) /\ now - Get(clients, client).startedAt < WindowMs
            THEN Get(clients, client) ELSE [startedAt |-> now, count |-> 0]
  BY AccessMaps DEF Access!Window
<1>10. CASE client = n
  <2>1. Cardinality(CallsIn(client, first)') = Cardinality(CallsIn(client, first)) + 1
    BY <1>2, <1>6, <1>10, OneMoreCall
  <2>2. /\ Holds(clients', client) /\ Get(clients', client).startedAt = w.startedAt
        /\ Get(clients', client).count = w.count + 1
    BY <1>10, PassingClients
  <2> HIDE DEF v, w
  <2>3. v.startedAt = w.startedAt /\ v.count = w.count + 1
    BY <1>4, <1>7, <1>8, <2>2
  <2> QED
    BY <1>4, <1>5, <1>7, <2>1, <2>3
<1>11. CASE client # n
  <2>1. CallsIn(client, first)' = CallsIn(client, first)
    BY <1>2, <1>11, OneMoreCall
  <2>2. CASE Holds(clients', client)
    <3>1. Holds(clients, client) /\ Get(clients', client) = Get(clients, client)
      BY <1>11, <2>2, PassingClients
    <3> HIDE DEF v, w
    <3>2. v = w
      BY <1>8, <1>9, <2>2, <3>1
    <3> QED
      BY <1>5, <2>1, <3>2
  <2>3. CASE ~ Holds(clients', client) /\ ~ Holds(clients, client)
    <3> HIDE DEF v, w
    <3>1. v = w
      BY <1>8, <1>9, <2>3
    <3> QED
      BY <1>5, <2>1, <3>1
  <2>4. CASE ~ Holds(clients', client) /\ Holds(clients, client)
    <3>1. CallsIn(client, first) = {}
      BY <1>1, <1>11, <2>4, ForgottenInCrowd
    <3>2. Cardinality(CallsIn(client, first)') = 0
      BY <2>1, <3>1, FS_EmptySet
    <3> HIDE DEF v
    <3>3. v.startedAt = now /\ v.count = 0
      BY <1>8, <2>4
    <3> QED
      BY <1>6, <1>7, <3>2, <3>3
  <2> QED
    BY <2>2, <2>3, <2>4
<1> QED
  BY <1>10, <1>11

LEMMA PassingWithin ==
  ASSUME Access!PublicAccessAssumption, AccessTyped, AccessTyped',
         NEW n \in Clients, Passing(n), NEW client \in Clients, CallsWithinBudget(client),
         CallsAccounted(client)'
  PROVE  CallsWithinBudget(client)'
<1>1. SUFFICES ASSUME NEW first \in Nat, first <= now, ~ CallsCrowded(client, first)'
               PROVE  Cardinality(CallsIn(client, first)') < 2 * RequestsPerWindow
  BY DEF CallsWithinBudget, Passing
<1>2. log' = Append(log, [client |-> n, at |-> now]) /\ now' = now
  BY DEF Passing
<1>3. CASE OpenFrom(first)
  <2>1. OpenFrom(first)'
    BY <1>2, <1>3 DEF OpenFrom
  <2> QED
    BY <1>1, <2>1, AccountedIsWithinNext DEF AccountedIsWithin
<1>4. CASE ~ OpenFrom(first)
  <2>1. now \notin first..(first + WindowMs - 1)
    BY <1>1, <1>4, AccessConstants DEF OpenFrom, AccessTyped
  <2>2. CallsIn(client, first)' = CallsIn(client, first)
    BY <1>2, <2>1, OneMoreCall
  <2>3. ~ CallsCrowded(client, first)
    BY <1>1, <1>2, CallCrowdsGrow
  <2> QED
    BY <1>1, <2>2, <2>3 DEF CallsWithinBudget
<1> QED
  BY <1>3, <1>4

----------------------------------------------------------------------------
(* Days.                                                                   *)

(* The day of an earlier time is not later.                                *)
LEMMA DaysGrow ==
  ASSUME Access!PublicAccessAssumption
  PROVE  /\ \A a \in Nat : a \div Day \in Nat
         /\ \A a, b \in Nat : a <= b => a \div Day <= b \div Day
<1>1. Day \in Nat /\ Day > 0
  BY AccessConstants
<1>2. ASSUME NEW a \in Nat
      PROVE  a \div Day \in Nat
  BY <1>1
<1>3. ASSUME NEW a \in Nat, NEW b \in Nat, a <= b
      PROVE  a \div Day <= b \div Day
  BY <1>1, <1>3
<1> QED
  BY <1>2, <1>3

LEMMA PassingDays ==
  ASSUME Access!PublicAccessAssumption, AccessTyped, DaysCounted, NEW n \in Clients, Passing(n)
  PROVE  DaysCounted'
<1>1. /\ dailyKey' = Access!Today /\ dailyCount' = Access!CountToday + 1
      /\ Access!CountToday < DailyLimit /\ now' = now
      /\ log' = Append(log, [client |-> n, at |-> now])
  BY DEF Passing, Access!LimiterAllows
<1>2. DailyLimit \in Nat /\ Access!CountToday \in Nat
  BY AccessConstants DEF DaysCounted, Access!CountToday
<1>3. Access!Today' = Access!Today /\ Access!Today = now \div Day /\ Access!Today \in Nat
  BY <1>1, DaysGrow DEF Access!Today, AccessTyped
<1>4. Access!CountToday' = Access!CountToday + 1
  BY <1>1, <1>3 DEF Access!CountToday
<1>5. ASSUME NEW day, day = Access!Today
      PROVE  Cardinality(OfDay(day)') = Access!CountToday + 1
  <2>1. Cardinality(OfDay(day)') = Cardinality(OfDay(day)) + 1
    BY <1>1, <1>3, <1>5, OneMoreCall
  <2>2. Cardinality(OfDay(day)) = Access!CountToday
    BY <1>5 DEF DaysCounted
  <2> QED
    BY <2>1, <2>2
<1>6. ASSUME NEW day \in Nat
      PROVE  Cardinality(OfDay(day)') <= DailyLimit
  <2>1. CASE day = Access!Today
    BY <1>1, <1>2, <1>5, <2>1
  <2>2. CASE day # Access!Today
    <3>1. OfDay(day)' = OfDay(day)
      BY <1>1, <1>3, <2>2, OneMoreCall
    <3> QED
      BY <3>1 DEF DaysCounted
  <2> QED
    BY <2>1, <2>2
<1>8. Cardinality(OfDay(Access!Today)') = Access!CountToday'
  <2>1. PICK day : day = Access!Today
    OBVIOUS
  <2>2. Cardinality(OfDay(day)') = Access!CountToday + 1
    BY <1>5, <2>1
  <2>3. OfDay(day)' = OfDay(Access!Today)'
    BY <1>3, <2>1 DEF OfDay
  <2> QED
    BY <1>4, <2>2, <2>3
<1>9. /\ dailyCount' \in Nat /\ dailyCount' <= DailyLimit
      /\ dailyKey' \in Nat /\ dailyKey' <= Access!Today'
  BY <1>1, <1>2, <1>3
<1> QED
  BY <1>3, <1>6, <1>8, <1>9 DEF DaysCounted

(* Time passes: a day starts with no call in it.                           *)
LEMMA TickDays ==
  ASSUME Access!PublicAccessAssumption, AccessTyped, DaysCounted, Access!Tick
  PROVE  DaysCounted'
<1>1. now' = now + 1 /\ UNCHANGED <<clients, dailyKey, dailyCount, log>>
  BY DEF Access!Tick
<1>2. \A day : OfDay(day)' = OfDay(day)
  BY <1>1 DEF OfDay
<1>3. /\ Access!Today \in Nat /\ Access!Today' \in Nat /\ Access!Today <= Access!Today'
      /\ Access!Today = now \div Day
  <2>1. now \in Nat /\ now + 1 \in Nat /\ now <= now + 1
    BY DEF AccessTyped
  <2> QED
    BY <1>1, <2>1, DaysGrow DEF Access!Today
<1>4. ASSUME NEW day, day = Access!Today'
      PROVE  Cardinality(OfDay(day)) = Access!CountToday'
  <2>1. CASE day = Access!Today
    <3>1. Access!CountToday' = Access!CountToday
      BY <1>1, <1>4, <2>1 DEF Access!CountToday
    <3> QED
      BY <2>1, <3>1 DEF DaysCounted
  <2>2. CASE day # Access!Today
    <3>1. Access!Today < day /\ day \in Nat
      BY <1>3, <1>4, <2>2
    <3>2. ASSUME NEW i \in 1..Len(log)
          PROVE  log[i].at \div Day # day
      <4>1. log[i].at \in Nat /\ log[i].at <= now /\ now \in Nat
        <5>1. i <= i
          BY AccessLogRows
        <5> QED
          BY <5>1, AccessLogRows DEF AccessTyped
      <4>2. log[i].at \div Day <= Access!Today /\ log[i].at \div Day \in Nat
        BY <1>3, <4>1, DaysGrow
      <4> QED
        BY <1>3, <3>1, <4>2
    <3>3. OfDay(day) = {}
      BY <3>2 DEF OfDay
    <3>4. Cardinality(OfDay(day)) = 0
      BY <3>3, FS_EmptySet
    <3>5. Access!CountToday' = 0
      BY <1>1, <1>3, <1>4, <3>1 DEF Access!CountToday, DaysCounted
    <3> QED
      BY <3>4, <3>5
  <2> QED
    BY <2>1, <2>2
<1>5. Cardinality(OfDay(Access!Today)') = Access!CountToday'
  <2>1. PICK day : day = Access!Today'
    OBVIOUS
  <2>2. Cardinality(OfDay(day)) = Access!CountToday'
    BY <1>4, <2>1
  <2>3. OfDay(day) = OfDay(Access!Today)'
    BY <1>1, <2>1 DEF OfDay
  <2> QED
    BY <2>2, <2>3
<1>6. dailyCount' # 0 => dailyKey' \in Nat /\ dailyKey' <= Access!Today'
  BY <1>1, <1>3 DEF DaysCounted
<1>7. \A day \in Nat : Cardinality(OfDay(day)') <= DailyLimit
  BY <1>2 DEF DaysCounted
<1> QED
  BY <1>1, <1>5, <1>6, <1>7 DEF DaysCounted

(* A refused call starts the count of its day.                             *)
LEMMA RefusedDays ==
  ASSUME Access!PublicAccessAssumption, AccessTyped, DaysCounted,
         Access!RefuseCall, UNCHANGED <<now, log>>
  PROVE  DaysCounted'
<1>1. dailyKey' = Access!Today /\ dailyCount' = Access!CountToday
  BY DEF Access!RefuseCall
<1>2. Access!Today' = Access!Today /\ Access!Today \in Nat
  BY DaysGrow DEF Access!Today, AccessTyped
<1>3. Access!CountToday' = Access!CountToday
  BY <1>1, <1>2 DEF Access!CountToday
<1>4. /\ Access!CountToday \in Nat /\ Access!CountToday <= DailyLimit
  BY AccessConstants DEF DaysCounted, Access!CountToday
<1>5. \A day : OfDay(day)' = OfDay(day)
  BY DEF OfDay
<1>6. Cardinality(OfDay(Access!Today)') = Access!CountToday'
  <2>1. OfDay(Access!Today)' = OfDay(Access!Today)
    BY <1>2 DEF OfDay
  <2> QED
    BY <1>3, <2>1 DEF DaysCounted
<1>7. \A day \in Nat : Cardinality(OfDay(day)') <= DailyLimit
  BY <1>5 DEF DaysCounted
<1>8. dailyKey' \in Nat /\ dailyKey' <= Access!Today'
  BY <1>1, <1>2
<1> QED
  BY <1>1, <1>4, <1>6, <1>7, <1>8 DEF DaysCounted

----------------------------------------------------------------------------
(* The limiter.                                                            *)

(* Time passes: windows end, and one starts with no call in it.            *)
LEMMA TickAccounted ==
  ASSUME Access!PublicAccessAssumption, AccessTyped, Access!Tick,
         NEW client \in Clients, CallsAccounted(client), CallsWithinBudget(client)
  PROVE  CallsAccounted(client)' /\ CallsWithinBudget(client)'
<1> DEFINE w == Access!Window(client)
<1> DEFINE v == Access!Window(client)'
<1>1. now' = now + 1 /\ UNCHANGED <<clients, log>>
  BY DEF Access!Tick
<1>2. \A first : /\ CallsIn(client, first)' = CallsIn(client, first)
                 /\ CallsCrowded(client, first)' <=> CallsCrowded(client, first)
  BY <1>1 DEF CallsIn, Access!CallsOf, CallsCrowded, CallersAround
<1>3. now \in Nat /\ RequestsPerWindow \in Nat \ {0} /\ WindowMs \in Nat \ {0}
  BY AccessConstants DEF AccessTyped
<1>4. Cardinality(CallsIn(client, now + 1)) = 0
  <2>1. \A i \in DOMAIN log : log[i].at \in Nat /\ log[i].at <= now
    <3>1. \A i \in 1..Len(log) : i <= i
      BY AccessLogRows
    <3> QED
      BY <3>1, AccessLogRows DEF AccessTyped
  <2>2. CallsIn(client, now + 1) = {}
    BY <1>3, <2>1 DEF CallsIn, Access!CallsOf
  <2> QED
    BY <2>2, FS_EmptySet
<1>5. /\ w.startedAt \in Nat /\ w.count \in Nat /\ w.startedAt <= now
      /\ now < w.startedAt + WindowMs /\ w.count <= RequestsPerWindow
  BY WindowTyped
<1>6. (v = w /\ w.count # 0) \/ (v.startedAt = now + 1 /\ v.count = 0 /\ w.startedAt + WindowMs <= now + 1)
                            \/ (v.startedAt = now + 1 /\ v.count = 0 /\ w.startedAt = now /\ w.count = 0)
  <2>1. v = IF Holds(clients, client) /\ (now + 1) - Get(clients, client).startedAt < WindowMs
              THEN Get(clients, client) ELSE [startedAt |-> now + 1, count |-> 0]
    BY <1>1, AccessMaps DEF Access!Window
  <2>2. w = IF Holds(clients, client) /\ now - Get(clients, client).startedAt < WindowMs
              THEN Get(clients, client) ELSE [startedAt |-> now, count |-> 0]
    BY AccessMaps DEF Access!Window
  <2> HIDE DEF v, w
  <2>3. CASE ~ Holds(clients, client)
    BY <2>1, <2>2, <2>3
  <2>4. CASE Holds(clients, client)
    <3>1. Get(clients, client).startedAt \in Nat /\ Get(clients, client).count # 0
      <4>1. PICK i \in DOMAIN clients :
              clients[i].key = client /\ Get(clients, client) = clients[i].value
        BY <2>4, HeldEntry DEF AccessTyped
      <4>2. clients[i] \in ClientWindow
        BY MapDef DEF AccessTyped
      <4> QED
        BY <4>1, <4>2 DEF ClientWindow
    <3> QED
      BY <1>3, <2>1, <2>2, <2>4, <3>1
  <2> QED
    BY <2>3, <2>4
<1>7. CallsAccounted(client)'
  <2>1. SUFFICES ASSUME NEW first \in Nat, first <= now + 1, now + 1 < first + WindowMs,
                        ~ CallsCrowded(client, first)
                 PROVE
          /\ first <= v.startedAt =>
               Cardinality(CallsIn(client, first)) <= RequestsPerWindow - 1 + v.count
          /\ first > v.startedAt => Cardinality(CallsIn(client, first)) <= v.count - 1
    BY <1>1, <1>2 DEF CallsAccounted
  <2>2. Cardinality(CallsIn(client, first)) \in Nat
    BY CallsFinite
  <2>3. first # now + 1 =>
          /\ first <= w.startedAt =>
               Cardinality(CallsIn(client, first)) <= RequestsPerWindow - 1 + w.count
          /\ first > w.startedAt => Cardinality(CallsIn(client, first)) <= w.count - 1
    BY <1>3, <2>1 DEF CallsAccounted
  <2>4. first = now + 1 => Cardinality(CallsIn(client, first)) = 0
    BY <1>4
  <2> HIDE DEF v, w
  <2>5. CASE v = w /\ w.count # 0
    <3>1. CASE first = now + 1
      BY <1>3, <1>5, <1>6, <2>1, <2>2, <2>4, <2>5, <3>1
    <3>2. CASE first # now + 1
      BY <2>3, <2>5, <3>2
    <3> QED
      BY <3>1, <3>2
  <2>6. CASE v.startedAt = now + 1 /\ v.count = 0 /\ w.startedAt + WindowMs <= now + 1
    BY <1>3, <1>5, <2>1, <2>2, <2>3, <2>4, <2>6
  <2>7. CASE v.startedAt = now + 1 /\ v.count = 0 /\ w.startedAt = now /\ w.count = 0
    BY <1>3, <1>5, <2>1, <2>2, <2>3, <2>4, <2>7
  <2> QED
    BY <1>6, <2>5, <2>6, <2>7
<1>8. CallsWithinBudget(client)'
  <2>1. ASSUME NEW first \in Nat, first <= now + 1, ~ CallsCrowded(client, first)
        PROVE  Cardinality(CallsIn(client, first)) < 2 * RequestsPerWindow
    <3>1. CASE first = now + 1
      BY <1>3, <1>4, <3>1
    <3>2. CASE first # now + 1
      BY <1>3, <2>1, <3>2 DEF CallsWithinBudget
    <3> QED
      BY <3>1, <3>2
  <2> QED
    BY <1>1, <1>2, <2>1 DEF CallsWithinBudget
<1> QED
  BY <1>7, <1>8

(* A request that reaches neither the limiter nor the log.                 *)
LEMMA AccessUnchanged ==
  ASSUME AccessTyped, LastCallsOrdered, UNCHANGED <<now, clients, log>>
  PROVE  /\ AccessTyped' /\ LastCallsOrdered'
         /\ \A client \in Clients :
              /\ CallsAccounted(client) => CallsAccounted(client)'
              /\ CallsWithinBudget(client) => CallsWithinBudget(client)'
<1>1. AccessTyped' /\ LastCallsOrdered'
  BY DEF AccessTyped, LastCallsOrdered
<1>2. \A client, first : /\ CallsIn(client, first)' = CallsIn(client, first)
                         /\ CallsCrowded(client, first)' <=> CallsCrowded(client, first)
  BY DEF CallsIn, Access!CallsOf, CallsCrowded, CallersAround
<1>3. \A client : Access!Window(client)' = Access!Window(client)
  BY AccessMaps DEF Access!Window
<1> QED
  BY <1>1, <1>2, <1>3 DEF CallsAccounted, CallsWithinBudget

----------------------------------------------------------------------------
(* The grounds.                                                            *)

(* No ground but the token, the limiter or a record is enough to spend     *)
(* once a token is set or the console is public.                           *)
LEMMA GroundsHold ==
  ASSUME NEW r, r.tool \in Access!SpendingTools,
         options.authToken \/ options.publicAssessments,
         NEW ground, ground = Access!Ground(r), ground # "none"
  PROVE  ground \in {"token", "metered"} \/ (ground = "console" /\ r.tool = "record_decision")
<1>1. r.tool \notin Access!PublicStatusTools
  BY DEF Access!SpendingTools, Access!PublicStatusTools
<1>2. r.tool \in Access!PublicAssessmentTools \union Access!PublicBrowserConsoleTools
  BY DEF Access!SpendingTools, Access!PublicAssessmentTools, Access!PublicBrowserConsoleTools
<1>3. r.tool \notin Access!PublicAssessmentTools \union Access!MeteredBrowserConsoleTools =>
        r.tool = "record_decision"
  BY DEF Access!SpendingTools, Access!PublicAssessmentTools, Access!MeteredBrowserConsoleTools
<1> QED
  BY <1>1, <1>2, <1>3 DEF Access!Ground

LEMMA TokenKept ==
  ASSUME NEW r \in Access!Requests, NEW ground, Access!TokenIsNotBypassed, UNCHANGED options,
         Access!Passes(r, ground), ground = Access!Ground(r), ground # "none"
  PROVE  Access!TokenIsNotBypassed'
<1>1. CASE r.tool \in Access!SpendingTools
  <2>1. passed' = [tool |-> r.tool, ground |-> ground]
    BY <1>1 DEF Access!Passes
  <2>2. passed'.tool = r.tool /\ passed'.ground = ground
    BY <2>1
  <2>3. options.authToken \/ options.publicAssessments =>
          ground \in {"token", "metered"} \/ (ground = "console" /\ r.tool = "record_decision")
    BY <1>1, GroundsHold
  <2> QED
    BY <2>2, <2>3 DEF Access!TokenIsNotBypassed
<1>2. CASE r.tool \notin Access!SpendingTools
  BY <1>2 DEF Access!Passes, Access!TokenIsNotBypassed
<1> QED
  BY <1>1, <1>2

----------------------------------------------------------------------------
LEMMA AccessInitInv ==
  ASSUME Access!PublicAccessAssumption
  PROVE  Access!Init => AccessInv
<1> SUFFICES ASSUME Access!Init PROVE AccessInv
  OBVIOUS
<1>1. /\ now = 0 /\ clients = <<>> /\ log = <<>> /\ dailyCount = 0 /\ passed = None
  BY DEF Access!Init
<1>2. AccessTyped
  <2>1. KeysOf(clients) = {}
    BY <1>1 DEF KeysOf
  <2>2. clients \in MapsOf(ClientWindow)
    BY <1>1 DEF MapsOf
  <2> QED
    BY <1>1, <2>1, <2>2 DEF AccessTyped
<1>3. LastCallsOrdered
  BY <1>1 DEF LastCallsOrdered
<1>4. ASSUME NEW client, NEW first
      PROVE  Cardinality(CallsIn(client, first)) = 0
  <2>1. CallsIn(client, first) = {}
    BY <1>1 DEF CallsIn, Access!CallsOf
  <2> QED
    BY <2>1, FS_EmptySet
<1>5. ASSUME NEW day
      PROVE  Cardinality(OfDay(day)) = 0
  <2>1. OfDay(day) = {}
    BY <1>1 DEF OfDay
  <2> QED
    BY <2>1, FS_EmptySet
<1>6. RequestsPerWindow \in Nat \ {0} /\ DailyLimit \in Nat \ {0}
  BY AccessConstants
<1>7. DaysCounted
  BY <1>1, <1>5, <1>6 DEF DaysCounted, Access!CountToday
<1>8. ASSUME NEW client \in Clients
      PROVE  CallsAccounted(client) /\ CallsWithinBudget(client)
  <2>1. ~ Holds(clients, client)
    BY <1>1 DEF Holds, KeysOf
  <2>2. Access!Window(client) = [startedAt |-> 0, count |-> 0]
    BY <1>1, <1>2, <2>1, WindowTyped
  <2> QED
    BY <1>1, <1>4, <1>6, <2>2 DEF CallsAccounted, CallsWithinBudget
<1> QED
  BY <1>1, <1>2, <1>3, <1>7, <1>8 DEF AccessInv, Access!TokenIsNotBypassed

LEMMA AccessStep ==
  ASSUME Access!PublicAccessAssumption, AccessInv, [Access!Next]_(Access!vars)
  PROVE  AccessInv'
<1> USE DEF AccessInv
<1>1. CASE Access!Tick
  <2>1. now' = now + 1 /\ UNCHANGED <<options, clients, log, passed>>
    BY <1>1 DEF Access!Tick
  <2>2. AccessTyped'
    <3>1. \A c \in KeysOf(clients) : Get(clients, c).startedAt <= now + 1
      <4>1. ASSUME NEW c \in KeysOf(clients)
            PROVE  Get(clients, c).startedAt <= now + 1
        <5>1. PICK i \in DOMAIN clients : Get(clients, c) = clients[i].value
          BY HeldEntry DEF AccessTyped, Holds
        <5>2. clients[i] \in ClientWindow
          BY MapDef DEF AccessTyped
        <5> QED
          BY <5>1, <5>2 DEF AccessTyped, ClientWindow
      <4> QED
        BY <4>1
    <3>2. \A i \in 1..Len(log) : log[i].at <= now + 1
      <4>1. \A i \in 1..Len(log) : i <= i /\ log[i].at \in Nat
        BY AccessLogRows
      <4> QED
        BY <4>1 DEF AccessTyped
    <3> QED
      BY <2>1, <3>1, <3>2 DEF AccessTyped
  <2>3. LastCallsOrdered' /\ Access!TokenIsNotBypassed'
    BY <2>1 DEF LastCallsOrdered, Access!TokenIsNotBypassed
  <2> QED
    BY <1>1, <2>2, <2>3, TickDays, TickAccounted
<1>2. ASSUME NEW r \in Access!Requests, Access!Call(r)
      PROVE  AccessInv'
  <2>1. UNCHANGED <<options, now>>
    BY <1>2 DEF Access!Call
  <2>2. r.client \in Clients
    BY DEF Access!Requests
  <2>3. CASE Access!CallMetered(r)
    <3>1. Passing(r.client)
      BY <2>1, <2>3, AccessMaps DEF Access!CallMetered, Access!CountCall, Passing
    <3>2. AccessTyped'
      BY <2>2, <3>1, PassingTyped
    <3>3. LastCallsOrdered' /\ DaysCounted'
      BY <2>2, <3>1, PassingOrdered, PassingDays
    <3>4. Access!TokenIsNotBypassed'
      BY <2>1, <2>3, TokenKept DEF Access!CallMetered
    <3>5. \A client \in Clients : CallsAccounted(client)'
      BY <2>2, <3>1, <3>2, PassingAccounted
    <3>6. \A client \in Clients : CallsWithinBudget(client)'
      BY <2>2, <3>1, <3>2, <3>5, PassingWithin
    <3> QED
      BY <3>2, <3>3, <3>4, <3>5, <3>6
  <2>4. CASE Access!CallOverLimit(r)
    <3>1. Access!RefuseCall /\ UNCHANGED <<now, clients, log, passed>>
      BY <2>1, <2>4 DEF Access!CallOverLimit, Access!RefuseCall
    <3>2. DaysCounted'
      BY <3>1, RefusedDays
    <3>3. Access!TokenIsNotBypassed'
      BY <2>1, <3>1 DEF Access!TokenIsNotBypassed
    <3> QED
      BY <3>1, <3>2, <3>3, AccessUnchanged
  <2>5. CASE Access!CallUnmetered(r)
    <3>1. UNCHANGED <<now, clients, dailyKey, dailyCount, log>>
      BY <2>1, <2>5 DEF Access!CallUnmetered
    <3>2. DaysCounted'
      BY <3>1 DEF DaysCounted, OfDay, Access!Today, Access!CountToday
    <3>3. Access!TokenIsNotBypassed'
      BY <2>1, <2>5, TokenKept DEF Access!CallUnmetered
    <3> QED
      BY <3>1, <3>2, <3>3, AccessUnchanged
  <2> QED
    BY <1>2, <2>3, <2>4, <2>5 DEF Access!Call
<1>3. CASE UNCHANGED Access!vars
  <2>1. UNCHANGED <<options, now, clients, dailyKey, dailyCount, log, passed>>
    BY <1>3 DEF Access!vars
  <2>2. DaysCounted' /\ Access!TokenIsNotBypassed'
    BY <2>1 DEF DaysCounted, OfDay, Access!Today, Access!CountToday, Access!TokenIsNotBypassed
  <2> QED
    BY <2>1, <2>2, AccessUnchanged
<1> QED
  BY <1>1, <1>2, <1>3 DEF Access!Next

(* The operator pays for no more public calls than the limits say, however *)
(* many clients come and go, and for none that a token or the limiter did  *)
(* not let through (publicAccess.ts:134, app.ts:307): for any clients,     *)
(* limits, windows and days.                                               *)
THEOREM SpendingIsLimitedCorrect ==
  ASSUME Access!PublicAccessAssumption
  PROVE  Access!Spec => []SpendingIsLimited
<1>1. AccessInv => Access!DailyBudget
  <2> SUFFICES ASSUME AccessInv, NEW day \in 0..Access!Today
               PROVE  Cardinality({i \in DOMAIN log : log[i].at \div Day = day}) <= DailyLimit
    BY AccessCardinality DEF Access!DailyBudget
  <2>1. {i \in DOMAIN log : log[i].at \div Day = day} = OfDay(day)
    BY AccessLogRows DEF OfDay, AccessInv
  <2>2. day \in Nat
    BY DaysGrow DEF AccessInv, AccessTyped, Access!Today
  <2> QED
    BY <2>1, <2>2 DEF AccessInv, DaysCounted
<1>2. AccessInv => Access!ClientBudget
  <2> SUFFICES ASSUME AccessInv, NEW client \in Clients, NEW first \in 0..now,
                      Cardinality(CallsIn(client, first)) >= 2 * RequestsPerWindow
               PROVE  CallsCrowded(client, first)
    BY AccessCardinality DEF Access!ClientBudget, CallsIn, CallsCrowded, CallersAround
  <2>1. first \in Nat /\ first <= now
    BY DEF AccessInv, AccessTyped
  <2>2. Cardinality(CallsIn(client, first)) \in Nat /\ RequestsPerWindow \in Nat
    BY CallsFinite, AccessConstants DEF AccessInv
  <2> QED
    BY <2>1, <2>2 DEF AccessInv, CallsWithinBudget
<1>3. AccessInv => SpendingIsLimited
  BY <1>1, <1>2 DEF SpendingIsLimited, AccessInv
<1>4. Access!Init => AccessInv
  BY AccessInitInv
<1>5. AccessInv /\ [Access!Next]_(Access!vars) => AccessInv'
  BY AccessStep
<1> QED
  BY <1>3, <1>4, <1>5, PTL DEF Access!Spec
=============================================================================
