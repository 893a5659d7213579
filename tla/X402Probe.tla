----------------------------- MODULE X402Probe -----------------------------
(***************************************************************************)
(* The probe of a paid URL (apps/report-api/src/auditor/probe.ts): resolve  *)
(* the host, ask each of its addresses in turn until one answers, follow    *)
(* redirects, and read the payment terms of a 402, all within one deadline. *)
(* A lookup or a request answers, fails, or is given up when its time is    *)
(* over; every hop resolves its host anew.  Left out: ports and paths, and  *)
(* the reading of the terms, which PolicyEvaluation models.                 *)
(***************************************************************************)
EXTENDS Naturals, Sequences, FiniteSets

CONSTANTS
  Urls,          \* what an agent or a redirect may name: scheme, host, clean
  Literals,      \* hosts that are addresses
  Names,         \* hosts that are names
  Permitted,     \* the addresses isPublicAddress (or allowLoopback) lets pass
  Family,        \* 4 or 6
  Answers,       \* sequences of addresses a name server may give for a name
  AllowHttp, TimeoutMs, MaxRedirects, MaxAddresses,
  None

ASSUME ProbeAssumption ==
  /\ Urls \subseteq [scheme : {"https", "http", "ftp"}, host : Literals \cup Names, clean : BOOLEAN]
  /\ Permitted \subseteq Literals /\ Family \in [Literals -> {4, 6}]
  /\ Answers \subseteq Seq(Literals)
  /\ AllowHttp \in BOOLEAN
  /\ {TimeoutMs, MaxAddresses} \subseteq Nat \ {0} /\ MaxRedirects \in Nat
  /\ None \notin Urls

VARIABLES
  phase,       \* start, resolve, request, done
  url, method, body,      \* the request as it is now; body: whether it has one
  addresses,   \* what is left to try for this hop
  hops,        \* redirects followed
  now, limit,  \* the time, and when what is awaited is given up
  outcome,     \* how the probe ended
  reported,    \* the request in the result, or None
  sent         \* history: requests handed to the transport

request == <<url, method, body>>
vars == <<phase, request, addresses, hops, now, limit, outcome, reported, sent>>

Methods == {"GET", "POST"}
Requests == [url : Urls, method : Methods, body : BOOLEAN]
Redirects == {301, 302, 303, 307, 308}

TypeOK ==
  /\ phase \in {"start", "resolve", "request", "done"}
  /\ url \in Urls \cup {None} /\ method \in Methods /\ body \in BOOLEAN
  /\ addresses \in Seq(Literals)
  /\ hops \in 0..MaxRedirects
  /\ now \in Nat /\ limit \in Nat
  /\ outcome \in {"none", "invalid_request", "probe_header_forbidden", "probe_request_too_large",
                  "probe_https_required", "probe_dns_failed", "probe_target_forbidden",
                  "probe_timeout", "probe_transport_failed", "probe_response_too_large",
                  "probe_redirect_invalid", "probe_redirect_limit", "invalid_payment_required",
                  "no_payment", "terms"}
  /\ reported \in Requests \cup {None}
  /\ \A s \in sent : s.request \in Requests /\ s.address \in Literals /\ s.hop \in 0..hops

Init ==
  /\ phase = "start" /\ url = None /\ method = "GET" /\ body = FALSE
  /\ addresses = <<>> /\ hops = 0 /\ now = 0 /\ limit = 0
  /\ outcome = "none" /\ reported = None /\ sent = {}

Ends(code) ==
  /\ phase' = "done" /\ outcome' = code
  /\ UNCHANGED <<request, addresses, hops, limit, sent>>
-----------------------------------------------------------------------------
(* Time *)

(* remainingMilliseconds: never less than one. *)
Remaining(deadline, t) == IF deadline > t THEN deadline - t ELSE 1

(* withDeadline, for a whole probe. *)
LookupLimit(t) == t + Remaining(TimeoutMs, t)

(* An address gets the whole time there is. *)
AttemptLimitWhole(t, left) == t + TimeoutMs

(* An address gets its share of the time that remains, at least one. *)
Share(t, left) ==
  LET share == Remaining(TimeoutMs, t) \div left IN IF share = 0 THEN 1 ELSE share

AttemptLimit(t, left) ==
  LET end == t + Share(t, left)
  IN  t + Remaining(IF end < TimeoutMs THEN end ELSE TimeoutMs, t)
-----------------------------------------------------------------------------
(* Sending *)

(* parseTargetUrl *)
UrlFault(u) ==
  IF u.scheme \notin {"https", "http"} THEN "invalid_request"
  ELSE IF u.scheme = "http" /\ ~AllowHttp THEN "probe_https_required"
  ELSE IF ~u.clean THEN "invalid_request"
  ELSE "none"

(* The order the addresses are tried in: by family, and as they came.      *)
Orders(as) ==
  {order \in [DOMAIN as -> DOMAIN as] :
     \A i, j \in DOMAIN as : i < j =>
       LET fi == Family[as[order[i]]]   fj == Family[as[order[j]]]
       IN  fi < fj \/ (fi = fj /\ order[i] < order[j])}

(* One good address is enough. *)
UsableFirst(as) ==
  IF Len(as) \notin 1..MaxAddresses THEN "probe_dns_failed"
  ELSE IF as[1] \notin Permitted THEN "probe_target_forbidden"
  ELSE "none"

(* resolve: every address of the answer must be one the probe may ask. *)
AddressFault(as) ==
  IF Len(as) \notin 1..MaxAddresses THEN "probe_dns_failed"
  ELSE IF \E i \in DOMAIN as : as[i] \notin Permitted THEN "probe_target_forbidden"
  ELSE "none"

(* The body is used up by the first address. *)
AttemptSpent(as, t) ==
  /\ addresses' = as
  /\ limit' = AttemptLimit(t, Len(as))
  /\ sent' = sent \cup {[request |-> [url |-> url, method |-> method, body |-> body /\ addresses = <<>>],
                         address |-> Head(as), hop |-> hops]}
  /\ phase' = "request"

(* The next of the addresses is handed to the transport at time t. *)
Attempt(as, t) ==
  /\ addresses' = as
  /\ limit' = AttemptLimit(t, Len(as))
  /\ sent' = sent \cup {[request |-> [url |-> url, method |-> method, body |-> body],
                         address |-> Head(as), hop |-> hops]}
  /\ phase' = "request"

(* A value the agent posts: parseProbeInput, parseRequestHeaders.          *)
InputFault(u, m, b, big, header) ==
  IF m = "GET" /\ b THEN "invalid_request"
  ELSE IF ~header THEN "probe_header_forbidden"
  ELSE IF b /\ big THEN "probe_request_too_large"
  ELSE UrlFault(u)

Begin(u, m, b, big, header) ==
  LET fault == InputFault(u, m, b, big, header)
  IN  /\ phase = "start"
      /\ IF fault = "none"
           THEN /\ url' = u /\ method' = m /\ body' = b
                /\ phase' = "resolve" /\ limit' = LookupLimit(now) /\ outcome' = outcome
                /\ UNCHANGED <<addresses, hops, sent>>
           ELSE Ends(fault)
      /\ UNCHANGED <<now, reported>>

(* An address is its own answer; a name is looked up. *)
AnswersOf(host) == IF host \in Literals THEN {<<host>>} ELSE Answers

Resolved(as, t) ==
  /\ phase = "resolve" /\ t \in now..limit /\ as \in AnswersOf(url.host)
  /\ url.host \in Literals => t = now
  /\ now' = t
  /\ IF AddressFault(as) = "none"
       THEN /\ \E order \in Orders(as) : Attempt([i \in 1..Len(as) |-> as[order[i]]], t)
            /\ UNCHANGED <<request, hops, outcome>>
       ELSE Ends(AddressFault(as))
  /\ UNCHANGED reported

LookupFails(t) ==
  /\ phase = "resolve" /\ url.host \in Names /\ t \in now..limit
  /\ now' = t /\ Ends("probe_dns_failed") /\ UNCHANGED reported

(* Whatever is awaited is given up when its time is over: a lookup ends the *)
(* probe, an address makes way for the next one.                            *)
GivenUp ==
  /\ phase = "request" \/ (phase = "resolve" /\ url.host \in Names)
  /\ now' = limit
  /\ IF phase = "request" /\ Len(addresses) > 1
       THEN Attempt(Tail(addresses), limit) /\ UNCHANGED <<request, hops, outcome>>
       ELSE Ends("probe_timeout")
  /\ UNCHANGED reported

(* requestResolved: only a failure that may be gone at the next address is  *)
(* tried there.                                                             *)
AttemptFails(retryable, t) ==
  /\ phase = "request" /\ t \in now..limit
  /\ now' = t
  /\ IF retryable /\ Len(addresses) > 1
       THEN Attempt(Tail(addresses), t) /\ UNCHANGED <<request, hops, outcome>>
       ELSE Ends(IF retryable THEN "probe_transport_failed" ELSE "probe_response_too_large")
  /\ UNCHANGED reported

(* The body goes on to a redirect that asks for a GET. *)
NextRequestKeepsBody(status, u) ==
  /\ url' = u /\ body' = body
  /\ method' = IF status = 303 \/ (status \in {301, 302} /\ method = "POST") THEN "GET" ELSE method

(* A 303, and a POST sent elsewhere by a 301 or 302, becomes a GET without  *)
(* a body; the others repeat the request.                                   *)
NextRequest(status, u) ==
  /\ url' = u
  /\ IF status = 303 \/ (status \in {301, 302} /\ method = "POST")
       THEN method' = "GET" /\ body' = FALSE
       ELSE UNCHANGED <<method, body>>

(* One redirect more than there may be. *)
TooManyLate == hops > MaxRedirects

TooMany == hops >= MaxRedirects

(* Location: a URL, None when it is missing or cannot be read. *)
Redirected(status, u, t) ==
  /\ phase = "request" /\ status \in Redirects /\ t \in now..limit
  /\ now' = t
  /\ LET fault == IF u = None THEN "probe_redirect_invalid"
                  ELSE IF TooMany THEN "probe_redirect_limit" ELSE UrlFault(u)
     IN  IF fault = "none"
           THEN /\ NextRequest(status, u)
                /\ hops' = hops + 1 /\ phase' = "resolve" /\ limit' = LookupLimit(t)
                /\ addresses' = <<>> /\ UNCHANGED <<outcome, sent>>
           ELSE Ends(fault)
  /\ UNCHANGED reported

(* Any other answer ends the probe: one with a status that is none, a 402   *)
(* without terms that can be read, or a result, which is about the request   *)
(* that got it.                                                              *)
Faults == {"probe_transport_failed", "invalid_payment_required"}
Results == {"no_payment", "terms"}

Answered(code, t) ==
  /\ phase = "request" /\ t \in now..limit
  /\ now' = t /\ Ends(code)
  /\ reported' = IF code \in Results THEN [url |-> url, method |-> method, body |-> body]
                 ELSE None

Times == 0..TimeoutMs + (MaxRedirects + 1) * (MaxAddresses + 1)

Waits ==
  \/ GivenUp
  \/ \E t \in Times :
       \/ \E as \in AnswersOf(url.host) : Resolved(as, t)
       \/ LookupFails(t)
       \/ \E retryable \in BOOLEAN : AttemptFails(retryable, t)
       \/ \E status \in Redirects, u \in Urls \cup {None} : Redirected(status, u, t)
       \/ \E code \in Faults \cup Results : Answered(code, t)

Next ==
  \/ \E u \in Urls, m \in Methods, b, big, header \in BOOLEAN : Begin(u, m, b, big, header)
  \/ phase \in {"resolve", "request"} /\ Waits

(* What has a timer: the timer fires whether or not an answer comes.        *)
TimedRequests == {"request"}

Timed == {"resolve", "request"}

Spec == Init /\ [][Next]_vars
FairSpec == Spec /\ WF_vars(phase \in Timed /\ Waits)
-----------------------------------------------------------------------------
(* Whatever a name server answers, at the first hop or a later one, a       *)
(* request goes only to an address that was found permitted, by a URL the   *)
(* probe accepts (resolve, parseTargetUrl).                                 *)
SendsOnlyWherePermitted ==
  \A s \in sent : s.address \in Permitted /\ UrlFault(s.request.url) = "none"

(* The result is about the request that got the answer: no other one was    *)
(* sent after it, and it is the one the last hop sent, with the method and  *)
(* the body that redirects left it.                                         *)
ReportsWhatItSent ==
  reported # None =>
    /\ \E s \in sent : s.hop = hops /\ s.request = reported
    /\ \A s \in sent : s.hop = hops => s.request = reported

(* A body is never sent along with a GET, whatever redirects a POST took.   *)
NoBodyWithGet == \A s \in sent : s.request.body => s.request.method = "POST"

(* The deadline holds for the whole probe and not for each hop: after it,   *)
(* each lookup and each address that is still tried costs one millisecond.  *)
EndsByDeadline ==
  now <= TimeoutMs + (hops + 1) * (MaxAddresses + 1)

(* Every probe ends: redirects are counted and all that is awaited has a    *)
(* timer.                                                                   *)
ProbesEnd == phase \in {"resolve", "request"} ~> phase = "done"
=============================================================================
