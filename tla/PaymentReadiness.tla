-------------------------- MODULE PaymentReadiness --------------------------
(***************************************************************************)
(* Whether a report can be paid for: the evidence about the fee token,     *)
(* read through a cache of one entry, and the facilitator's answer to      *)
(* /supported.  Quote and status requests of one process share the cache.  *)
(***************************************************************************)
EXTENDS Integers, FiniteSets

CONSTANTS
  Keys,       \* payment requirements; only token, name, symbol, decimals count
  Loadable,   \* those whose asset has the form the node client can query
  Requests,   \* requests that can be open at once
  Loads,      \* loads of one behaviour, a bound
  CacheTtl,   \* PAYMENT_ASSET_CACHE_TTL_MS
  FailureTtl, \* PAYMENT_ASSET_FAILURE_CACHE_TTL_MS
  MaxTime, MaxChanges,   \* bounds
  None

Tokens == [package : {"contract", "inactive", "other", "absent"},
           entry : BOOLEAN, metadata : {"same", "different"}]
Queries == {"none", "package", "contract", "metadata", "supply"}
Known == {"yes", "no", "unknown"}
Evidence == [package : Known, entry : Known, metadata : {"same", "different", "unread"},
             errors : BOOLEAN, absent : BOOLEAN]
Forever == MaxTime + CacheTtl + 1

LoadRows == [key : Keys, state : {"loading", "ended", "failed"}, evidence : Evidence \union {None},
             seen : Tokens \union {None}, endedAt : 0..MaxTime]
CacheRows == [key : Keys, load : Loads, expiresAt : 0..Forever]
RequestRows == [key : Keys, askedAt : 0..MaxTime, load : Loads, step : {"asset", "supported"}]
Statuses == {"ready", "facilitator_unavailable", "facilitator_unsupported",
             "x402_asset_evidence_unavailable", "x402_asset_package_not_found",
             "x402_asset_authorization_entrypoint_missing",
             "x402_asset_metadata_unavailable", "x402_asset_metadata_mismatch"}
VerdictRows == [key : Keys, load : Loads, askedAt : 0..MaxTime, status : Statuses]

ReadinessAssumption ==
  /\ Loadable \subseteq Keys
  /\ {CacheTtl, FailureTtl} \subseteq Nat \ {0}
  /\ FailureTtl <= CacheTtl
  /\ {MaxTime, MaxChanges} \subseteq Nat
  /\ None \notin Evidence \union LoadRows \union CacheRows \union RequestRows \union VerdictRows

VARIABLES
  now,
  token,    \* the fee tokens on the chain
  cached,   \* the entry of the cache
  load,     \* the promises: what is being read, or the evidence that was
  request,  \* what a request awaits
  verdict,  \* history: the last readiness a request reported
  changes

vars == <<now, token, cached, load, request, verdict, changes>>

TypeOK ==
  /\ now \in 0..MaxTime
  /\ token \in [Keys -> Tokens]
  /\ cached \in CacheRows \union {None}
  /\ load \in [Loads -> LoadRows \union {None}]
  /\ request \in [Requests -> RequestRows \union {None}]
  /\ verdict \in [Requests -> VerdictRows \union {None}]
  /\ changes \in 0..MaxChanges

GoodToken == [package |-> "contract", entry |-> TRUE, metadata |-> "same"]

Init ==
  /\ now = 0
  /\ token = [k \in Keys |-> GoodToken]
  /\ cached = None
  /\ load = [l \in Loads |-> None]
  /\ request = [r \in Requests |-> None]
  /\ verdict = [r \in Requests |-> None]
  /\ changes = 0

-----------------------------------------------------------------------------
(* NodeRpcClient.loadPaymentAssetEvidence, with at most one failing query *)

(* A query that fails is taken for a value that is not there. *)
UnreadIsAbsent(package, entry, absent) ==
  [package |-> "no", entry |-> "no", metadata |-> "unread", errors |-> TRUE, absent |-> TRUE]

Unread(package, entry, absent) ==
  [package |-> package, entry |-> entry, metadata |-> "unread", errors |-> TRUE, absent |-> absent]

EvidenceOf(t, failing) ==
  CASE failing = "package" -> Unread("unknown", "unknown", FALSE)
    [] failing # "package" /\ t.package = "absent" -> Unread("no", "no", TRUE)
    [] failing # "package" /\ t.package = "other" -> Unread("no", "no", FALSE)
    [] failing # "package" /\ t.package = "inactive" -> Unread("yes", "no", FALSE)
    [] t.package = "contract" /\ failing = "contract" -> Unread("yes", "unknown", FALSE)
    [] OTHER -> [package |-> "yes",
                 entry |-> IF t.entry THEN "yes" ELSE "no",
                 metadata |-> IF failing = "metadata" THEN "unread" ELSE t.metadata,
                 errors |-> failing # "none",
                 absent |-> FALSE]

-----------------------------------------------------------------------------
(* The cache *)

(* An entry is used without a look at its key. *)
CachedAfterEnd(k) == cached # None /\ cached.expiresAt > now

Cached(k) == cached # None /\ cached.key = k /\ cached.expiresAt > now

(* GET /reports/quote and GET /reports/payment-status with a requirement. *)
Ask(r, k) ==
  /\ request[r] = None
  /\ \/ /\ Cached(k)
        /\ request' = [request EXCEPT ![r] =
             [key |-> k, askedAt |-> now, load |-> cached.load,
              step |-> IF load[cached.load].state = "loading" THEN "asset" ELSE "supported"]]
        /\ UNCHANGED <<cached, load>>
     \/ /\ ~Cached(k)
        /\ \E l \in Loads :
             /\ load[l] = None
             /\ load' = [load EXCEPT ![l] = [key |-> k, state |-> "loading", evidence |-> None,
                                             seen |-> None, endedAt |-> 0]]
             /\ cached' = [key |-> k, load |-> l, expiresAt |-> Forever]
             /\ request' = [request EXCEPT ![r] =
                  [key |-> k, askedAt |-> now, load |-> l, step |-> "asset"]]
  /\ UNCHANGED <<now, token, verdict, changes>>

(* Complete evidence is kept without an end. *)
KeptForever(l, e) ==
  IF cached # None /\ cached.load = l /\ e.errors
    THEN [cached EXCEPT !.expiresAt = now + FailureTtl]
    ELSE cached

(* The life is added to the end the entry had. *)
KeptLonger(l, e) ==
  IF cached # None /\ cached.load = l
    THEN [cached EXCEPT !.expiresAt = @ + IF e.errors THEN FailureTtl ELSE CacheTtl]
    ELSE cached

(* Evidence with source errors is kept as long as complete evidence. *)
KeptAlike(l, e) ==
  IF cached # None /\ cached.load = l
    THEN [cached EXCEPT !.expiresAt = now + CacheTtl]
    ELSE cached

(* Only the load that is still the entry gives it an end. *)
Kept(l, e) ==
  IF cached # None /\ cached.load = l
    THEN [cached EXCEPT !.expiresAt = now + IF e.errors THEN FailureTtl ELSE CacheTtl]
    ELSE cached

(* The entry stays although its promise was rejected. *)
DroppedNever(l) == cached

Dropped(l) == IF cached # None /\ cached.load = l THEN None ELSE cached

(* Only the request that started the load goes on. *)
ContinueOne(l) ==
  request' = [r \in Requests |->
    IF request[r] # None /\ request[r].load = l
       /\ r = CHOOSE o \in Requests : request[o] # None /\ request[o].load = l
      THEN [request[r] EXCEPT !.step = "supported"]
      ELSE request[r]]

Continue(l) ==
  request' = [r \in Requests |->
    IF request[r] # None /\ request[r].load = l THEN [request[r] EXCEPT !.step = "supported"]
    ELSE request[r]]

(* The queries are answered or time out; the client itself throws only for *)
(* an asset it cannot query.                                               *)
LoadEnds(l, failing) ==
  /\ load[l] # None /\ load[l].state = "loading"
  /\ Continue(l)
  /\ LET k == load[l].key
         e == EvidenceOf(token[k], failing)
     IN  IF k \in Loadable
           THEN /\ load' = [load EXCEPT ![l] = [key |-> k, state |-> "ended", evidence |-> e,
                                                seen |-> token[k], endedAt |-> now]]
                /\ cached' = Kept(l, e)
           ELSE /\ load' = [load EXCEPT ![l].state = "failed", ![l].endedAt = now]
                /\ cached' = Dropped(l)
  /\ UNCHANGED <<now, token, verdict, changes>>

-----------------------------------------------------------------------------
(* checkPaymentReadiness *)

CriticalMissing(e) == e.package # "yes" \/ e.entry # "yes" \/ e.metadata = "unread"

(* No evidence is None; the causes are tried in the order of the code. *)
PaymentAssetFailure(e) ==
  IF e = None \/ (e.errors /\ CriticalMissing(e))
    THEN IF e # None /\ e.package = "no" /\ e.absent THEN "x402_asset_package_not_found"
                                                    ELSE "x402_asset_evidence_unavailable"
  ELSE IF "unknown" \in {e.package, e.entry} THEN "x402_asset_evidence_unavailable"
  ELSE IF e.package = "no" THEN "x402_asset_package_not_found"
  ELSE IF e.entry = "no" THEN "x402_asset_authorization_entrypoint_missing"
  ELSE IF e.metadata = "unread" THEN "x402_asset_metadata_unavailable"
  ELSE IF e.metadata = "different" THEN "x402_asset_metadata_mismatch"
  ELSE "none"

(* The facilitator is asked only about a token that can be paid with. *)
CheckReadiness(r, supported) ==
  /\ request[r] # None /\ request[r].step = "supported"
  /\ LET failure == PaymentAssetFailure(load[request[r].load].evidence)
     IN  verdict' = [verdict EXCEPT ![r] =
           [key |-> request[r].key, load |-> request[r].load, askedAt |-> request[r].askedAt,
            status |-> IF failure # "none" THEN failure ELSE supported]]
  /\ request' = [request EXCEPT ![r] = None]
  /\ UNCHANGED <<now, token, cached, load, changes>>

-----------------------------------------------------------------------------
(* The owner of a token upgrades it. *)
Upgrade(k, t) ==
  /\ changes < MaxChanges
  /\ token[k] # t
  /\ token' = [token EXCEPT ![k] = t]
  /\ changes' = changes + 1
  /\ UNCHANGED <<now, cached, load, request, verdict>>

Tick ==
  /\ now < MaxTime
  /\ now' = now + 1
  /\ UNCHANGED <<token, cached, load, request, verdict, changes>>

Answers(r) ==
  \E supported \in {"ready", "facilitator_unavailable", "facilitator_unsupported"} :
    CheckReadiness(r, supported)

Ends(l) == \E failing \in Queries : LoadEnds(l, failing)

Next ==
  \/ \E r \in Requests, k \in Keys : Ask(r, k)
  \/ \E l \in Loads : Ends(l)
  \/ \E r \in Requests : Answers(r)
  \/ \E k \in Keys, t \in Tokens : Upgrade(k, t)
  \/ Tick

(* PAYMENT_ASSET_RPC_TIMEOUT_MS and FACILITATOR_REQUEST_TIMEOUT_MS end    *)
(* every call.                                                             *)
Fairness ==
  /\ \A l \in Loads : WF_vars(Ends(l))
  /\ \A r \in Requests : WF_vars(Answers(r))

Spec == Init /\ [][Next]_vars /\ Fairness

-----------------------------------------------------------------------------
(* Properties *)

Reported == {verdict[r] : r \in Requests} \ {None}

(* Ready means that the token the requirement names was seen as a contract *)
(* with the entry point and the declared metadata, by a load that was in   *)
(* flight when the request came or had ended less than the cache's life    *)
(* before.                                                                 *)
ReadyIsRecent ==
  \A v \in Reported : v.status = "ready" =>
    /\ load[v.load].key = v.key
    /\ load[v.load].seen = GoodToken
    /\ v.askedAt < load[v.load].endedAt + CacheTtl

(* An answer that comes from a failing node is given only for the short    *)
(* life of such an entry, one from a rejected load to nobody who came later. *)
OutageIsBrief ==
  \A v \in Reported :
    LET l == load[v.load]
    IN  IF l.state = "failed" THEN v.askedAt <= l.endedAt
        ELSE l.evidence.errors => v.askedAt < l.endedAt + FailureTtl

(* An unreachable node is never reported as a token that does not exist    *)
(* (the test "reports an RPC timeout as unavailable rather than claiming   *)
(* the package is absent").                                                *)
OutageIsNotAbsence ==
  \A v \in Reported : v.status = "x402_asset_package_not_found" =>
    load[v.load].seen.package = "absent"

(* What is said of a token was seen on the chain, for this token, within   *)
(* the life of what was kept: an outage is not reported as a token that    *)
(* does not exist, nor for longer than a failure is kept.                  *)
ReadinessIsCurrent == ReadyIsRecent /\ OutageIsBrief /\ OutageIsNotAbsence

(* Every request learns whether it can pay, also one that joined a load    *)
(* another request started.                                                *)
RequestsAreAnswered == \A r \in Requests : request[r] # None ~> request[r] = None

-----------------------------------------------------------------------------
(* What the documentation says: "live when configured"                     *)
(* (docs/live-capabilities.md:42).  A fee token that is as configured is    *)
(* never reported as unreadable while the node answers every query.        *)
ConfiguredTokenIsRead ==
  [][\A l \in Loads : \A k \in Keys :
       /\ load[l] # None /\ load[l].key = k /\ token[k] = GoodToken
       /\ load[l].state = "loading"
       => load'[l].state # "failed"]_vars
=============================================================================
