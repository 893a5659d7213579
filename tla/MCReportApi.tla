---------------------------- MODULE MCReportApi ----------------------------
(***************************************************************************)
(* The public side of the report API on small instances: the store of      *)
(* verdict cards, the report quotes, the payment readiness, and the rate   *)
(* limiter.  They share no state, so each behaviour runs one of them and   *)
(* leaves the others as they started: the states are those of each alone.  *)
(***************************************************************************)
EXTENDS PublicArtifacts, TLC

CONSTANTS
  \* Report quotes.
  Quotes, Buyers, Auths, ValidBefore, QuoteTtl, MaxActiveQuotes, Tries,
  FacilitatorRepeats, LastQuoteTime, MaxStarts, MaxBuys,
  \* Payment readiness.
  Keys, Loadable, Askers, Loads, CacheTtl, FailureTtl, LastAssetTime, MaxChanges,
  \* Rate limits.
  Clients, RawLimits, DefaultLimit, MaxLimit, WindowMs, MaxKeys, Second,
  LastLimitTime, MaxRequests

VARIABLES
  part,                                               \* the component that runs
  quoteNow, priced, building, quotes, sold, pending, settledTransactionQuotes,
  call, chain, delivered, buys, starts,               \* ReportQuotes
  assetNow, token, cached, load, request, verdict, changes,   \* PaymentReadiness
  limit, limitNow, buckets, log, told                 \* RateLimits

quoteVars == <<quoteNow, priced, building, quotes, sold, pending, settledTransactionQuotes,
               call, chain, delivered, buys, starts>>
assetVars == <<assetNow, token, cached, load, request, verdict, changes>>
limitVars == <<limit, limitNow, buckets, log, told>>
apiVars == <<part, vars, quoteVars, assetVars, limitVars>>

Buying == INSTANCE ReportQuotes WITH
  now <- quoteNow, restarts <- starts,
  Requests <- Buyers, Attempts <- Tries, MaxTime <- LastQuoteTime, MaxRestarts <- MaxStarts

Readiness == INSTANCE PaymentReadiness WITH
  now <- assetNow, Requests <- Askers, MaxTime <- LastAssetTime

Limiter == INSTANCE RateLimits WITH
  now <- limitNow, MaxTime <- LastLimitTime

ASSUME ReportApiAssumption ==
  Buying!QuotesAssumption /\ Readiness!ReadinessAssumption /\ Limiter!RateLimitsAssumption

(* An authorization is signed after its quote was made, and outlives it.    *)
MCValidBefore == [a \in Auths |-> IF a = "a1" THEN 3 ELSE 2]

(* The components run alone and may share names: what one of them calls by  *)
(* these may be exchanged.                                                 *)
Symmetry == UNION {Permutations(S) : S \in {Verdicts, Transactions, Requests}}

----------------------------------------------------------------------------
ApiInit ==
  /\ part \in {"cards", "quotes", "readiness", "limits"}
  /\ Init
  /\ Buying!Init
  /\ Readiness!Init
  /\ Limiter!Init
  /\ part # "cards" => <<maxVerdictCards, maxFeedEntries>> = <<1, 1>>
  /\ part # "limits" => limit = 1

ApiNext ==
  \/ part = "cards" /\ Next /\ UNCHANGED <<part, quoteVars, assetVars, limitVars>>
  \/ part = "quotes" /\ Buying!Next /\ UNCHANGED <<part, vars, assetVars, limitVars>>
  \/ part = "readiness" /\ Readiness!Next /\ UNCHANGED <<part, vars, quoteVars, limitVars>>
  \/ part = "limits" /\ Limiter!Next /\ UNCHANGED <<part, vars, quoteVars, assetVars>>

ApiSpec == ApiInit /\ [][ApiNext]_apiVars

----------------------------------------------------------------------------
(* A report is released only for a transfer that was executed, whoever     *)
(* asked for it and however often, and a quote whose settlement is in      *)
(* progress has a request that still works on it.                          *)
ReportsArePaid == Buying!ReportsArePaid

(* No transfer leaves a buyer for a quote that was already sold: requests  *)
(* that race share one settlement, and later ones get the stored answer.   *)
SoldQuoteChargesNobody == Buying!SoldQuoteChargesNobody

(* What is said of a token was seen on the chain, for this token, within   *)
(* the life of what was kept: an outage is not reported as a token that    *)
(* does not exist, nor for longer than a failure is kept.                  *)
ReadinessIsCurrent == Readiness!ReadinessIsCurrent

(* More than a client's budget passes only in a crowd that makes the       *)
(* limiter forget the client.                                              *)
OverBudgetNeedsCrowd == Limiter!OverBudgetNeedsCrowd
============================================================================
