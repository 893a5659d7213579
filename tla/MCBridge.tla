------------------------------ MODULE MCBridge ------------------------------
(***************************************************************************)
(* The MCP bridge on small instances: one assessment with every answer it  *)
(* may get, the tools that assess for concurrent callers, and the limits   *)
(* on public calls.  They share no state here, so each behaviour runs one  *)
(* of them and leaves the others as they started.                          *)
(***************************************************************************)
EXTENDS Assessment, TLC

CONSTANTS
  \* The tools that assess.
  Calls, ApiRoots, ApiDatasets, ApiTerms, ApiNetworks, ApiResolves, MaxFaults, MaxPrice, PriceOf,
  \* The public calls.
  Clients, WindowMs, RequestsPerWindow, DailyLimit, MaxTrackedClients, Day, MaxTime, MaxCalls

VARIABLES
  part,                                               \* the component that runs
  bridge, call, signer, faults,                       \* AssessTool
  options, now, clients, dailyKey, dailyCount, log, passed   \* PublicAccess

toolVars == <<bridge, call, signer, faults>>
accessVars == <<options, now, clients, dailyKey, dailyCount, log, passed>>
bridgeVars == <<part, vars, toolVars, accessVars>>

Whole(kind, network) ==
  {[family |-> f, network |-> network, own |-> TRUE, proven |-> TRUE] : f \in Families[kind]}

(* Evidence of one kind and network: whole, or with one leaf missing, or   *)
(* one leaf from the other network, of another dataset or unproven.        *)
MCEvidence ==
  LET Sound(s) == {s} \cup {s \ {l} : l \in s}
      Spoilt(s) == {(s \ {l}) \cup {x} : l \in s,
                     x \in {y \in Leaves : \E z \in s : y.family = z.family
                              /\ Cardinality({f \in {"network", "own", "proven"} : y[f] # z[f]}) = 1}}
  IN {{}} \cup UNION {Sound(Whole(k, n)) \cup Spoilt(Whole(k, n)) : k \in Kinds, n \in Networks}

(* The answers that agree with the accepted quote in all but one field. *)
NearAnswers ==
  LET agreed(e) == [network |-> quote.network, root |-> quote.root, dataset |-> quote.dataset,
                    terms |-> quote.terms, executed |-> TRUE, receipt |-> TRUE, evidence |-> e]
  IN UNION {{agreed(e)}
       \cup {[agreed(e) EXCEPT !.network = n] : n \in Networks \cup OtherNetworks}
       \cup {[agreed(e) EXCEPT !.root = r] : r \in Roots \cup {None}}
       \cup {[agreed(e) EXCEPT !.dataset = d] : d \in Datasets \cup {None}}
       \cup {[agreed(e) EXCEPT !.terms = t] : t \in Terms \cup {None}}
       \cup {[agreed(e) EXCEPT !.executed = FALSE], [agreed(e) EXCEPT !.receipt = FALSE]} : e \in Evidence}

(* The names of the networks are those the bridge expects; the terms of    *)
(* the second quote are beyond the spend policy.                           *)
MCApiNetworks == [main |-> "botchain-mainnet", test |-> "botchain-testnet"]
MCPriceOf == [t \in ApiTerms |-> IF t = "t1" THEN 1 ELSE 3]

Tool == INSTANCE AssessTool WITH
  Roots <- ApiRoots, Datasets <- ApiDatasets, Terms <- ApiTerms

Access == INSTANCE PublicAccess

ASSUME BridgeAssumption == Tool!NamesAssumption /\ Access!PublicAccessAssumption

(* What one component calls by names that another uses may be exchanged.   *)
Symmetry == Permutations(Roots) \union Permutations(Terms)

----------------------------------------------------------------------------
BridgeInit ==
  /\ part \in {"assessment", "tool", "access"}
  /\ Init
  /\ Tool!Init
  /\ Access!Init
  /\ part # "tool" => signer
  /\ part # "access" => \A option \in DOMAIN options : ~ options[option]

(* The paid answers of the assessment are the near ones. *)
AssessmentNext ==
  \/ \E r \in Requests : Begin(r)
  \/ \E q \in Quotes : Quoted(q)
  \/ phase = "settling" /\ \E p \in NearAnswers : Settled(p)
  \/ \E leaf \in unchecked : Verified(leaf)
  \/ Score
  \/ Record
  \/ Throws

BridgeNext ==
  \/ part = "assessment" /\ AssessmentNext /\ UNCHANGED <<part, toolVars, accessVars>>
  \/ part = "tool" /\ Tool!Next /\ UNCHANGED <<part, vars, accessVars>>
  \/ part = "access" /\ Access!Next /\ UNCHANGED <<part, vars, toolVars>>

BridgeSpec == BridgeInit /\ [][BridgeNext]_bridgeVars

----------------------------------------------------------------------------
(* Every call of the tools is an assessment: what happens to one call, to  *)
(* the process or to the API is a step or a stutter of assessSubject.      *)
CallsAreAssessments == Tool!CallsAreAssessments

(* The operator pays for no more public calls of a day than the limit, for *)
(* more of one client than its share only when a crowd made the limiter    *)
(* forget that client, and for no anonymous call that is not metered.      *)
SpendingIsLimited == Access!DailyBudget /\ Access!ClientBudget /\ Access!TokenIsNotBypassed
=============================================================================
