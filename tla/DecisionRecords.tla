-------------------------- MODULE DecisionRecords --------------------------
(***************************************************************************)
(* Recording the decision of a paid report through the public console of   *)
(* the MCP bridge: the capability a paid report leaves behind, the script  *)
(* that sends the registry transaction, and the queries that confirm it.   *)
(*                                                                         *)
(* The bridge is one thread; a handler is interrupted at its awaits only.  *)
(* A paid report is named by its payment receipt hash, which the report    *)
(* API returns again when the same payment is presented again.             *)
(***************************************************************************)
EXTENDS Integers, Sequences, FiniteSets, BoundedMap

CONSTANTS
  Reports, Decisions,
  DecisionOf,                  \* the decision the bridge derives from the evidence
  Calls,                       \* record requests that can be open at once
  TtlMs, MaxCapabilities,
  Attempts,                    \* CASPER_CONFIRMATION_ATTEMPTS
  RegistryHash,                \* form of AGENT_PAY_REGISTRY_PACKAGE_HASH
  MaxTime, MaxBuys, MaxSent, MaxRestarts,   \* bounds
  None

HashForms == {"64 hex", "40 hex"}

Inputs == [report : Reports, decision : Decisions]

CallRows == [input : Inputs, step : {"script"}, tx : Nat]
              \union [input : Inputs, step : {"confirm"}, tx : Nat, query : Nat]

DecisionRecordsAssumption ==
  /\ DecisionOf \in [Reports -> Decisions]
  /\ {TtlMs, MaxCapabilities, Attempts} \subseteq Nat \ {0}
  /\ RegistryHash \in HashForms
  /\ {MaxTime, MaxBuys, MaxSent, MaxRestarts} \subseteq Nat
  /\ None \notin CallRows

VARIABLES
  now,
  capabilities,  \* receipt hash -> expiresAt, state
  call,          \* what a record request is awaiting
  chain,         \* registry transactions, in the order they were sent
  bought,        \* history: how often the bridge returned a paid report
  answers,       \* history: how the requests that know their transaction ended
  restarts

vars == <<now, capabilities, call, chain, bought, answers, restarts>>

Executing == [input : Inputs, step : {"script"}, tx : {0} \union DOMAIN chain]
Confirming == [input : Inputs, step : {"confirm"}, tx : DOMAIN chain, query : 1..(2 * Attempts)]
Results == {"recorded", "not executed", "contract mismatch", "unavailable"}

TypeOK ==
  /\ now \in 0..MaxTime
  /\ Len(capabilities) <= MaxCapabilities
  /\ \A i \in DOMAIN capabilities : capabilities[i] \in
        [key : Reports, value : [expiresAt : 1..(now + TtlMs), state : {"ready", "pending"}]]
  /\ call \in [Calls -> Executing \union Confirming \union {None}]
  /\ \A i \in DOMAIN chain :
        chain[i] \in [input : Inputs, state : {"sent", "executed", "failed"}]
  /\ bought \in [Reports -> 0..MaxBuys]
  /\ answers \subseteq [tx : DOMAIN chain, result : Results]
  /\ restarts \in 0..MaxRestarts

Init ==
  /\ now = 0
  /\ capabilities = <<>>
  /\ call = [c \in Calls |-> None]
  /\ chain = <<>>
  /\ bought = [r \in Reports |-> 0]
  /\ answers = {}
  /\ restarts = 0

-----------------------------------------------------------------------------
(* PublicDecisionCapabilities                                              *)

Prune(m) == Without(m, {k \in KeysOf(m) : Get(m, k).expiresAt <= now})

(* Map.set leaves a key that is there already in its place.                *)
Put(m, k, v) ==
  IF Holds(m, k) THEN [i \in DOMAIN m |-> IF m[i].key = k THEN [key |-> k, value |-> v] ELSE m[i]]
                 ELSE Append(m, [key |-> k, value |-> v])

DropOldestLate(m) == IF Len(m) > MaxCapabilities + 1 THEN Tail(m) ELSE m

DropOldest(m) == IF Len(m) > MaxCapabilities THEN Tail(m) ELSE m

Register(r) ==
  capabilities' = DropOldest(Put(Prune(capabilities), r,
                                 [expiresAt |-> now + TtlMs, state |-> "ready"]))

(* Only the receipt hash is looked at.                                     *)
ClaimableByHash(input) ==
  LET m == Prune(capabilities)
  IN  Holds(m, input.report) /\ Get(m, input.report).state = "ready"

Claimable(input) ==
  LET m == Prune(capabilities)
  IN  /\ Holds(m, input.report)
      /\ Get(m, input.report).state = "ready"
      /\ input.decision = DecisionOf[input.report]

Marked(m, r, state) ==
  [i \in DOMAIN m |-> IF m[i].key = r THEN [m[i] EXCEPT !.value.state = state] ELSE m[i]]

ClaimedReady(r) == Prune(capabilities)

Claimed(r) == Marked(Prune(capabilities), r, "pending")

ReleasedNever(r) == capabilities

(* A capability that is gone, or ready again, is left as it is.            *)
Released(r) == Marked(capabilities, r, "ready")

Completed(r) == Without(capabilities, {r})

-----------------------------------------------------------------------------
(* The buyer gets its paid report, maybe not for the first time.           *)
BuyReport(r) ==
  /\ bought[r] < MaxBuys
  /\ Register(r)
  /\ bought' = [bought EXCEPT ![r] = @ + 1]
  /\ UNCHANGED <<now, call, chain, answers, restarts>>

(* recordAgentPayDecision refuses any other form before it starts the      *)
(* script, and the capability is released at once.                         *)
isBotChainPackageHash == RegistryHash = "64 hex"

RecordDecision(c, input) ==
  /\ call[c] = None
  /\ Claimable(input)
  /\ IF isBotChainPackageHash
       THEN /\ capabilities' = Claimed(input.report)
            /\ call' = [call EXCEPT ![c] = [input |-> input, step |-> "script", tx |-> 0]]
       ELSE /\ capabilities' = Released(input.report)
            /\ UNCHANGED call
  /\ UNCHANGED <<now, chain, bought, answers, restarts>>

(* The request ends in an error or with a record; the claim goes with it.  *)
Fails(c, result) ==
  /\ capabilities' = Released(call[c].input.report)
  /\ call' = [call EXCEPT ![c] = None]
  /\ answers' = IF call[c].tx = 0 THEN answers
                ELSE answers \union {[tx |-> call[c].tx, result |-> result]}
  /\ UNCHANGED <<now, chain, bought, restarts>>

Succeeds(c) ==
  /\ capabilities' = Completed(call[c].input.report)
  /\ call' = [call EXCEPT ![c] = None]
  /\ answers' = answers \union {[tx |-> call[c].tx, result |-> "recorded"]}
  /\ UNCHANGED <<now, chain, bought, restarts>>

InScript(c) == call[c] # None /\ call[c].step = "script"
InConfirm(c) == call[c] # None /\ call[c].step = "confirm"

(* The script sends the transaction ...                                    *)
Send(c) ==
  /\ InScript(c)
  /\ call[c].tx = 0
  /\ Len(chain) < MaxSent
  /\ chain' = Append(chain, [input |-> call[c].input, state |-> "sent"])
  /\ call' = [call EXCEPT ![c].tx = Len(chain')]
  /\ UNCHANGED <<now, capabilities, bought, answers, restarts>>

(* ... and prints its hash, or fails, prints none or is killed after a     *)
(* minute, before or after it has sent it.                                 *)
ScriptPrintsHash(c) ==
  /\ InScript(c)
  /\ call[c].tx # 0
  /\ call' = [call EXCEPT ![c] =
       [input |-> call[c].input, step |-> "confirm", tx |-> call[c].tx, query |-> 1]]
  /\ UNCHANGED <<now, capabilities, chain, bought, answers, restarts>>

ScriptFails(c) == InScript(c) /\ Fails(c, "unavailable")

(* confirmAgentPaySubmission: two methods are asked in each attempt.       *)
LastQuery(c) == call[c].query = 2 * Attempts

(* The attempts start over.                                                *)
NotExecutedAround(c) ==
  /\ InConfirm(c)
  /\ call' = [call EXCEPT ![c].query = IF LastQuery(c) THEN 1 ELSE @ + 1]
  /\ UNCHANGED <<now, capabilities, chain, bought, answers, restarts>>

(* An answer that is no verdict: an error of the node, a transaction it    *)
(* does not show, has not executed, or shows with an error message.        *)
NotExecuted(c) ==
  /\ InConfirm(c)
  /\ IF LastQuery(c)
       THEN Fails(c, "not executed")
       ELSE /\ call' = [call EXCEPT ![c].query = @ + 1]
            /\ UNCHANGED <<now, capabilities, chain, bought, answers, restarts>>

(* fetch or the JSON of the answer throws, which nothing catches.          *)
QueryThrows(c) == InConfirm(c) /\ Fails(c, "unavailable")

(* verifyDecisionRecordRpcResult compares 40 hexadecimal digits only.      *)
NormalizedRegistry == IF RegistryHash = "40 hex" THEN RegistryHash ELSE None

Executed(c) ==
  /\ InConfirm(c)
  /\ chain[call[c].tx].state = "executed"
  /\ IF NormalizedRegistry = None THEN Fails(c, "contract mismatch") ELSE Succeeds(c)

-----------------------------------------------------------------------------
(* The network executes a transaction, or rejects it.                      *)
Execute(i) ==
  /\ chain[i].state = "sent"
  /\ \E state \in {"executed", "failed"} : chain' = [chain EXCEPT ![i].state = state]
  /\ UNCHANGED <<now, capabilities, call, bought, answers, restarts>>

Tick ==
  /\ now < MaxTime
  /\ now' = now + 1
  /\ UNCHANGED <<capabilities, call, chain, bought, answers, restarts>>

(* The bridge keeps capabilities in memory only.                           *)
Restart ==
  /\ restarts < MaxRestarts
  /\ restarts' = restarts + 1
  /\ capabilities' = <<>>
  /\ call' = [c \in Calls |-> None]
  /\ UNCHANGED <<now, chain, bought, answers>>

Answer(c) ==
  ScriptPrintsHash(c) \/ ScriptFails(c) \/ NotExecuted(c) \/ QueryThrows(c) \/ Executed(c)

Next ==
  \/ \E r \in Reports : BuyReport(r)
  \/ \E c \in Calls, input \in Inputs : RecordDecision(c, input)
  \/ \E c \in Calls : Send(c) \/ Answer(c)
  \/ \E i \in DOMAIN chain : Execute(i)
  \/ Tick
  \/ Restart

Spec == Init /\ [][Next]_vars

(* The script is killed after a minute and a query ends with the limits of *)
(* the runtime; nothing obliges a script to send, or the network to        *)
(* execute.                                                                *)
FairSpec == Spec /\ \A c \in Calls : WF_vars(Answer(c))

-----------------------------------------------------------------------------
InFlight(r) == {c \in Calls : call[c] # None /\ call[c].input.report = r}

(* Although a paid report can be returned, and its capability registered,  *)
(* while a record of it is under way, no more records of it are ever under *)
(* way or claimable than times it was returned                             *)
(* (src/apps/mcp-server/src/publicConsole.ts:55).                          *)
InFlightNeedsPurchase ==
  \A r \in Reports :
     Cardinality(InFlight(r))
       + (IF Holds(capabilities, r) /\ Get(capabilities, r).state = "ready" THEN 1 ELSE 0)
       <= bought[r]

(* A capability is taken only while a record of it is under way: none is   *)
(* left claimed by a request that has ended, so a buyer can try again      *)
(* (src/apps/mcp-server/src/app.ts:150).                                   *)
PendingHasOwner ==
  \A r \in KeysOf(capabilities) :
     Get(capabilities, r).state = "pending" => InFlight(r) # {}

(* What the operator's key signs is the decision the bridge derived from a *)
(* report that was paid for, whatever the browser asked to record          *)
(* (src/apps/mcp-server/src/publicConsole.ts:67).                          *)
RecordIsWhatWasPaid ==
  \A i \in DOMAIN chain :
     /\ bought[chain[i].input.report] > 0
     /\ chain[i].input.decision = DecisionOf[chain[i].input.report]

(* Every record request is answered, although its script may hang and its  *)
(* transaction may never execute                                           *)
(* (src/apps/mcp-server/src/botchainClient.ts:572).                        *)
RecordsAreAnswered == \A c \in Calls : call[c] # None ~> call[c] = None

(* A paid report is good for one registry write, as the test says          *)
(* (src/apps/mcp-server/test/publicConsole.test.ts:10).                    *)
OneWritePerReport ==
  \A i, j \in {t \in DOMAIN chain : chain[t].state = "executed"} :
     chain[i].input.report = chain[j].input.report => i = j

(* A transaction that executed with the arguments the bridge sent is       *)
(* confirmed (src/apps/mcp-server/test/botchainClient.test.ts:220).        *)
ExecutedIsConfirmed ==
  \A a \in answers : a.result # "contract mismatch"
=============================================================================
