--------------------------- MODULE AccountEvidence ---------------------------
(***************************************************************************)
(* The evidence of an account: its entity and then the balance of its      *)
(* purse, two calls to a Bot Chain node that may fail, time out and be     *)
(* tried again while the account changes.  What is found becomes the facts *)
(* that module TrustRules judges.                                          *)
(***************************************************************************)
EXTENDS Integers, FiniteSets

CONSTANTS
  Attempts,                 \* RPC_ATTEMPTS
  DustMotes,
  MaxChanges,               \* bound on changes of the account
  Null, Junk

AccountEvidenceAssumption ==
  /\ {Attempts, DustMotes} \subseteq Nat \ {0}
  /\ MaxChanges \in Nat

(* How the node tags an entity: as a flat account, as an addressable       *)
(* entity, whose purse and keys may be missing, or as something else.      *)
Shapes == {"Account", "AddressableEntity", "Package"}

(* An account has one purse, which normalizeEntity finds on it or not.     *)
Accounts ==
  [shape : Shapes, purse : BOOLEAN, balance : {DustMotes - 1, DustMotes},
   keys : 1..2, threshold : 1..2]

Absent == [shape |-> "Absent", purse |-> FALSE, balance |-> 0, keys |-> 0, threshold |-> 0]

Nothing ==
  [exists |-> Null, balanceMotes |-> Null, associatedKeyCount |-> Null,
   deploymentThreshold |-> Null, keyManagementThreshold |-> Null, ageBlocks |-> Null]

VARIABLES
  account,     \* the chain
  step,        \* the call being made
  attempt,     \* how often it was made
  facts,       \* what is known so far
  seen,        \* history: the states of the account since the lookup began
  changes

vars == <<account, step, attempt, facts, seen, changes>>

Steps == {"idle", "entity", "balance", "done"}

(* A call is tried a bounded number of times, facts have values the rules  *)
(* know, and a lookup has seen the account as it is.                       *)
TypeOK ==
  /\ account \in Accounts \union {Absent}
  /\ step \in Steps
  /\ attempt \in 0..Attempts
  /\ facts.exists \in BOOLEAN \union {Null}
  /\ facts.balanceMotes \in 0..DustMotes \union {Null}
  /\ \A n \in {"associatedKeyCount", "deploymentThreshold", "keyManagementThreshold"} :
        facts[n] \in 1..2 \union {Null}
  /\ seen \subseteq Accounts \union {Absent}
  /\ step # "idle" /\ step # "done" => account \in seen

Init ==
  /\ account \in {Absent} \union
       {a \in Accounts : a.balance = DustMotes /\ a.threshold = 1}
  /\ step = "idle" /\ attempt = 0
  /\ facts = Nothing
  /\ seen = {}
  /\ changes = 0

-----------------------------------------------------------------------------
buildAccountEvidence ==
  /\ step = "idle"
  /\ step' = "entity" /\ attempt' = 1
  /\ seen' = {account}
  /\ UNCHANGED <<account, facts, changes>>

(* A tag normalizeEntity does not know says that the account exists and    *)
(* nothing else.                                                           *)
Normalized(a) ==
  IF a.shape = "Package" THEN [Nothing EXCEPT !.exists = TRUE]
  ELSE [Nothing EXCEPT !.exists = TRUE, !.associatedKeyCount = a.keys,
          !.deploymentThreshold = 1, !.keyManagementThreshold = a.threshold]

HasPurse(a) == a.purse /\ a.shape # "Package"

EntityRead ==
  /\ step = "entity" /\ account # Absent
  /\ facts' = Normalized(account)
  /\ step' = IF HasPurse(account) THEN "balance" ELSE "done"
  /\ attempt' = IF HasPurse(account) THEN 1 ELSE 0
  /\ UNCHANGED <<account, seen, changes>>

NotFound == [Nothing EXCEPT !.exists = FALSE, !.balanceMotes = 0]

(* The node says that there is no such account.                            *)
EntityNotFound ==
  /\ step = "entity" /\ account = Absent
  /\ facts' = NotFound
  /\ step' = "done" /\ attempt' = 0
  /\ UNCHANGED <<account, seen, changes>>

(* What is left when the entity could not be read.                         *)
UnreadMeansAbsent == NotFound
Unread == facts

(* The node answers with an error of its own: that is final.               *)
EntityRefused ==
  /\ step = "entity"
  /\ facts' = Unread
  /\ step' = "done" /\ attempt' = 0
  /\ UNCHANGED <<account, seen, changes>>

(* A balance that could not be read is taken for enough.                   *)
WithoutBalanceEnough == [facts EXCEPT !.balanceMotes = DustMotes]
WithoutBalance == facts

BalanceRead ==
  /\ step = "balance"
  /\ facts' = [facts EXCEPT !.balanceMotes = account.balance]
  /\ step' = "done" /\ attempt' = 0
  /\ UNCHANGED <<account, seen, changes>>

BalanceRefused ==
  /\ step = "balance"
  /\ facts' = WithoutBalance
  /\ step' = "done" /\ attempt' = 0
  /\ UNCHANGED <<account, seen, changes>>

NextAttemptLate == IF attempt <= Attempts THEN attempt + 1 ELSE 0
NextAttemptAlways == IF attempt < Attempts THEN attempt + 1 ELSE 1

(* 0 when the call has been made often enough.                             *)
NextAttempt == IF attempt < Attempts THEN attempt + 1 ELSE 0

(* No answer, not in time, not JSON or without a result: the call is made  *)
(* again after a delay, or given up.                                       *)
Retry ==
  /\ step \in {"entity", "balance"} /\ NextAttempt # 0
  /\ attempt' = NextAttempt
  /\ UNCHANGED <<account, step, facts, seen, changes>>

GiveUp ==
  /\ step \in {"entity", "balance"} /\ NextAttempt = 0
  /\ step' = "done" /\ attempt' = 0
  /\ facts' = IF step = "entity" THEN Unread ELSE WithoutBalance
  /\ UNCHANGED <<account, seen, changes>>

(* External: the account is created, or its keys, thresholds and balance   *)
(* change.                                                                 *)
Change ==
  /\ changes < MaxChanges /\ changes' = changes + 1
  /\ account' \in {a \in Accounts \ {account} :
        account # Absent => a.shape = account.shape /\ a.purse = account.purse}
  /\ seen' = IF step \in {"entity", "balance"} THEN seen \union {account'} ELSE seen
  /\ UNCHANGED <<step, attempt, facts>>

Lookup ==
  \/ EntityRead \/ EntityNotFound \/ EntityRefused
  \/ BalanceRead \/ BalanceRefused
  \/ Retry \/ GiveUp

Next == buildAccountEvidence \/ Lookup \/ Change

Spec == Init /\ [][Next]_vars

(* Each call has a deadline, so that it is answered or fails.              *)
FairSpec == Spec /\ WF_vars(Lookup)

-----------------------------------------------------------------------------
(* Properties                                                              *)

Rules == INSTANCE TrustRules WITH
  kind <- "account", YoungBlocks <- 1000, YoungAccountBlocks <- 5000

(* Each fact of the evidence is one the chain held at some moment of the   *)
(* lookup, whatever failed: a call that could not be made leaves its facts *)
(* unknown and does not say that the account is missing or empty.          *)
FactsWereTrue ==
  step = "done" =>
    /\ facts.exists # Null => \E a \in seen : facts.exists = (a # Absent)
    /\ facts.balanceMotes # Null => \E a \in seen : facts.balanceMotes = a.balance
    /\ facts.keyManagementThreshold # Null =>
         \E a \in seen : /\ facts.associatedKeyCount = a.keys
                         /\ facts.keyManagementThreshold = a.threshold

(* "never a false CLEAR" (src/apps/report-api/src/accountEvidence.ts:22):  *)
(* an account is approved only when it existed, with keys and a balance    *)
(* above dust that the chain held while it was looked up; with anything    *)
(* unread it is not.                                                       *)
NoFalseClear ==
  step = "done" /\ Rules!Decision(Rules!Signals) = "approved" =>
    /\ Absent \notin seen \/ Cardinality(seen) > 1
    /\ \E a \in seen : a # Absent /\ a.balance >= DustMotes
    /\ \E a \in seen : a # Absent /\ (a.keys = 1 \/ a.threshold > 1)

(* A lookup ends although the node may never answer.                       *)
LookupsEnd == step = "entity" ~> step = "done"
=============================================================================
