---------------------------- MODULE BudgetLedger ----------------------------
(***************************************************************************)
(* What the payment checks promise an operator about the money they        *)
(* approve, with no check rows, requests, processes or nonce table: a      *)
(* ledger with at most one entry per check.                                *)
(*                                                                         *)
(*   - an entry is made once, and only while a concurrency slot is free,   *)
(*     its day's committed amount leaves room under the policy's cap, and  *)
(*     no committed entry made good on time carries the same nonce;        *)
(*   - a consumed, quarantined or released entry never changes again;      *)
(*   - an expired entry may still turn out to have been paid: it is then   *)
(*     committed after all, and marked late.                               *)
(***************************************************************************)
EXTENDS Integers, FiniteSets, FiniteSetsExt

CONSTANTS Ids, Charges, Policies

VARIABLES
  charge,  \* what each entry would pay, fixed
  entry,   \* [Ids -> "none", "active", "consumed", "released", "quarantined", "expired"]
  day,     \* the day an entry counts against
  late     \* entries committed after they had expired

vars == <<charge, entry, day, late>>

Open      == {"active", "quarantined"}
Committed == Open \union {"consumed"}

CommittedOn(entries, d) ==
  MapThenSumSet(LAMBDA c : charge[c].amount,
                {c \in Ids : entries[c] \in Committed /\ day[c] = d})

Init ==
  /\ charge \in [Ids -> Charges]
  /\ entry = [c \in Ids |-> "none"]
  /\ day = [c \in Ids |-> 0]
  /\ late = {}

Lapse(gone) ==
  /\ \A c \in gone : entry[c] = "active"
  /\ entry' = [c \in Ids |-> IF c \in gone THEN "expired" ELSE entry[c]]
  /\ UNCHANGED <<charge, day, late>>

(* Entries may lapse in the same step that makes a new one. *)
Make(c, gone, p, today) ==
  LET entries == [d \in Ids |-> IF d \in gone THEN "expired" ELSE entry[d]]
  IN  /\ entry[c] = "none"
      /\ \A d \in gone : entry[d] = "active"
      /\ Cardinality({d \in Ids : entries[d] \in Open}) < p.slots
      /\ CommittedOn(entries, today) + charge[c].amount <= p.cap
      /\ \A d \in Ids \ late :
           entries[d] \in Committed => charge[d].nonce # charge[c].nonce
      /\ entry' = [entries EXCEPT ![c] = "active"]
      /\ day' = [day EXCEPT ![c] = today]
      /\ UNCHANGED <<charge, late>>

Release(c) ==
  /\ entry[c] = "active"
  /\ entry' = [entry EXCEPT ![c] = "released"]
  /\ UNCHANGED <<charge, day, late>>

Settle(c, outcome) ==
  /\ entry[c] \in {"active", "expired"}
  /\ entry' = [entry EXCEPT ![c] = outcome]
  /\ late' = IF entry[c] = "expired" THEN late \union {c} ELSE late
  /\ UNCHANGED <<charge, day>>

(* The day is left to the implementation: the ledger only adds up per day. *)
Next ==
  \/ \E gone \in SUBSET Ids : Lapse(gone)
  \/ \E c \in Ids, gone \in SUBSET Ids, p \in Policies : Make(c, gone, p, day'[c])
  \/ \E c \in Ids : Release(c)
  \/ \E c \in Ids, outcome \in {"consumed", "quarantined"} : Settle(c, outcome)

Spec == Init /\ [][Next]_vars
=============================================================================
