-------------------------- MODULE MCPaymentChecks --------------------------
(* Small instances of PaymentChecks for TLC. *)
EXTENDS PaymentChecks, TLC

CONSTANTS k1, k2, k3, n1, n2, t1, t2

(* Two payments with one nonce, of which the first ends early, and a third *)
(* with the first one's key.  A payment of 1 and one of 2 are kept apart   *)
(* by the nonce alone, the cap of 2 alone, or the single slot alone.       *)
MCCharges ==
  { [key |-> k1, nonce |-> n1, amount |-> 1, validBefore |-> 1],
    [key |-> k2, nonce |-> n1, amount |-> 2, validBefore |-> 3],
    [key |-> k1, nonce |-> n2, amount |-> 1, validBefore |-> 3] }
MCPolicies ==
  { [cap |-> 3, slots |-> 2], [cap |-> 2, slots |-> 2], [cap |-> 3, slots |-> 1] }

(* t1 pays with nonce n1 and succeeds; t2 carries n2 and reverts. *)
MCSpends == [t \in Txs |-> IF t = t1 THEN n1 ELSE n2]

(* Three payments with their own keys, of which a cap of 3 covers two.     *)
BudgetCharges ==
  { [key |-> k1, nonce |-> n1, amount |-> 2, validBefore |-> 1],
    [key |-> k2, nonce |-> n2, amount |-> 1, validBefore |-> 2],
    [key |-> k3, nonce |-> n2, amount |-> 2, validBefore |-> 2] }
BudgetPolicies == { [cap |-> 3, slots |-> 2] }

(* Two payments that never compete, so that all the room is for polls.     *)
SettlementCharges ==
  { [key |-> k1, nonce |-> n1, amount |-> 1, validBefore |-> 1],
    [key |-> k2, nonce |-> n2, amount |-> 1, validBefore |-> 2] }

(* Two payments that compete for a cap of 3, one of which ends early.      *)
CompetingCharges ==
  { [key |-> k1, nonce |-> n1, amount |-> 2, validBefore |-> 1],
    [key |-> k2, nonce |-> n2, amount |-> 2, validBefore |-> 2] }

Symmetry == Permutations(Ids) \union Permutations(Workers) \union Permutations(Polls)
============================================================================
