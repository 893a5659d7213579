----------------------------- MODULE BoundedMap -----------------------------
(***************************************************************************)
(* A JavaScript Map that is kept below a capacity: a sequence of entries   *)
(* in insertion order, no two with the same key.                           *)
(***************************************************************************)
EXTENDS Naturals, Sequences, FiniteSets

KeysOf(m) == {m[i].key : i \in DOMAIN m}

Holds(m, k) == k \in KeysOf(m)

Get(m, k) == m[CHOOSE i \in DOMAIN m : m[i].key = k].value

(* The entries that stay, in the order they had: the n-th of them is the   *)
(* one that n of them do not come after.                                   *)
Staying(m, K) == {i \in DOMAIN m : m[i].key \notin K}

Rank(I, i) == Cardinality({j \in I : j <= i})

Nth(I, n) == CHOOSE i \in I : Rank(I, i) = n

Without(m, K) ==
  LET I == Staying(m, K) IN [n \in 1..Cardinality(I) |-> m[Nth(I, n)]]

(* The map grows by one past its capacity. *)
EvictedLate(m, k, capacity) ==
  LET rest == Without(m, {k})
  IN  IF Len(rest) > capacity THEN {Head(rest).key} ELSE {}

(* The key that makes room for k, if one has to. *)
Evicted(m, k, capacity) ==
  LET rest == Without(m, {k})
  IN  IF Len(rest) >= capacity THEN {Head(rest).key} ELSE {}

(* A key that is there already moves to the end with its new value. *)
SetBounded(m, k, v, capacity) ==
  Append(Without(m, {k} \union Evicted(m, k, capacity)), [key |-> k, value |-> v])
=============================================================================
