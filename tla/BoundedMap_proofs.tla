-------------------------- MODULE BoundedMap_proofs --------------------------
(***************************************************************************)
(* What the operators of a bounded map do to its entries, for any map.     *)
(***************************************************************************)
EXTENDS BoundedMap, Integers, FiniteSetTheorems, TLAPS

(* The maps of entries in E: no two entries of one have the same key.      *)
MapsOf(E) == {m \in Seq(E) : \A i, j \in 1..Len(m) : m[i].key = m[j].key => i = j}

LEMMA MapDef ==
  ASSUME NEW E, NEW m \in MapsOf(E)
  PROVE  /\ m \in Seq(E) /\ Len(m) \in Nat /\ DOMAIN m = 1..Len(m)
         /\ m = [i \in 1..Len(m) |-> m[i]]
         /\ \A i \in 1..Len(m) : m[i] \in E
         /\ \A i, j \in 1..Len(m) : m[i].key = m[j].key => i = j
BY DEF MapsOf

LEMMA FirstNaturals ==
  ASSUME NEW n \in Nat
  PROVE  IsFiniteSet(1..n) /\ Cardinality(1..n) = n
<1>1. /\ IsFiniteSet(1..n)
      /\ Cardinality(1..n) = IF 1 > n THEN 0 ELSE n - 1 + 1
  BY FS_Interval
<1> QED
  BY <1>1

----------------------------------------------------------------------------
(* The ranks of a finite set of numbers.                                   *)

(* Every number has a rank of its own, the higher ones a higher rank.      *)
LEMMA RanksDiffer ==
  ASSUME NEW I \in SUBSET Nat, IsFiniteSet(I)
  PROVE  /\ Cardinality(I) \in Nat
         /\ \A i \in I : Rank(I, i) \in 1..Cardinality(I)
         /\ \A i, k \in I : i < k => Rank(I, i) < Rank(I, k)
<1> DEFINE below(i) == {j \in I : j <= i}
<1>1. Cardinality(I) \in Nat
  BY FS_CardinalityType
<1>2. ASSUME NEW i \in I
      PROVE  /\ IsFiniteSet(below(i)) /\ Cardinality(below(i)) \in Nat
             /\ Cardinality(below(i)) <= Cardinality(I)
             /\ Cardinality(below(i)) # 0
  <2>1. below(i) \in SUBSET I /\ i \in below(i)
    OBVIOUS
  <2> HIDE DEF below
  <2> QED
    BY <2>1, FS_Subset, FS_CardinalityType, FS_EmptySet
<1>3. ASSUME NEW i \in I, NEW k \in I, i < k
      PROVE  Cardinality(below(i)) < Cardinality(below(k))
  <2>0. ASSUME NEW j \in below(i)
        PROVE  j \in below(k) /\ j # k
    <3>1. j \in Nat /\ i \in Nat /\ k \in Nat /\ j <= i /\ j \in I
      OBVIOUS
    <3> QED
      BY <1>3, <3>1
  <2>1. below(i) \subseteq below(k) \ {k} /\ k \in below(k)
    <3>1. k \in Nat /\ k <= k
      OBVIOUS
    <3> QED
      BY <2>0, <3>1
  <2> HIDE DEF below
  <2>2. /\ IsFiniteSet(below(k) \ {k})
        /\ Cardinality(below(k) \ {k}) = Cardinality(below(k)) - 1
    BY <1>2, <2>1, FS_RemoveElement
  <2>3. Cardinality(below(i)) <= Cardinality(below(k) \ {k})
    BY <2>1, <2>2, FS_Subset
  <2> QED
    BY <1>2, <2>2, <2>3
<1> HIDE DEF below
<1>4. \A i : Rank(I, i) = Cardinality(below(i))
  BY DEF Rank, below
<1> QED
  BY <1>1, <1>2, <1>3, <1>4

(* There is a number for every rank, and Nth finds it.                     *)
LEMMA NthRank ==
  ASSUME NEW I \in SUBSET Nat, IsFiniteSet(I)
  PROVE  \A n \in 1..Cardinality(I) : Nth(I, n) \in I /\ Rank(I, Nth(I, n)) = n
<1> DEFINE rank == [i \in I |-> Rank(I, i)]
<1> DEFINE all == 1..Cardinality(I)
<1>1. Cardinality(I) \in Nat
  BY FS_CardinalityType
<1>2. rank \in Injection(I, all)
  <2>1. rank \in [I -> all]
    BY RanksDiffer
  <2>2. ASSUME NEW i \in I, NEW k \in I, rank[i] = rank[k]
        PROVE  i = k
    <3>1. Rank(I, i) = Rank(I, k) /\ Rank(I, i) \in Int
      BY <1>1, <2>2, RanksDiffer
    <3> QED
      BY <3>1, RanksDiffer
  <2> HIDE DEF rank, all
  <2> QED
    BY <2>1, <2>2 DEF Injection, IsInjective
<1>3. IsFiniteSet(all) /\ Cardinality(all) = Cardinality(I)
  BY <1>1, FS_Interval
<1> HIDE DEF all
<1>4. rank \in Surjection(I, all)
  <2> HIDE DEF rank
  <2> QED
    BY <1>2, <1>3, FS_Injection
<1>5. ASSUME NEW n \in all
      PROVE  \E i \in I : Rank(I, i) = n
  <2>1. \E i \in I : rank[i] = n
    <3> HIDE DEF rank
    <3> QED
      BY <1>4 DEF Surjection
  <2> QED
    BY <2>1
<1>6. ASSUME NEW n \in all
      PROVE  Nth(I, n) \in I /\ Rank(I, Nth(I, n)) = n
  BY <1>5, Zenon DEF Nth
<1> QED
  BY <1>6 DEF all

(* A higher rank is of a higher number.                                    *)
LEMMA NthGrows ==
  ASSUME NEW I \in SUBSET Nat, IsFiniteSet(I)
  PROVE  \A n, k \in 1..Cardinality(I) : n < k => Nth(I, n) < Nth(I, k)
<1> SUFFICES ASSUME NEW n \in 1..Cardinality(I), NEW k \in 1..Cardinality(I), n < k
             PROVE  Nth(I, n) < Nth(I, k)
  OBVIOUS
<1> DEFINE a == Nth(I, n)
<1> DEFINE b == Nth(I, k)
<1>1. a \in I /\ b \in I /\ Rank(I, a) = n /\ Rank(I, b) = k
  BY NthRank
<1>2. b < a => Rank(I, b) < Rank(I, a)
  BY <1>1, RanksDiffer
<1>3. n \in Int /\ k \in Int
  BY RanksDiffer
<1> HIDE DEF a, b
<1>4. a \in Int /\ b \in Int /\ a # b /\ ~(b < a)
  BY <1>1, <1>2, <1>3
<1>5. a < b
  BY <1>4
<1> QED
  BY <1>5 DEF a, b

----------------------------------------------------------------------------
(* Taking entries out.                                                     *)

LEMMA StayingIsFinite ==
  ASSUME NEW E, NEW m \in MapsOf(E), NEW K
  PROVE  /\ Staying(m, K) \in SUBSET (1..Len(m)) /\ Staying(m, K) \in SUBSET Nat
         /\ IsFiniteSet(Staying(m, K)) /\ Cardinality(Staying(m, K)) \in Nat
         /\ Cardinality(Staying(m, K)) <= Len(m)
<1>1. Staying(m, K) \in SUBSET (1..Len(m)) /\ Len(m) \in Nat
  BY MapDef DEF Staying
<1>2. IsFiniteSet(1..Len(m)) /\ Cardinality(1..Len(m)) = Len(m)
  BY <1>1, FirstNaturals
<1> QED
  BY <1>1, <1>2, FS_Subset, FS_CardinalityType

(* What is left is a map of the entries whose key was not taken out, in    *)
(* the order they had.                                                     *)
LEMMA WithoutKeyed ==
  ASSUME NEW E, NEW m \in MapsOf(E), NEW K
  PROVE  /\ Without(m, K) \in MapsOf(E) /\ Len(Without(m, K)) <= Len(m)
         /\ \A n \in DOMAIN Without(m, K) :
              \E i \in DOMAIN m : Without(m, K)[n] = m[i] /\ m[i].key \notin K
         /\ \A i \in DOMAIN m : m[i].key \notin K =>
              \E n \in DOMAIN Without(m, K) : Without(m, K)[n] = m[i]
<1> DEFINE I == Staying(m, K)
<1> DEFINE c == Cardinality(I)
<1> DEFINE w == Without(m, K)
<1>1. /\ I \in SUBSET (1..Len(m)) /\ I \in SUBSET Nat /\ IsFiniteSet(I)
      /\ c \in Nat /\ c <= Len(m)
  BY StayingIsFinite
<1>2. w = [n \in 1..c |-> m[Nth(I, n)]]
  BY DEF Without
<1>3. \A i \in I : i \in DOMAIN m /\ m[i].key \notin K
  BY DEF Staying
<1>4. \A i \in DOMAIN m : m[i].key \notin K => i \in I
  BY DEF Staying
<1>5. DOMAIN m = 1..Len(m) /\ \A i, j \in 1..Len(m) : m[i].key = m[j].key => i = j
  BY MapDef
<1> HIDE DEF I, w
<1>6. \A n \in 1..c : Nth(I, n) \in I /\ Rank(I, Nth(I, n)) = n
  BY <1>1, NthRank
<1>7. DOMAIN w = 1..c /\ \A n \in 1..c : w[n] = m[Nth(I, n)]
  BY <1>2
<1> HIDE DEF c
<1>8. Len(w) = c
  BY <1>1, <1>2
<1>9. ASSUME NEW i \in 1..c, NEW j \in 1..c, w[i].key = w[j].key
      PROVE  i = j
  <2>1. Nth(I, i) = Nth(I, j)
    <3>1. Nth(I, i) \in 1..Len(m) /\ Nth(I, j) \in 1..Len(m)
      BY <1>1, <1>6
    <3> QED
      BY <1>5, <1>7, <1>9, <3>1
  <2> QED
    BY <1>6, <2>1
<1>10. w \in MapsOf(E)
  <2>1. \A n \in 1..c : m[Nth(I, n)] \in E
    BY <1>1, <1>6, MapDef
  <2>2. w \in [1..c -> E]
    BY <1>2, <2>1
  <2>3. w \in Seq(E)
    BY <1>1, <2>2
  <2> QED
    BY <1>1, <1>7, <1>8, <1>9, <2>3 DEF MapsOf
<1>11. \A n \in DOMAIN w : \E i \in DOMAIN m : w[n] = m[i] /\ m[i].key \notin K
  BY <1>3, <1>6, <1>7
<1>12. ASSUME NEW i \in DOMAIN m, m[i].key \notin K
       PROVE  \E n \in DOMAIN w : w[n] = m[i]
  <2>1. i \in I
    BY <1>4, <1>12
  <2>2. Rank(I, i) \in 1..c
    BY <1>1, <2>1, RanksDiffer DEF c
  <2>3. Nth(I, Rank(I, i)) = i
    <3> DEFINE k == Nth(I, Rank(I, i))
    <3>1. k \in I /\ Rank(I, k) = Rank(I, i)
      BY <1>6, <2>2
    <3>2. k < i => Rank(I, k) < Rank(I, i)
      BY <1>1, <2>1, <3>1, RanksDiffer
    <3>3. i < k => Rank(I, i) < Rank(I, k)
      BY <1>1, <2>1, <3>1, RanksDiffer
    <3> HIDE DEF k
    <3>4. Rank(I, i) \in Int /\ i \in Int /\ k \in Int
      BY <1>1, <2>1, <2>2, <3>1
    <3>5. k = i
      BY <3>1, <3>2, <3>3, <3>4
    <3> QED
      BY <3>5 DEF k
  <2> QED
    BY <1>7, <2>2, <2>3
<1> QED
  BY <1>1, <1>8, <1>10, <1>11, <1>12 DEF w

(* The entries that are left keep their order.                             *)
LEMMA WithoutOrder ==
  ASSUME NEW E, NEW m \in MapsOf(E), NEW K
  PROVE  \A n, k \in DOMAIN Without(m, K) : n < k =>
            \E i, j \in DOMAIN m : /\ i < j
                                  /\ Without(m, K)[n] = m[i] /\ Without(m, K)[k] = m[j]
<1> DEFINE I == Staying(m, K)
<1>1. I \in SUBSET (1..Len(m)) /\ I \in SUBSET Nat /\ IsFiniteSet(I)
  BY StayingIsFinite
<1>2. Without(m, K) = [n \in 1..Cardinality(I) |-> m[Nth(I, n)]]
  BY DEF Without
<1>3. DOMAIN m = 1..Len(m)
  BY MapDef
<1> HIDE DEF I
<1>4. \A n \in 1..Cardinality(I) : Nth(I, n) \in DOMAIN m
  BY <1>1, <1>3, NthRank
<1>5. \A n, k \in 1..Cardinality(I) : n < k => Nth(I, n) < Nth(I, k)
  BY <1>1, NthGrows
<1> QED
  BY <1>2, <1>4, <1>5

(* The keys of what is left.                                               *)
LEMMA WithoutKeys ==
  ASSUME NEW E, NEW m \in MapsOf(E), NEW K
  PROVE  KeysOf(Without(m, K)) = KeysOf(m) \ K
<1> DEFINE w == Without(m, K)
<1>1. \A n \in DOMAIN w : \E i \in DOMAIN m : w[n] = m[i] /\ m[i].key \notin K
  BY WithoutKeyed
<1>2. \A i \in DOMAIN m : m[i].key \notin K => \E n \in DOMAIN w : w[n] = m[i]
  BY WithoutKeyed
<1> HIDE DEF w
<1>3. KeysOf(w) = KeysOf(m) \ K
  BY <1>1, <1>2 DEF KeysOf
<1> QED
  BY <1>3 DEF w

(* A map has as many keys as entries.                                      *)
LEMMA KeysCardinality ==
  ASSUME NEW E, NEW m \in MapsOf(E)
  PROVE  IsFiniteSet(KeysOf(m)) /\ Cardinality(KeysOf(m)) = Len(m)
<1> DEFINE K == KeysOf(m)
<1> DEFINE f == [i \in 1..Len(m) |-> m[i].key]
<1>1. /\ Len(m) \in Nat /\ DOMAIN m = 1..Len(m)
      /\ \A i, j \in 1..Len(m) : m[i].key = m[j].key => i = j
  BY MapDef
<1>2. f \in [1..Len(m) -> K] /\ \A k \in K : \E i \in 1..Len(m) : f[i] = k
  BY <1>1 DEF KeysOf
<1>3. \A i, j \in 1..Len(m) : f[i] = f[j] => i = j
  BY <1>1
<1> HIDE DEF f, K
<1>4. f \in Bijection(1..Len(m), K)
  BY <1>2, <1>3 DEF Bijection, Injection, Surjection, IsInjective
<1>5. IsFiniteSet(1..Len(m)) /\ Cardinality(1..Len(m)) = Len(m)
  BY <1>1, FirstNaturals
<1>6. IsFiniteSet(K) /\ Cardinality(K) = Len(m)
  BY <1>4, <1>5, FS_Bijection DEF ExistsBijection
<1> QED
  BY <1>6 DEF K

----------------------------------------------------------------------------
(* Looking up, changing and adding entries.                                *)

(* A map holds one value for a key, whichever entry is chosen.             *)
LEMMA GetEntry ==
  ASSUME NEW E, NEW m \in MapsOf(E), NEW i \in DOMAIN m
  PROVE  Holds(m, m[i].key) /\ Get(m, m[i].key) = m[i].value
<1> DEFINE c == CHOOSE j \in DOMAIN m : m[j].key = m[i].key
<1>1. c \in DOMAIN m /\ m[c].key = m[i].key
  BY Zenon
<1> HIDE DEF c
<1>2. c = i
  BY <1>1, MapDef
<1>3. Get(m, m[i].key) = m[c].value
  BY DEF Get, c
<1> QED
  BY <1>2, <1>3 DEF Holds, KeysOf

(* What is held is held by an entry.                                       *)
LEMMA HeldEntry ==
  ASSUME NEW E, NEW m \in MapsOf(E), NEW k, Holds(m, k)
  PROVE  \E i \in DOMAIN m : m[i].key = k /\ Get(m, k) = m[i].value
<1>1. PICK i \in DOMAIN m : m[i].key = k
  BY Zenon DEF Holds, KeysOf
<1> QED
  BY <1>1, GetEntry

(* Entries changed in place, their keys kept.                              *)
LEMMA ChangedInPlace ==
  ASSUME NEW E, NEW m \in MapsOf(E), NEW n, n = [i \in DOMAIN m |-> n[i]],
         \A i \in DOMAIN m : n[i] \in E /\ n[i].key = m[i].key
  PROVE  n \in MapsOf(E) /\ DOMAIN n = DOMAIN m
<1>1. /\ Len(m) \in Nat /\ DOMAIN m = 1..Len(m)
      /\ \A i, j \in 1..Len(m) : m[i].key = m[j].key => i = j
  BY MapDef
<1>2. n \in [1..Len(m) -> E] /\ DOMAIN n = 1..Len(m)
  BY <1>1
<1>3. n \in Seq(E) /\ Len(n) = Len(m)
  BY <1>1, <1>2
<1> QED
  BY <1>1, <1>2, <1>3 DEF MapsOf

LEMMA AppendKeyed ==
  ASSUME NEW E, NEW m \in MapsOf(E), NEW e \in E, ~ Holds(m, e.key)
  PROVE  /\ Append(m, e) \in MapsOf(E) /\ Len(Append(m, e)) = Len(m) + 1
         /\ DOMAIN Append(m, e) = 1..(Len(m) + 1)
         /\ \A i \in DOMAIN m : i \in 1..Len(m) /\ Append(m, e)[i] = m[i]
         /\ Append(m, e)[Len(m) + 1] = e
<1> DEFINE a == Append(m, e)
<1>1. /\ m \in Seq(E) /\ Len(m) \in Nat /\ DOMAIN m = 1..Len(m)
      /\ \A i, j \in 1..Len(m) : m[i].key = m[j].key => i = j
  BY MapDef
<1>2. \A i \in 1..Len(m) : m[i].key # e.key
  BY <1>1 DEF Holds, KeysOf
<1>3. /\ a \in Seq(E) /\ Len(a) = Len(m) + 1 /\ DOMAIN a = 1..(Len(m) + 1)
      /\ \A i \in 1..Len(m) : a[i] = m[i]
      /\ a[Len(m) + 1] = e
  BY <1>1
<1> HIDE DEF a
<1>4. ASSUME NEW i \in 1..Len(a), NEW j \in 1..Len(a), a[i].key = a[j].key
      PROVE  i = j
  BY <1>1, <1>2, <1>3, <1>4
<1>5. a \in MapsOf(E)
  BY <1>3, <1>4 DEF MapsOf
<1> QED
  BY <1>1, <1>3, <1>5 DEF a
----------------------------------------------------------------------------
(* Setting an entry of a map that is kept below a capacity.                *)

(* The order of the entries: that of a key is before that of another.      *)
Before(m, a, b) == \E i, j \in DOMAIN m : i < j /\ m[i].key = a /\ m[j].key = b

(* The key is held, at the end, and the others keep what they had and      *)
(* their order; one that is gone was the first of them, and there were as  *)
(* many as the capacity.                                                   *)
LEMMA SetBoundedEntries ==
  ASSUME NEW E, NEW m \in MapsOf(E), NEW k, NEW v, [key |-> k, value |-> v] \in E,
         NEW capacity \in Nat \ {0}
  PROVE  LET s == SetBounded(m, k, v, capacity) IN
         /\ s \in MapsOf(E) /\ Holds(s, k) /\ Get(s, k) = v
         /\ \A x : x # k /\ Holds(s, x) => Holds(m, x) /\ Get(s, x) = Get(m, x)
         /\ \A a, b : Before(s, a, b) => a # k /\ (b = k \/ Before(m, a, b))
         /\ \A x : x # k /\ Holds(m, x) /\ ~ Holds(s, x) =>
              /\ \A y : y # k /\ y # x /\ Holds(m, y) => Before(m, x, y)
              /\ Cardinality(KeysOf(m) \ {k}) >= capacity
<1> DEFINE e == [key |-> k, value |-> v]
<1> DEFINE rest == Without(m, {k})
<1> DEFINE K == {k} \union Evicted(m, k, capacity)
<1> DEFINE w == Without(m, K)
<1> DEFINE s == SetBounded(m, k, v, capacity)
<1>1. s = Append(w, e) /\ e.key = k /\ e.value = v /\ k \in K /\ e \in E
  BY DEF SetBounded
<1>5. K = {k} \union (IF Len(rest) >= capacity THEN {Head(rest).key} ELSE {})
  BY DEF Evicted
<1> HIDE DEF e, K
<1>2. /\ w \in MapsOf(E)
      /\ \A n \in DOMAIN w : \E i \in DOMAIN m : w[n] = m[i] /\ m[i].key \notin K
      /\ \A i \in DOMAIN m : m[i].key \notin K => \E n \in DOMAIN w : w[n] = m[i]
  <2>1. /\ Without(m, K) \in MapsOf(E)
        /\ \A n \in DOMAIN Without(m, K) :
             \E i \in DOMAIN m : Without(m, K)[n] = m[i] /\ m[i].key \notin K
        /\ \A i \in DOMAIN m : m[i].key \notin K =>
             \E n \in DOMAIN Without(m, K) : Without(m, K)[n] = m[i]
    BY WithoutKeyed
  <2> QED
    BY <2>1
<1>3. \A n, j \in DOMAIN w : n < j =>
         \E i, q \in DOMAIN m : i < q /\ w[n] = m[i] /\ w[j] = m[q]
  BY WithoutOrder
<1>4. /\ rest \in MapsOf(E) /\ KeysOf(rest) = KeysOf(m) \ {k}
      /\ \A i \in DOMAIN m : m[i].key \notin {k} => \E n \in DOMAIN rest : rest[n] = m[i]
      /\ \A n, j \in DOMAIN rest : n < j =>
           \E i, q \in DOMAIN m : i < q /\ rest[n] = m[i] /\ rest[j] = m[q]
  <2> DEFINE R == {k}
  <2>0. rest = Without(m, R)
    OBVIOUS
  <2> HIDE DEF R, rest
  <2>1. /\ Without(m, R) \in MapsOf(E) /\ KeysOf(Without(m, R)) = KeysOf(m) \ R
        /\ \A i \in DOMAIN m : m[i].key \notin R =>
             \E n \in DOMAIN Without(m, R) : Without(m, R)[n] = m[i]
        /\ \A n, j \in DOMAIN Without(m, R) : n < j =>
             \E i, q \in DOMAIN m : i < q /\ Without(m, R)[n] = m[i] /\ Without(m, R)[j] = m[q]
    BY WithoutKeyed, WithoutKeys, WithoutOrder
  <2> QED
    BY <2>0, <2>1 DEF R
<1> HIDE DEF w, s, rest
<1>6. ~ Holds(w, e.key)
  BY <1>1, <1>2 DEF Holds, KeysOf
<1>7. /\ s \in MapsOf(E)
      /\ DOMAIN s = 1..(Len(w) + 1)
      /\ \A i \in DOMAIN w : i \in 1..Len(w) /\ s[i] = w[i]
      /\ s[Len(w) + 1] = e
  BY <1>1, <1>2, <1>6, AppendKeyed
<1>8. Len(w) \in Nat /\ DOMAIN w = 1..Len(w)
  BY <1>2, MapDef
<1>9. \A i \in DOMAIN s : i = Len(w) + 1 \/ i \in DOMAIN w
  BY <1>7, <1>8
<1>10. Len(w) + 1 \in DOMAIN s /\ \A i \in DOMAIN w : i \in DOMAIN s /\ i # Len(w) + 1
  BY <1>7, <1>8
<1>11. Holds(s, k) /\ Get(s, k) = v
  BY <1>1, <1>7, <1>10, GetEntry
<1>12. ASSUME NEW x, x # k, Holds(s, x)
       PROVE  Holds(m, x) /\ Get(s, x) = Get(m, x)
  <2>1. PICK n \in DOMAIN s : s[n].key = x
    BY <1>12 DEF Holds, KeysOf
  <2>2. n \in DOMAIN w
    BY <1>1, <1>7, <1>9, <1>12, <2>1
  <2>3. PICK i \in DOMAIN m : w[n] = m[i]
    BY <1>2, <2>2
  <2>4. s[n] = m[i]
    BY <1>7, <2>2, <2>3
  <2> QED
    BY <1>7, <2>1, <2>4, GetEntry
<1>13. ASSUME NEW a, NEW b, Before(s, a, b)
       PROVE  a # k /\ (b = k \/ Before(m, a, b))
  <2>1. PICK n \in DOMAIN s, j \in DOMAIN s : n < j /\ s[n].key = a /\ s[j].key = b
    BY <1>13, Zenon DEF Before
  <2>2. n # Len(w) + 1
    BY <1>7, <1>8, <2>1
  <2>3. n \in DOMAIN w /\ s[n] = w[n]
    BY <1>7, <1>9, <2>2
  <2>4. a # k
    BY <1>2, <1>1, <2>1, <2>3
  <2>5. CASE j = Len(w) + 1
    BY <1>1, <1>7, <2>1, <2>4, <2>5
  <2>6. CASE j # Len(w) + 1
    <3>1. j \in DOMAIN w /\ s[j] = w[j]
      BY <1>7, <1>9, <2>6
    <3>2. \E i, q \in DOMAIN m : i < q /\ w[n] = m[i] /\ w[j] = m[q]
      BY <1>3, <2>1, <2>3, <3>1
    <3> QED
      BY <2>1, <2>3, <2>4, <3>1, <3>2 DEF Before
  <2> QED
    BY <2>5, <2>6
<1>14. ASSUME NEW x, x # k, Holds(m, x), ~ Holds(s, x)
       PROVE  /\ \A y : y # k /\ y # x /\ Holds(m, y) => Before(m, x, y)
              /\ Cardinality(KeysOf(m) \ {k}) >= capacity
  <2>1. x \in K
    <3>1. ASSUME x \notin K
          PROVE  \E n \in DOMAIN w : w[n].key = x
      BY <1>2, <1>14, <3>1 DEF Holds, KeysOf
    <3>2. \A n \in DOMAIN w : w[n].key # x
      BY <1>7, <1>10, <1>14 DEF Holds, KeysOf
    <3> QED
      BY <3>1, <3>2
  <2>2. Len(rest) >= capacity /\ x = Head(rest).key
    BY <1>5, <1>14, <2>1
  <2>3. /\ rest \in Seq(E) /\ Len(rest) \in Nat /\ DOMAIN rest = 1..Len(rest)
        /\ \A i, j \in 1..Len(rest) : rest[i].key = rest[j].key => i = j
    BY <1>4, MapDef
  <2>4. 1 \in DOMAIN rest /\ rest[1].key = x
    <3>1. Len(rest) >= 1
      BY <2>2, <2>3
    <3> QED
      BY <2>2, <2>3, <3>1
  <2>5. Cardinality(KeysOf(m) \ {k}) >= capacity
    BY <1>4, <2>2, KeysCardinality
  <2>6. ASSUME NEW y, y # k, y # x, Holds(m, y)
        PROVE  Before(m, x, y)
    <3>1. PICK q \in DOMAIN m : m[q].key = y
      BY <2>6 DEF Holds, KeysOf
    <3>2. PICK j \in DOMAIN rest : rest[j] = m[q]
      BY <1>4, <2>6, <3>1
    <3>3. 1 < j
      BY <2>3, <2>4, <2>6, <3>1, <3>2
    <3>4. \E i, r \in DOMAIN m : i < r /\ rest[1] = m[i] /\ rest[j] = m[r]
      BY <1>4, <2>4, <3>2, <3>3
    <3> QED
      BY <2>4, <3>1, <3>2, <3>4 DEF Before
  <2> QED
    BY <2>5, <2>6
<1> QED
  BY <1>7, <1>11, <1>12, <1>13, <1>14 DEF s
=============================================================================
