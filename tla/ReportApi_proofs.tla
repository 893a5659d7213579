-------------------------- MODULE ReportApi_proofs --------------------------
(***************************************************************************)
(* What the public report API guarantees, for any verdicts, buyers, tokens *)
(* and limits: the store of verdict cards, the report quotes, the payment  *)
(* readiness, and the rate limiter.                                        *)
(***************************************************************************)
EXTENDS MCReportApi, BoundedMap_proofs, FunctionTheorems, TLAPS

(* What a table keeps of its rows were its rows, whatever the maximum.     *)
LEMMA NewestKeeps == \A table, maximum : Newest(table, maximum) \subseteq table
BY DEF Newest

LEMMA InitTypeOK == Init => TypeOK
<1> SUFFICES ASSUME Init PROVE TypeOK
  OBVIOUS
<1> QED
  BY PublicArtifactsAssumption, SMT DEF Init, TypeOK, Sequences

LEMMA StepTypeOK == TypeOK /\ [Next]_vars => TypeOK'
<1> SUFFICES ASSUME TypeOK, [Next]_vars PROVE TypeOK'
  OBVIOUS
<1> USE PublicArtifactsAssumption
<1>1. ASSUME NEW r \in Requests, NEW c \in Cards, PostCard(r, c) PROVE TypeOK'
  BY <1>1 DEF PostCard, TypeOK, store, configuration
<1>2. ASSUME NEW r \in Requests, CardRefused(r) PROVE TypeOK'
  BY <1>2 DEF CardRefused, TypeOK, store, configuration
<1>3. ASSUME NEW r \in Requests, CardSaved(r) PROVE TypeOK'
  <2> DEFINE c == waiting[r]
  <2>1. c \in Cards
    BY <1>3 DEF CardSaved, TypeOK
  <2>2. rows' \subseteq Inserted(c) /\ entries' \subseteq entries
    BY <1>3, NewestKeeps DEF CardSaved, saveCard, Cascaded
  <2>3. cardSequence' \in Sequences /\ cardSequence <= cardSequence'
    BY <1>3 DEF CardSaved, saveCard, TypeOK, Sequences
  <2>4. Inserted(c) \subseteq [sequence : 1..cardSequence', id : Cards]
    <3>1. CASE Inserted(c) = rows
      BY <2>3, <3>1 DEF TypeOK, Sequences
    <3>2. CASE Inserted(c) # rows
      <4>1. cardSequence' = cardSequence + 1
        BY <1>3, <3>2 DEF CardSaved, saveCard
      <4>2. Inserted(c) = rows \union {[sequence |-> cardSequence + 1, id |-> c]}
        BY <3>2 DEF Inserted
      <4> QED
        BY <2>1, <4>1, <4>2 DEF TypeOK, Sequences
    <3> QED
      BY <3>1, <3>2
  <2>5. entries' \subseteq [sequence : 1..feedSequence', card_id : Cards]
    BY <1>3, <2>2 DEF CardSaved, saveCard, TypeOK
  <2>6. waiting' \in [Requests -> Cards \union {None}]
    BY <1>3 DEF CardSaved, TypeOK
  <2> QED
    BY <1>3, <2>2, <2>3, <2>4, <2>5, <2>6 DEF CardSaved, saveCard, TypeOK, configuration
<1>4. ASSUME NEW c \in Cards, Share(c) PROVE TypeOK'
  <2>1. entries' \subseteq entries \union {[sequence |-> feedSequence + 1, card_id |-> c]}
    BY <1>4, NewestKeeps DEF Share, shareCard
  <2>2. feedSequence' = feedSequence + 1 /\ feedSequence' \in Sequences
    BY <1>4 DEF Share, shareCard, TypeOK, Sequences
  <2>3. entries' \subseteq [sequence : 1..feedSequence', card_id : Cards]
    BY <2>1, <2>2 DEF TypeOK, Sequences
  <2> QED
    BY <1>4, <2>2, <2>3 DEF Share, shareCard, TypeOK, configuration
<1>5. ASSUME NEW t \in Transactions, NEW v \in Verdicts, Record(t, v) PROVE TypeOK'
  BY <1>5 DEF Record, TypeOK, store, configuration
<1>6. ASSUME Restart PROVE TypeOK'
  BY <1>6 DEF Restart, TypeOK, store
<1>7. CASE UNCHANGED vars
  BY <1>7 DEF vars, TypeOK
<1> QED
  BY <1>1, <1>2, <1>3, <1>4, <1>5, <1>6, <1>7 DEF Next

-----------------------------------------------------------------------------
(* Every entry of the feed has its card, whatever the limits become.       *)
LEMMA StepEntries == EntriesHaveCards /\ [Next]_vars => EntriesHaveCards'
<1> SUFFICES ASSUME EntriesHaveCards, [Next]_vars PROVE EntriesHaveCards'
  OBVIOUS
<1>1. ASSUME NEW r \in Requests, CardSaved(r) PROVE EntriesHaveCards'
  BY <1>1 DEF CardSaved, saveCard, Cascaded, EntriesHaveCards, Saved, Shared
<1>2. ASSUME NEW c \in Cards, Share(c) PROVE EntriesHaveCards'
  <2>1. entries' \subseteq entries \union {[sequence |-> feedSequence + 1, card_id |-> c]}
    BY <1>2, NewestKeeps DEF Share, shareCard
  <2>2. c \in Saved /\ rows' = rows
    BY <1>2 DEF Share, shareCard
  <2> QED
    BY <2>1, <2>2 DEF EntriesHaveCards, Saved, Shared
<1>3. CASE UNCHANGED store
  BY <1>3 DEF store, EntriesHaveCards, Saved, Shared
<1>4. QED
  BY <1>1, <1>2, <1>3
     DEF Next, PostCard, CardRefused, Record, Restart, vars, store

(* Every card of the store has its own record: it was verified when it was *)
(* saved, and what a transaction recorded does not change.                 *)
LEMMA StepRecorded == TypeOK /\ CardsAreRecorded /\ [Next]_vars => CardsAreRecorded'
<1> SUFFICES ASSUME TypeOK, CardsAreRecorded, [Next]_vars PROVE CardsAreRecorded'
  OBVIOUS
<1>1. ASSUME NEW r \in Requests, CardSaved(r) PROVE CardsAreRecorded'
  <2>1. rows' \subseteq Inserted(waiting[r]) /\ recorded' = recorded
    BY <1>1, NewestKeeps DEF CardSaved, saveCard
  <2>2. Saved' \subseteq Saved \union {waiting[r]}
    BY <2>1 DEF Saved, Inserted
  <2> QED
    BY <1>1, <2>1, <2>2 DEF CardSaved, Verified, CardsAreRecorded
<1>2. ASSUME NEW c \in Cards, Share(c) PROVE CardsAreRecorded'
  BY <1>2 DEF Share, shareCard, CardsAreRecorded, Saved
<1>3. ASSUME NEW t \in Transactions, NEW v \in Verdicts, Record(t, v) PROVE CardsAreRecorded'
  <2>1. Saved' = Saved /\ Saved \subseteq Cards
    BY <1>3 DEF Record, store, Saved, TypeOK
  <2>2. \A c \in Saved : c.transaction \in Transactions /\ c.transaction # t
    BY <1>3, <2>1, PublicArtifactsAssumption DEF Record, CardsAreRecorded, Cards
  <2> QED
    BY <1>3, <2>1, <2>2 DEF Record, CardsAreRecorded, TypeOK
<1>4. CASE UNCHANGED <<store, recorded>>
  BY <1>4 DEF store, CardsAreRecorded, Saved
<1> QED
  BY <1>1, <1>2, <1>3, <1>4 DEF Next, PostCard, CardRefused, Restart, vars, store

(* For any limits, also ones that change between restarts, the page of a   *)
(* shared entry has a card, and every card the record it names.            *)
THEOREM SharedCardsAreRecorded == Spec => [](EntriesHaveCards /\ CardsAreRecorded)
<1>1. Init => TypeOK /\ EntriesHaveCards /\ CardsAreRecorded
  BY InitTypeOK DEF Init, EntriesHaveCards, CardsAreRecorded, Saved, Shared
<1>2. TypeOK /\ EntriesHaveCards /\ CardsAreRecorded /\ [Next]_vars
        => (TypeOK /\ EntriesHaveCards /\ CardsAreRecorded)'
  BY StepTypeOK, StepEntries, StepRecorded
<1> QED
  BY <1>1, <1>2, PTL DEF Spec

(* The rows of both tables are numbered by what their counters reached.    *)
THEOREM StoreTypes == Spec => []TypeOK
BY InitTypeOK, StepTypeOK, PTL DEF Spec

----------------------------------------------------------------------------
(* The SQLite store promises what the store in memory does.  A card's place *)
(* is the rank of its row's number.                                        *)

Numbers(table) == {r.sequence : r \in table}

IsTable(table) ==
  /\ IsFiniteSet(table)
  /\ \A r \in table : r.sequence \in Nat
  /\ \A r, s \in table : r.sequence = s.sequence => r = s

Place(table, r) == Rank(Numbers(table), r.sequence)

RowsBefore(table, r) == {s \in table : s.sequence < r.sequence}
RowsAfter(table, r) == {s \in table : s.sequence > r.sequence}

(* Rows are counted by their numbers.                                       *)
LEMMA RowsByNumber ==
  ASSUME NEW table, IsTable(table), NEW A \in SUBSET table
  PROVE  /\ IsTable(A) /\ IsFiniteSet(A) /\ Cardinality(A) \in Nat
         /\ IsFiniteSet(Numbers(A)) /\ Numbers(A) \in SUBSET Nat
         /\ Cardinality(Numbers(A)) = Cardinality(A)
<1>1. IsFiniteSet(A)
  BY FS_Subset DEF IsTable
<1>2. IsTable(A)
  BY <1>1 DEF IsTable
<1>3. Numbers(A) \in SUBSET Nat
  BY <1>2 DEF IsTable, Numbers
<1> DEFINE f == [r \in A |-> r.sequence]
<1>4. f \in Bijection(A, Numbers(A))
  <2>1. f \in [A -> Numbers(A)]
    BY DEF Numbers
  <2>2. \A r, s \in A : f[r] = f[s] => r = s
    BY <1>2 DEF IsTable
  <2>3. \A n \in Numbers(A) : \E r \in A : f[r] = n
    BY DEF Numbers
  <2> HIDE DEF f
  <2> QED BY <2>1, <2>2, <2>3, Fun_IsBij
<1>5. ExistsBijection(A, Numbers(A))
  BY <1>4 DEF ExistsBijection
<1> QED BY <1>1, <1>2, <1>3, <1>5, FS_Bijection, FS_CardinalityType

(* The number of rows before one, and of those after it.                    *)
LEMMA RowsAround ==
  ASSUME NEW table, IsTable(table), NEW r \in table
  PROVE  /\ Place(table, r) \in 1..Cardinality(table) /\ Cardinality(table) \in Nat
         /\ Cardinality(RowsBefore(table, r)) = Place(table, r) - 1
         /\ Cardinality(RowsAfter(table, r)) = Cardinality(table) - Place(table, r)
<1> DEFINE upTo == {s \in table : s.sequence <= r.sequence}
           before == {s \in table : s.sequence < r.sequence}
           after == {s \in table : s.sequence > r.sequence}
<1>0. \A s \in table : s.sequence \in Nat
  BY DEF IsTable
<1>1. /\ IsFiniteSet(upTo) /\ IsFiniteSet(after) /\ IsFiniteSet(table)
      /\ Cardinality(upTo) \in Nat /\ Cardinality(after) \in Nat /\ Cardinality(table) \in Nat
      /\ Cardinality(Numbers(upTo)) = Cardinality(upTo)
      /\ IsFiniteSet(Numbers(table)) /\ Numbers(table) \in SUBSET Nat
      /\ Cardinality(Numbers(table)) = Cardinality(table)
  BY RowsByNumber
<1>2. Numbers(upTo) = {j \in Numbers(table) : j <= r.sequence}
  BY DEF Numbers
<1>3. Cardinality(upTo) = Place(table, r)
  BY <1>1, <1>2 DEF Place, Rank
<1>4. Place(table, r) \in 1..Cardinality(table)
  <2>1. r.sequence \in Numbers(table)
    BY DEF Numbers
  <2> QED BY <1>1, <2>1, RanksDiffer DEF Place
<1>5. before = upTo \ {r} /\ r \in upTo
  BY <1>0 DEF IsTable
<1>6. Cardinality(before) = Cardinality(upTo) - 1
  <2> HIDE DEF upTo, before
  <2> QED BY <1>1, <1>5, FS_RemoveElement
<1>7. Cardinality(table) = Cardinality(upTo) + Cardinality(after)
  <2>1. upTo \cup after = table /\ upTo \cap after = {}
    BY <1>0
  <2> HIDE DEF upTo, after
  <2>2. Cardinality(upTo \cup after) =
          Cardinality(upTo) + Cardinality(after) - Cardinality(upTo \cap after)
    BY <1>1, FS_Union
  <2>3. Cardinality(upTo \cap after) = 0
    BY <2>1, FS_EmptySet
  <2>4. Cardinality(upTo \cup after) = Cardinality(table)
    BY <2>1
  <2> QED BY <1>1, <2>2, <2>3, <2>4
<1> HIDE DEF upTo, before, after
<1>8. /\ Cardinality(before) = Place(table, r) - 1
      /\ Cardinality(after) = Cardinality(table) - Place(table, r)
  BY <1>1, <1>3, <1>4, <1>6, <1>7
<1>9. before = RowsBefore(table, r) /\ after = RowsAfter(table, r)
  BY DEF before, after, RowsBefore, RowsAfter
<1> QED BY <1>1, <1>4, <1>8, <1>9

(* Each row is at its place, and each place has its row.                    *)
LEMMA RowsInOrder ==
  ASSUME NEW table, IsTable(table)
  PROVE  /\ Cardinality(table) \in Nat
         /\ InOrder(table) = [i \in 1..Cardinality(table) |-> InOrder(table)[i]]
         /\ \A i \in 1..Cardinality(table) :
              InOrder(table)[i] \in table /\ Place(table, InOrder(table)[i]) = i
         /\ \A r \in table :
              Place(table, r) \in 1..Cardinality(table) /\ InOrder(table)[Place(table, r)] = r
         /\ \A r, s \in table : Place(table, r) = Place(table, s) => r = s
         /\ \A r, s \in table : r.sequence < s.sequence => Place(table, r) < Place(table, s)
<1> DEFINE N == Numbers(table)
           row(i) == CHOOSE r \in table : Cardinality(RowsBefore(table, r)) = i - 1
<1>1. /\ IsFiniteSet(N) /\ N \in SUBSET Nat /\ Cardinality(N) = Cardinality(table)
      /\ Cardinality(table) \in Nat
  BY RowsByNumber
<1>2. \A r, s \in table : r.sequence < s.sequence => Place(table, r) < Place(table, s)
  <2>1. \A r \in table : r.sequence \in N
    BY DEF Numbers
  <2> QED BY <1>1, <2>1, RanksDiffer DEF Place
<1>3. \A r, s \in table : Place(table, r) = Place(table, s) => r = s
  <2> SUFFICES ASSUME NEW r \in table, NEW s \in table,
                      Place(table, r) = Place(table, s), r.sequence # s.sequence
               PROVE  FALSE
    BY DEF IsTable
  <2>1. r.sequence \in Nat /\ s.sequence \in Nat
    BY DEF IsTable
  <2>2. Place(table, r) \in 1..Cardinality(table)
    BY RowsAround
  <2>3. Place(table, r) < Place(table, s) \/ Place(table, s) < Place(table, r)
    BY <1>2, <2>1
  <2> QED BY <1>1, <2>2, <2>3
<1>4. ASSUME NEW i \in 1..Cardinality(table)
      PROVE  row(i) \in table /\ Place(table, row(i)) = i
  <2>1. Nth(N, i) \in N /\ Rank(N, Nth(N, i)) = i
    BY <1>1, NthRank
  <2>2. PICK r \in table : r.sequence = Nth(N, i)
    BY <2>1 DEF Numbers
  <2>3. Cardinality(RowsBefore(table, r)) = i - 1
    BY <2>1, <2>2, RowsAround DEF Place
  <2>4. row(i) \in table /\ Cardinality(RowsBefore(table, row(i))) = i - 1
    BY <2>3, Zenon
  <2> HIDE DEF row
  <2>5. Place(table, row(i)) - 1 = i - 1 /\ Place(table, row(i)) \in 1..Cardinality(table)
    BY <2>4, RowsAround
  <2> QED BY <1>1, <2>4, <2>5
<1> HIDE DEF N
<1>5. InOrder(table) = [i \in 1..Cardinality(table) |-> row(i)]
  BY DEF InOrder, RowsBefore
<1> HIDE DEF row
<1>6. \A i \in 1..Cardinality(table) : InOrder(table)[i] = row(i)
  BY <1>5
<1>7. \A r \in table :
        Place(table, r) \in 1..Cardinality(table) /\ InOrder(table)[Place(table, r)] = r
  <2> SUFFICES ASSUME NEW r \in table
               PROVE  Place(table, r) \in 1..Cardinality(table) /\ InOrder(table)[Place(table, r)] = r
    OBVIOUS
  <2>1. Place(table, r) \in 1..Cardinality(table)
    BY RowsAround
  <2> QED BY <1>3, <1>4, <1>6, <2>1
<1> QED BY <1>1, <1>2, <1>3, <1>4, <1>5, <1>6, <1>7

(* No two numbers have one rank.                                            *)
LEMMA RankInjective ==
  ASSUME NEW I \in SUBSET Nat, IsFiniteSet(I)
  PROVE  \A a, b \in I : Rank(I, a) = Rank(I, b) => a = b
<1> SUFFICES ASSUME NEW a \in I, NEW b \in I, Rank(I, a) = Rank(I, b), a # b PROVE FALSE
  OBVIOUS
<1>1. Rank(I, a) \in 1..Cardinality(I) /\ Cardinality(I) \in Nat
  BY RanksDiffer
<1>2. Rank(I, a) < Rank(I, b) \/ Rank(I, b) < Rank(I, a)
  BY RanksDiffer
<1> QED BY <1>1, <1>2

(* Some of the rows are in the order that all of them are in.               *)
Places(table, T) == {Place(table, r) : r \in T}

LEMMA SomeRowsInOrder ==
  ASSUME NEW table, IsTable(table), NEW T \in SUBSET table
  PROVE  /\ Cardinality(Places(table, T)) = Cardinality(T)
         /\ Cardinality(T) \in Nat
         /\ Places(table, T) \in SUBSET (1..Cardinality(table))
         /\ \A n \in 1..Cardinality(T) :
              /\ Nth(Places(table, T), n) \in Places(table, T)
              /\ InOrder(T)[n] = InOrder(table)[Nth(Places(table, T), n)]
<1> DEFINE P == Places(table, T)
<1>1. IsTable(T) /\ Cardinality(T) \in Nat /\ IsFiniteSet(T) /\ Cardinality(table) \in Nat
  BY RowsByNumber
<1>2. P \in SUBSET (1..Cardinality(table)) /\ P \in SUBSET Nat
  <2>1. \A r \in T : Place(table, r) \in 1..Cardinality(table)
    BY RowsInOrder
  <2> QED BY <1>1, <2>1 DEF Places
<1>3. \A r, s \in T : Place(table, r) = Place(table, s) => r = s
  BY RowsInOrder
<1>4. ASSUME NEW A \in SUBSET T
      PROVE  IsFiniteSet(Places(table, A)) /\ Cardinality(Places(table, A)) = Cardinality(A)
  <2>1. IsFiniteSet(A)
    BY <1>1, FS_Subset
  <2> DEFINE f == [r \in A |-> Place(table, r)]
  <2>2. f \in [A -> Places(table, A)]
    BY DEF Places
  <2>3. \A r, s \in A : f[r] = f[s] => r = s
    BY <1>3
  <2>4. \A n \in Places(table, A) : \E r \in A : f[r] = n
    BY DEF Places
  <2> HIDE DEF f
  <2>5. f \in Bijection(A, Places(table, A))
    BY <2>2, <2>3, <2>4, Fun_IsBij
  <2>6. ExistsBijection(A, Places(table, A))
    BY <2>5 DEF ExistsBijection
  <2> QED BY <2>1, <2>6, FS_Bijection
<1>5. IsFiniteSet(P) /\ Cardinality(P) = Cardinality(T)
  BY <1>4
<1>6. ASSUME NEW n \in 1..Cardinality(T)
      PROVE  Nth(P, n) \in P /\ InOrder(T)[n] = InOrder(table)[Nth(P, n)]
  <2> PICK r : r = InOrder(T)[n]
    OBVIOUS
  <2>1. r \in T /\ Place(T, r) = n
    BY <1>1, RowsInOrder
  <2> DEFINE A == {s \in T : s.sequence <= r.sequence}
             p == Place(table, r)
  <2>2. Cardinality(A) = n
    <3>1. Numbers(A) = {j \in Numbers(T) : j <= r.sequence}
      BY DEF Numbers
    <3>2. Cardinality(Numbers(A)) = Cardinality(A)
      BY <1>1, RowsByNumber
    <3> HIDE DEF A
    <3> QED BY <2>1, <3>1, <3>2 DEF Place, Rank
  <2>3. Places(table, A) = {q \in P : q <= p}
    <3>1. ASSUME NEW s \in T
          PROVE  s.sequence <= r.sequence <=> Place(table, s) <= p
      <4>1. s.sequence \in Nat /\ r.sequence \in Nat /\ (s.sequence = r.sequence => s = r)
        BY <2>1, <1>1 DEF IsTable
      <4>2. Place(table, s) \in Nat /\ p \in Nat
        BY <1>2, <2>1 DEF Places
      <4>3. s.sequence < r.sequence => Place(table, s) < p
        BY <2>1, RowsInOrder
      <4>4. r.sequence < s.sequence => p < Place(table, s)
        BY <2>1, RowsInOrder
      <4> HIDE DEF p
      <4>5. s.sequence = r.sequence => Place(table, s) = p
        BY <4>1 DEF p
      <4> QED BY <4>1, <4>2, <4>3, <4>4, <4>5
    <3> HIDE DEF p
    <3> QED BY <3>1 DEF Places
  <2>4. Rank(P, p) = n
    <3>1. Cardinality(Places(table, A)) = Cardinality(A)
      BY <1>4
    <3> HIDE DEF A, p, P
    <3> QED BY <2>2, <2>3, <3>1 DEF Rank
  <2>5. p \in P
    BY <2>1 DEF Places
  <2>6. Nth(P, n) \in P /\ Rank(P, Nth(P, n)) = n
    BY <1>2, <1>5, NthRank
  <2>7. \A a, b \in P : Rank(P, a) = Rank(P, b) => a = b
    BY <1>2, <1>5, <1>1, RankInjective
  <2>8. Nth(P, n) = p
    BY <2>4, <2>5, <2>6, <2>7
  <2>9. InOrder(table)[p] = r
    BY <2>1, RowsInOrder
  <2> QED BY <2>5, <2>8, <2>9
<1> QED BY <1>1, <1>2, <1>5, <1>6

(* Without a gap, the n-th number is n.                                     *)
LEMMA NthOfInterval ==
  ASSUME NEW a \in Nat, NEW b \in Nat, a >= 1
  PROVE  /\ IsFiniteSet(a..b) /\ (a..b) \in SUBSET Nat
         /\ Cardinality(a..b) = IF a > b THEN 0 ELSE b - a + 1
         /\ \A n \in 1..(b - a + 1) : Nth(a..b, n) = a + n - 1
<1>1. /\ IsFiniteSet(a..b) /\ (a..b) \in SUBSET Nat
      /\ Cardinality(a..b) = IF a > b THEN 0 ELSE b - a + 1
  BY FS_Interval
<1>2. ASSUME NEW i \in a..b
      PROVE  Rank(a..b, i) = i - a + 1
  <2>1. {j \in a..b : j <= i} = a..i
    OBVIOUS
  <2>2. Cardinality(a..i) = i - a + 1
    BY FS_Interval
  <2> QED BY <2>1, <2>2 DEF Rank
<1>3. ASSUME NEW n \in 1..(b - a + 1)
      PROVE  Nth(a..b, n) = a + n - 1
  <2>1. n \in 1..Cardinality(a..b)
    BY <1>1
  <2>2. Nth(a..b, n) \in a..b /\ Rank(a..b, Nth(a..b, n)) = n
    BY <1>1, <2>1, NthRank
  <2> PICK i : i = Nth(a..b, n)
    OBVIOUS
  <2>3. i \in a..b /\ n = i - a + 1
    BY <1>2, <2>2
  <2> QED BY <2>3
<1> QED BY <1>1, <1>3

(* A row with a higher number comes last.                                   *)
HasLast(big, table, r) ==
  big = table \cup {r} /\ r \notin table /\ \A s \in table : s.sequence < r.sequence

LEMMA AppendedRow ==
  ASSUME NEW table, NEW r, NEW big, HasLast(big, table, r), IsTable(big)
  PROVE  /\ Cardinality(big) = Cardinality(table) + 1 /\ Cardinality(table) \in Nat
         /\ InOrder(big)[Cardinality(table) + 1] = r
         /\ \A i \in 1..Cardinality(table) : InOrder(big)[i] = InOrder(table)[i]
<1> DEFINE m == Cardinality(table)
<1>1. table \in SUBSET big /\ r \in big /\ big = table \cup {r}
  BY DEF HasLast
<1>2. IsTable(table) /\ IsFiniteSet(table) /\ m \in Nat
  BY <1>1, RowsByNumber
<1>3. Cardinality(big) = m + 1
  BY <1>2, FS_AddElement DEF HasLast
<1> DEFINE P == Places(big, table)
<1>4. IsTable(big)
  OBVIOUS
<1>5. /\ Place(big, r) \in 1..(m + 1)
      /\ \A s \in table : Place(big, s) \in 1..(m + 1) /\ Place(big, s) < Place(big, r)
  BY <1>1, <1>3, <1>4, RowsInOrder DEF HasLast
<1>6. Cardinality(P) = m /\ P \in SUBSET (1..(m + 1))
  BY <1>1, <1>3, <1>4, SomeRowsInOrder
<1>7. Place(big, r) = m + 1
  <2> SUFFICES ASSUME Place(big, r) # m + 1
               PROVE  FALSE
    OBVIOUS
  <2> PICK s : s = InOrder(big)[m + 1]
    OBVIOUS
  <2>1. s \in big /\ Place(big, s) = m + 1
    BY <1>2, <1>3, <1>4, RowsInOrder
  <2>2. s \in table
    BY <1>1, <2>1
  <2>3. Place(big, s) < Place(big, r) /\ Place(big, r) \in 1..(m + 1)
    BY <1>5, <2>2
  <2> QED BY <1>2, <2>1, <2>3
<1>8. P = 1..m
  <2>1. \A s \in table : Place(big, s) \in 1..m
    BY <1>2, <1>5, <1>7
  <2>2. ASSUME NEW i \in 1..m
        PROVE  \E s \in table : Place(big, s) = i
    <3> PICK s : s = InOrder(big)[i]
      OBVIOUS
    <3>1. s \in big /\ Place(big, s) = i
      BY <1>2, <1>3, <1>4, RowsInOrder
    <3>2. s # r
      BY <1>2, <1>7, <3>1
    <3> QED BY <1>1, <3>1, <3>2
  <2> QED BY <2>1, <2>2 DEF Places
<1>9. ASSUME NEW i \in 1..m
      PROVE  InOrder(big)[i] = InOrder(table)[i]
  <2>1. Nth(P, i) = i
    BY <1>2, <1>8, NthOfInterval
  <2>2. \A n \in 1..Cardinality(table) : InOrder(table)[n] = InOrder(big)[Nth(P, n)]
    BY <1>1, <1>4, SomeRowsInOrder
  <2> HIDE DEF P
  <2> QED BY <2>1, <2>2
<1>10. InOrder(big)[m + 1] = r
  BY <1>1, <1>4, <1>7, RowsInOrder
<1> QED BY <1>2, <1>3, <1>9, <1>10

(* What a table keeps are its last rows.                                    *)
LEMMA NewestRows ==
  ASSUME NEW table, IsTable(table), NEW maximum \in Nat
  PROVE  LET size == Cardinality(table)
             gone == IF size > maximum THEN size - maximum ELSE 0
         IN  /\ Newest(table, maximum) \in SUBSET table
             /\ size \in Nat /\ gone \in 0..size
             /\ Cardinality(Newest(table, maximum)) = size - gone
             /\ \A n \in 1..(size - gone) :
                  InOrder(Newest(table, maximum))[n] = InOrder(table)[gone + n]
<1> DEFINE size == Cardinality(table)
           gone == IF size > maximum THEN size - maximum ELSE 0
           kept == Newest(table, maximum)
           P == Places(table, kept)
<1>1. kept \in SUBSET table
  BY NewestKeeps
<1>2. size \in Nat /\ gone \in Nat /\ gone <= size
  BY RowsInOrder
<1>3. \A r \in table : r \in kept <=> Place(table, r) > gone
  <2> TAKE r \in table
  <2>1. Cardinality(RowsAfter(table, r)) = size - Place(table, r) /\ Place(table, r) \in 1..size
    BY RowsAround
  <2>2. r \in kept <=> Cardinality(RowsAfter(table, r)) < maximum
    BY DEF Newest, RowsAfter
  <2> HIDE DEF kept
  <2> QED BY <1>2, <2>1, <2>2
<1> HIDE DEF kept
<1>4. P = (gone + 1)..size
  <2>1. \A r \in kept : Place(table, r) \in (gone + 1)..size
    <3> TAKE r \in kept
    <3>1. Place(table, r) \in 1..size /\ Place(table, r) > gone
      BY <1>1, <1>3, RowsAround
    <3> HIDE DEF size, gone
    <3> QED BY <1>2, <3>1
  <2>2. ASSUME NEW i \in (gone + 1)..size
        PROVE  \E r \in kept : Place(table, r) = i
    <3>0. i \in 1..size /\ i > gone
      <4> HIDE DEF size, gone
      <4> QED BY <1>2
    <3> PICK r : r = InOrder(table)[i]
      OBVIOUS
    <3>1. r \in table /\ Place(table, r) = i
      BY <3>0, RowsInOrder
    <3> QED BY <1>3, <3>0, <3>1
  <2> HIDE DEF size, gone
  <2> QED BY <2>1, <2>2 DEF Places
<1>5. Cardinality(P) = Cardinality(kept)
      /\ \A n \in 1..Cardinality(kept) : InOrder(kept)[n] = InOrder(table)[Nth(P, n)]
  BY <1>1, SomeRowsInOrder
<1> HIDE DEF P, size, gone
<1>6. Cardinality(kept) = size - gone
  <2>1. Cardinality((gone + 1)..size) = IF gone + 1 > size THEN 0 ELSE size - (gone + 1) + 1
    BY <1>2, NthOfInterval
  <2> QED BY <1>2, <1>4, <1>5, <2>1
<1>7. \A n \in 1..(size - gone) : Nth(P, n) = gone + n
  BY <1>2, <1>4, NthOfInterval
<1> QED BY <1>1, <1>2, <1>5, <1>6, <1>7 DEF kept, size, gone

(* Whatever the limits, a row that a save deletes is older than all that   *)
(* stay, and as many stay as the limit allows.                             *)
LEMMA DroppedRow ==
  ASSUME NEW table, IsTable(table), NEW maximum \in Nat, NEW gone \in table,
         gone \notin Newest(table, maximum)
  PROVE  /\ Cardinality(Newest(table, maximum)) = maximum
         /\ \A kept \in Newest(table, maximum) : kept.sequence > gone.sequence
<1> DEFINE size == Cardinality(table)
           kept == Newest(table, maximum)
<1>1. size \in Nat /\ Cardinality(kept) = IF size > maximum THEN maximum ELSE size
  BY NewestRows
<1>2. ASSUME NEW r \in table
      PROVE  /\ r \in kept <=> size - Place(table, r) < maximum
             /\ Place(table, r) \in 1..size
  <2>1. Cardinality(RowsAfter(table, r)) = size - Place(table, r) /\ Place(table, r) \in 1..size
    BY RowsAround
  <2> QED BY <2>1 DEF Newest, RowsAfter
<1>3. kept \in SUBSET table
  BY NewestKeeps
<1> HIDE DEF size, kept
<1>4. size - Place(table, gone) >= maximum /\ Place(table, gone) \in 1..size
  BY <1>1, <1>2 DEF kept
<1>5. ASSUME NEW r \in kept
      PROVE  r.sequence > gone.sequence
  <2>1. Place(table, r) \in 1..size /\ Place(table, gone) < Place(table, r)
    BY <1>1, <1>2, <1>3, <1>4
  <2>2. r.sequence \in Nat /\ gone.sequence \in Nat /\ (r.sequence = gone.sequence => r = gone)
    BY <1>3 DEF IsTable
  <2>3. r.sequence < gone.sequence => Place(table, r) < Place(table, gone)
    BY <1>3, RowsInOrder
  <2> QED BY <1>1, <1>4, <2>1, <2>2, <2>3
<1> QED BY <1>1, <1>4, <1>5 DEF kept

(* What a table lists: the names its rows have, in their order.            *)
Listing(table, name) == [i \in 1..Cardinality(table) |-> name[InOrder(table)[i]]]

Named(table, name, S) == \A r \in table : name[r] \in S

(* The store in memory counts ranks as the bounded maps do.                *)
LEMMA StoreListed == \A s : Store!Listed(s) = {s[i] : i \in DOMAIN s}
BY Zenon DEF Store!Listed

ListedAt(s, K) == {i \in DOMAIN s : s[i] \in K}

LEMMA StoreKept ==
  \A s, K : Store!Kept(s, K) = [n \in 1..Cardinality(ListedAt(s, K)) |-> s[Nth(ListedAt(s, K), n)]]
<1>1. \A I, n : Store!Nth(I, n) = Nth(I, n)
  BY Zenon DEF Store!Nth, Nth, Store!Rank, Rank, Store!Cardinality, Cardinality
<1>2. \A I : Store!Cardinality(I) = Cardinality(I)
  BY Zenon DEF Store!Cardinality, Cardinality
<1> QED
  BY <1>1, <1>2 DEF Store!Kept, ListedAt

(* A listing is a sequence of the names of the rows.                       *)
LEMMA ListingIs ==
  ASSUME NEW table, IsTable(table), NEW S, NEW name, Named(table, name, S)
  PROVE  /\ Listing(table, name) \in Seq(S)
         /\ Len(Listing(table, name)) = Cardinality(table) /\ Cardinality(table) \in Nat
         /\ DOMAIN Listing(table, name) = 1..Cardinality(table)
         /\ \A i \in 1..Cardinality(table) : Listing(table, name)[i] = name[InOrder(table)[i]]
         /\ Store!Listed(Listing(table, name)) = {name[r] : r \in table}
<1> DEFINE s == Listing(table, name)
<1>1. /\ Cardinality(table) \in Nat
      /\ \A i \in 1..Cardinality(table) : InOrder(table)[i] \in table
      /\ \A r \in table :
           Place(table, r) \in 1..Cardinality(table) /\ InOrder(table)[Place(table, r)] = r
  BY RowsInOrder
<1>2. /\ DOMAIN s = 1..Cardinality(table)
      /\ \A i \in 1..Cardinality(table) : s[i] = name[InOrder(table)[i]]
  BY DEF Listing
<1>3. s \in [1..Cardinality(table) -> S]
  BY <1>1 DEF Listing, Named
<1>4. s \in Seq(S) /\ Len(s) = Cardinality(table)
  <2> HIDE DEF s
  <2> QED BY <1>1, <1>3
<1>5. Store!Listed(s) = {name[r] : r \in table}
  <2> HIDE DEF s
  <2>1. Store!Listed(s) = {s[i] : i \in DOMAIN s}
    BY StoreListed
  <2>2. \A i \in 1..Cardinality(table) : s[i] \in {name[r] : r \in table}
    BY <1>1, <1>2
  <2>3. \A r \in table : \E i \in 1..Cardinality(table) : s[i] = name[r]
    BY <1>1, <1>2
  <2> QED BY <1>2, <2>1, <2>2, <2>3
<1> QED BY <1>1, <1>2, <1>4, <1>5

(* Keeping the newest rows, adding a last one, and keeping those with some *)
(* names: what each does to the listing.                                   *)
LEMMA ListingNewest ==
  ASSUME NEW table, IsTable(table), NEW S, NEW name, Named(table, name, S), NEW maximum \in Nat
  PROVE  Listing(Newest(table, maximum), name) = Store!Newest(Listing(table, name), maximum)
<1> DEFINE s == Listing(table, name)
           kept == Newest(table, maximum)
           size == Cardinality(table)
           gone == IF size > maximum THEN size - maximum ELSE 0
<1>1. /\ size \in Nat /\ gone \in 0..size
      /\ Cardinality(kept) = size - gone
      /\ \A n \in 1..(size - gone) : InOrder(kept)[n] = InOrder(table)[gone + n]
  BY NewestRows
<1>2. /\ s \in Seq(S) /\ Len(s) = size
      /\ \A i \in 1..size : s[i] = name[InOrder(table)[i]]
  BY ListingIs
<1>3. Store!Newest(s, maximum) = SubSeq(s, gone + 1, size)
  <2>1. gone + 1 = IF size > maximum THEN size - maximum + 1 ELSE 1
    BY <1>1
  <2> HIDE DEF s, gone, size
  <2>2. Store!Newest(s, maximum) = SubSeq(s, IF size > maximum THEN size - maximum + 1 ELSE 1, size)
    BY <1>2 DEF Store!Newest
  <2> QED BY <2>1, <2>2
<1> HIDE DEF s, gone, size, kept
<1>4. SubSeq(s, gone + 1, size) = [n \in 1..(size - gone) |-> s[gone + n]]
  BY <1>1, <1>2
<1>5. \A n \in 1..(size - gone) : s[gone + n] = name[InOrder(kept)[n]]
  BY <1>1, <1>2
<1>6. Listing(kept, name) = [n \in 1..(size - gone) |-> name[InOrder(kept)[n]]]
  BY <1>1 DEF Listing
<1> QED BY <1>3, <1>4, <1>5, <1>6 DEF s, kept

LEMMA ListingAppend ==
  ASSUME NEW table, NEW r, NEW big, HasLast(big, table, r), IsTable(big),
         NEW S, NEW name, Named(big, name, S)
  PROVE  Listing(big, name) = Append(Listing(table, name), name[r])
<1> DEFINE before == Listing(table, name)
           after == Listing(big, name)
           m == Cardinality(table)
<1>1. /\ Cardinality(big) = m + 1 /\ m \in Nat
      /\ InOrder(big)[m + 1] = r
      /\ \A i \in 1..m : InOrder(big)[i] = InOrder(table)[i]
  BY AppendedRow
<1>2. IsTable(table) /\ Named(table, name, S)
  <2>1. table \in SUBSET big
    BY DEF HasLast
  <2> QED BY <2>1, RowsByNumber DEF Named
<1>3. before \in Seq(S) /\ Len(before) = m /\ \A i \in 1..m : before[i] = name[InOrder(table)[i]]
  BY <1>2, ListingIs
<1>4. /\ after \in Seq(S) /\ Len(after) = m + 1
      /\ \A i \in 1..(m + 1) : after[i] = name[InOrder(big)[i]]
  BY <1>1, ListingIs
<1> HIDE DEF before, after, m
<1>5. \A i \in 1..m : after[i] = before[i]
  BY <1>1, <1>3, <1>4
<1>6. after[m + 1] = name[r] /\ name[r] \in S
  <2>1. after[m + 1] = name[r]
    BY <1>1, <1>4
  <2>2. name[r] \in S
    BY DEF HasLast, Named
  <2> QED BY <2>1, <2>2
<1>7. after = Append(before, name[r])
  BY <1>1, <1>3, <1>4, <1>5, <1>6
<1> QED BY <1>7 DEF before, after

LEMMA ListingKept ==
  ASSUME NEW table, IsTable(table), NEW S, NEW name, Named(table, name, S), NEW K
  PROVE  Listing({r \in table : name[r] \in K}, name) = Store!Kept(Listing(table, name), K)
<1> DEFINE s == Listing(table, name)
           T == {r \in table : name[r] \in K}
           I == ListedAt(s, K)
           P == Places(table, T)
<1>1. T \in SUBSET table
  OBVIOUS
<1>2. /\ Cardinality(P) = Cardinality(T) /\ Cardinality(T) \in Nat
      /\ P \in SUBSET (1..Cardinality(table))
      /\ \A n \in 1..Cardinality(T) : Nth(P, n) \in P /\ InOrder(T)[n] = InOrder(table)[Nth(P, n)]
  BY <1>1, SomeRowsInOrder
<1>3. /\ s \in Seq(S) /\ DOMAIN s = 1..Cardinality(table)
      /\ \A i \in 1..Cardinality(table) : s[i] = name[InOrder(table)[i]]
  BY ListingIs
<1>4. /\ \A i \in 1..Cardinality(table) : InOrder(table)[i] \in table /\ Place(table, InOrder(table)[i]) = i
      /\ \A r \in table :
           Place(table, r) \in 1..Cardinality(table) /\ InOrder(table)[Place(table, r)] = r
  BY RowsInOrder
<1>5. P = I
  <2>1. \A r \in T : Place(table, r) \in I
    <3> HIDE DEF s
    <3> QED BY <1>3, <1>4 DEF ListedAt
  <2>2. \A i \in I : \E r \in T : Place(table, r) = i
    <3> TAKE i \in I
    <3> HIDE DEF s
    <3>1. i \in 1..Cardinality(table) /\ s[i] \in K
      BY <1>3 DEF ListedAt
    <3>2. InOrder(table)[i] \in T /\ Place(table, InOrder(table)[i]) = i
      BY <1>3, <1>4, <3>1
    <3> HIDE DEF T
    <3> QED BY <3>2
  <2> HIDE DEF I, T
  <2> QED BY <2>1, <2>2 DEF Places
<1>6. Store!Kept(s, K) = [j \in 1..Cardinality(I) |-> s[Nth(I, j)]]
  BY StoreKept
<1> HIDE DEF s, I, P, T
<1>7. \A j \in 1..Cardinality(T) : s[Nth(P, j)] = name[InOrder(T)[j]]
  BY <1>2, <1>3
<1>8. Listing(T, name) = [j \in 1..Cardinality(T) |-> name[InOrder(T)[j]]]
  BY DEF Listing
<1> QED BY <1>2, <1>5, <1>6, <1>7, <1>8 DEF s, T

(* The rows of both tables have numbers of their own.                      *)
Numbered == IsTable(rows) /\ IsTable(entries)

(* What is inserted is numbered above the rows that are there.             *)
LEMMA InsertedLast ==
  ASSUME TypeOK, Numbered, NEW c \in Cards, c \notin Saved
  PROVE  LET r == [sequence |-> cardSequence + 1, id |-> c]
         IN  HasLast(Inserted(c), rows, r) /\ IsTable(Inserted(c))
<1> DEFINE r == [sequence |-> cardSequence + 1, id |-> c]
<1>1. Inserted(c) = rows \cup {r}
  BY DEF Inserted
<1>2. \A s \in rows : s.sequence \in Nat /\ s.sequence < r.sequence
  BY DEF TypeOK, Sequences
<1>3. r \notin rows /\ r.sequence \in Nat
  BY <1>2 DEF TypeOK, Sequences
<1>4. IsFiniteSet(rows \cup {r})
  BY FS_AddElement DEF Numbered, IsTable
<1> HIDE DEF r
<1>5. IsTable(rows \cup {r})
  BY <1>2, <1>3, <1>4 DEF Numbered, IsTable
<1> QED BY <1>1, <1>2, <1>3, <1>5 DEF HasLast, r

LEMMA SharedLast ==
  ASSUME TypeOK, Numbered, NEW c \in Cards
  PROVE  LET e == [sequence |-> feedSequence + 1, card_id |-> c]
         IN  HasLast(entries \cup {e}, entries, e) /\ IsTable(entries \cup {e})
<1> DEFINE e == [sequence |-> feedSequence + 1, card_id |-> c]
<1>2. \A s \in entries : s.sequence \in Nat /\ s.sequence < e.sequence
  BY DEF TypeOK, Sequences
<1>3. e \notin entries /\ e.sequence \in Nat
  BY <1>2 DEF TypeOK, Sequences
<1>4. IsFiniteSet(entries \cup {e})
  BY FS_AddElement DEF Numbered, IsTable
<1> HIDE DEF e
<1>5. IsTable(entries \cup {e})
  BY <1>2, <1>3, <1>4 DEF Numbered, IsTable
<1> QED BY <1>2, <1>3, <1>5 DEF HasLast, e

LEMMA PartIsTable ==
  ASSUME NEW table, IsTable(table), NEW A, A \subseteq table
  PROVE  IsTable(A)
BY RowsByNumber

LEMMA StepNumbered == TypeOK /\ Numbered /\ [Next]_vars => Numbered'
<1> SUFFICES ASSUME TypeOK, Numbered, [Next]_vars PROVE Numbered'
  OBVIOUS
<1>1. ASSUME NEW r \in Requests, CardSaved(r) PROVE Numbered'
  <2> PICK c \in Cards : c = waiting[r]
    BY <1>1 DEF CardSaved, TypeOK
  <2>1. rows' = Newest(Inserted(c), maxVerdictCards) /\ entries' \subseteq entries
    BY <1>1 DEF CardSaved, saveCard, Cascaded
  <2>2. IsTable(Inserted(c))
    <3>1. CASE c \in Saved
      BY <3>1 DEF Inserted, Numbered
    <3>2. CASE c \notin Saved
      BY <3>2, InsertedLast
    <3> QED BY <3>1, <3>2
  <2>3. rows' \subseteq Inserted(c)
    BY <2>1, NewestKeeps
  <2> QED BY <2>1, <2>2, <2>3, PartIsTable DEF Numbered
<1>2. ASSUME NEW c \in Cards, Share(c) PROVE Numbered'
  <2> PICK e : e = [sequence |-> feedSequence + 1, card_id |-> c]
    OBVIOUS
  <2>1. entries' = Newest(entries \cup {e}, maxFeedEntries) /\ rows' = rows
    BY <1>2 DEF Share, shareCard
  <2>2. IsTable(entries \cup {e})
    BY SharedLast
  <2>3. entries' \subseteq entries \cup {e}
    BY <2>1, NewestKeeps
  <2> QED BY <2>1, <2>2, <2>3, PartIsTable DEF Numbered
<1>3. CASE UNCHANGED store
  BY <1>3 DEF store, Numbered
<1> QED
  BY <1>1, <1>2, <1>3 DEF Next, PostCard, CardRefused, Record, Restart, vars, store

LEMMA StepEviction == TypeOK /\ Numbered /\ [Next]_vars => OnlyOldestAreEvicted
<1> SUFFICES ASSUME TypeOK, Numbered, [Next]_vars,
                    NEW gone \in rows, gone.id \notin Saved'
             PROVE  /\ Cardinality(rows') = maxVerdictCards
                    /\ \A kept \in rows' : kept.sequence > gone.sequence
  BY DEF OnlyOldestAreEvicted
<1>1. ASSUME NEW r \in Requests, CardSaved(r)
      PROVE  /\ Cardinality(rows') = maxVerdictCards
             /\ \A kept \in rows' : kept.sequence > gone.sequence
  <2>1. \E table : IsTable(table) /\ gone \in table /\ rows' = Newest(table, maxVerdictCards)
    <3> PICK c \in Cards : c = waiting[r]
      BY <1>1 DEF CardSaved, TypeOK
    <3>1. IsTable(Inserted(c))
      <4>1. CASE c \in Saved
        BY <4>1 DEF Inserted, Numbered
      <4>2. CASE c \notin Saved
        BY <4>2, InsertedLast
      <4> QED BY <4>1, <4>2
    <3>2. gone \in Inserted(c) /\ rows' = Newest(Inserted(c), maxVerdictCards)
      BY <1>1 DEF CardSaved, saveCard, Inserted
    <3> QED BY <3>1, <3>2
  <2> PICK table : IsTable(table) /\ gone \in table /\ rows' = Newest(table, maxVerdictCards)
    BY <2>1
  <2>2. gone \notin rows'
    BY DEF Saved
  <2>3. maxVerdictCards \in Nat
    BY PublicArtifactsAssumption DEF TypeOK
  <2> QED BY <2>2, <2>3, DroppedRow
<1>2. CASE UNCHANGED rows
  BY <1>2 DEF Saved
<1> QED
  BY <1>1, <1>2 DEF Next, PostCard, CardRefused, Share, shareCard, Record, Restart, vars, store

(* A card is evicted only by as many newer ones as the limit allows:       *)
(* submitting a card again costs no newer card its place.                  *)
THEOREM EvictionIsOldestFirstCorrect == Spec => EvictionIsOldestFirst
<1>1. Init => TypeOK /\ Numbered
  <2> SUFFICES ASSUME Init PROVE TypeOK /\ Numbered
    OBVIOUS
  <2> QED BY InitTypeOK, FS_EmptySet DEF Init, Numbered, IsTable
<1>2. TypeOK /\ Numbered /\ [Next]_vars => TypeOK' /\ Numbered'
  BY StepTypeOK, StepNumbered
<1>3. TypeOK /\ Numbered /\ [Next]_vars => [OnlyOldestAreEvicted]_vars
  BY StepEviction
<1> QED
  BY <1>1, <1>2, <1>3, PTL DEF Spec, EvictionIsOldestFirst

(* What the cards and the feed are as listings.                            *)
IdsOf(table) == [r \in table |-> r.id]
CardsOf(table) == [e \in table |-> e.card_id]

LEMMA ListsCards ==
  ASSUME NEW table, IsTable(table), NEW all, table \subseteq all
  PROVE  LET s == InOrder(table)
         IN  [i \in DOMAIN s |-> s[i].id] = Listing(table, IdsOf(all))
<1>1. /\ DOMAIN InOrder(table) = 1..Cardinality(table)
      /\ \A i \in 1..Cardinality(table) : InOrder(table)[i] \in table
  BY RowsInOrder
<1>2. \A i \in 1..Cardinality(table) : InOrder(table)[i].id = IdsOf(all)[InOrder(table)[i]]
  BY <1>1 DEF IdsOf
<1> QED BY <1>1, <1>2 DEF Listing

LEMMA ListsFeed ==
  ASSUME NEW table, IsTable(table), NEW all, table \subseteq all
  PROVE  LET s == InOrder(table)
         IN  [i \in DOMAIN s |-> s[i].card_id] = Listing(table, CardsOf(all))
<1>1. /\ DOMAIN InOrder(table) = 1..Cardinality(table)
      /\ \A i \in 1..Cardinality(table) : InOrder(table)[i] \in table
  BY RowsInOrder
<1>2. \A i \in 1..Cardinality(table) : InOrder(table)[i].card_id = CardsOf(all)[InOrder(table)[i]]
  BY <1>1 DEF CardsOf
<1> QED BY <1>1, <1>2 DEF Listing

LEMMA CardsListed ==
  ASSUME TypeOK, Numbered, NEW all, rows \subseteq all
  PROVE  CardIds = Listing(rows, IdsOf(all)) /\ Store!Listed(CardIds) = Saved
<1>1. CardIds = Listing(rows, IdsOf(all))
  BY ListsCards DEF CardIds, Numbered
<1>2. \A r \in rows : IdsOf(all)[r] = r.id /\ r.id \in Cards
  BY DEF IdsOf, TypeOK
<1>3. Named(rows, IdsOf(all), Cards)
  BY <1>2 DEF Named
<1>4. Store!Listed(Listing(rows, IdsOf(all))) = {IdsOf(all)[r] : r \in rows}
  BY <1>3, ListingIs DEF Numbered
<1>5. {IdsOf(all)[r] : r \in rows} = Saved
  BY <1>2 DEF Saved
<1> QED BY <1>1, <1>4, <1>5

LEMMA FeedListed ==
  ASSUME TypeOK, Numbered, NEW all, entries \subseteq all
  PROVE  FeedIds = Listing(entries, CardsOf(all)) /\ Store!Listed(FeedIds) = Shared
<1>1. FeedIds = Listing(entries, CardsOf(all))
  BY ListsFeed DEF FeedIds, Numbered
<1>2. \A e \in entries : CardsOf(all)[e] = e.card_id /\ e.card_id \in Cards
  BY DEF CardsOf, TypeOK
<1>3. Named(entries, CardsOf(all), Cards)
  BY <1>2 DEF Named
<1>4. Store!Listed(Listing(entries, CardsOf(all))) = {CardsOf(all)[e] : e \in entries}
  BY <1>3, ListingIs DEF Numbered
<1>5. {CardsOf(all)[e] : e \in entries} = Shared
  BY <1>2 DEF Shared
<1> QED BY <1>1, <1>4, <1>5

(* Saving a card does to the lists what it does to the store in memory.    *)
LEMMA StoreSaves ==
  ASSUME TypeOK, Numbered, TypeOK', Numbered', NEW c \in Cards, saveCard(c)
  PROVE  Store!saveCard(c, maxVerdictCards)
<1> PICK all : all = Inserted(c)
  OBVIOUS
<1> PICK name : name = IdsOf(all)
  OBVIOUS
<1>1. rows \subseteq all /\ rows' = Newest(all, maxVerdictCards) /\ rows' \subseteq all
  BY NewestKeeps DEF saveCard, Inserted
<1>2. CardIds = Listing(rows, name) /\ Store!Listed(CardIds) = Saved
  BY <1>1, CardsListed
<1>3. CardIds' = Listing(rows', name) /\ Store!Listed(CardIds') = Saved'
  <2>1. CardIds' = Listing(rows', name)
    BY <1>1, ListsCards DEF CardIds, Numbered
  <2>2. \A r \in rows' : name[r] = r.id /\ r.id \in Cards
    BY <1>1 DEF IdsOf, TypeOK
  <2>3. Named(rows', name, Cards)
    BY <2>2 DEF Named
  <2>4. Store!Listed(Listing(rows', name)) = {name[r] : r \in rows'}
    BY <2>3, ListingIs DEF Numbered
  <2>5. {name[r] : r \in rows'} = Saved'
    BY <2>2 DEF Saved
  <2> QED BY <2>1, <2>4, <2>5
<1>4. IsTable(all) /\ Named(all, name, Cards)
      /\ Listing(all, name) = IF c \in Saved THEN CardIds ELSE Append(CardIds, c)
  <2>1. CASE c \in Saved
    <3>1. all = rows
      BY <2>1 DEF Inserted
    <3>2. \A r \in rows : name[r] = r.id /\ r.id \in Cards
      BY <3>1 DEF IdsOf, TypeOK
    <3> QED BY <1>2, <2>1, <3>1, <3>2 DEF Numbered, Named
  <2>2. CASE c \notin Saved
    <3> PICK r : r = [sequence |-> cardSequence + 1, id |-> c]
      OBVIOUS
    <3>1. HasLast(all, rows, r) /\ IsTable(all)
      BY <2>2, InsertedLast
    <3>2. all = rows \cup {r} /\ r.id = c
      BY <3>1 DEF HasLast
    <3>3. \A s \in all : name[s] = s.id /\ s.id \in Cards
      BY <3>2 DEF IdsOf, TypeOK
    <3>4. Named(all, name, Cards) /\ name[r] = c
      BY <3>2, <3>3 DEF Named
    <3>5. Listing(all, name) = Append(Listing(rows, name), name[r])
      BY <3>1, <3>4, ListingAppend
    <3> QED BY <1>2, <2>2, <3>1, <3>4, <3>5
  <2> QED BY <2>1, <2>2
<1>5. Listing(rows', name) = Store!Newest(Listing(all, name), maxVerdictCards)
  <2>1. maxVerdictCards \in Nat
    BY PublicArtifactsAssumption DEF TypeOK
  <2> QED BY <1>1, <1>4, <2>1, ListingNewest
<1> PICK kept : kept = Saved'
  OBVIOUS
<1>6. FeedIds' = Store!Kept(FeedIds, kept)
  <2> PICK cardOf : cardOf = CardsOf(entries)
    OBVIOUS
  <2>1. \A e \in entries : cardOf[e] = e.card_id /\ e.card_id \in Cards
    BY DEF CardsOf, TypeOK
  <2>2. entries' = {e \in entries : cardOf[e] \in kept}
    BY <2>1 DEF saveCard, Cascaded, Saved
  <2>3. FeedIds = Listing(entries, cardOf)
    BY FeedListed
  <2>4. FeedIds' = Listing(entries', cardOf)
    BY <2>2, ListsFeed DEF FeedIds, Numbered
  <2>5. Named(entries, cardOf, Cards)
    BY <2>1 DEF Named
  <2>6. Listing({e \in entries : cardOf[e] \in kept}, cardOf) =
          Store!Kept(Listing(entries, cardOf), kept)
    BY <2>5, ListingKept DEF Numbered
  <2> QED BY <2>2, <2>3, <2>4, <2>6
<1> QED BY <1>2, <1>3, <1>4, <1>5, <1>6 DEF Store!saveCard

(* Sharing one does too.                                                   *)
LEMMA StoreShares ==
  ASSUME TypeOK, Numbered, TypeOK', Numbered', NEW c \in Cards, shareCard(c)
  PROVE  Store!shareCard(c, maxFeedEntries)
<1>a. \E e, all : /\ HasLast(all, entries, e) /\ IsTable(all) /\ e.card_id = c
                  /\ entries' = Newest(all, maxFeedEntries)
  <2> DEFINE e == [sequence |-> feedSequence + 1, card_id |-> c]
  <2>1. HasLast(entries \cup {e}, entries, e) /\ IsTable(entries \cup {e})
    BY SharedLast
  <2>2. e.card_id = c
    OBVIOUS
  <2>3. entries' = Newest(entries \cup {e}, maxFeedEntries)
    BY DEF shareCard
  <2> HIDE DEF e
  <2> QED BY <2>1, <2>2, <2>3
<1> PICK e, all : /\ HasLast(all, entries, e) /\ IsTable(all) /\ e.card_id = c
                  /\ entries' = Newest(all, maxFeedEntries)
  BY <1>a
<1> PICK cardOf : cardOf = CardsOf(all)
  OBVIOUS
<1>1. entries' = Newest(all, maxFeedEntries) /\ entries' \subseteq all /\ entries \subseteq all
  BY NewestKeeps DEF HasLast
<1>2. c \in Saved \ Shared /\ rows' = rows
  BY DEF shareCard
<1>3. Store!Listed(CardIds) = Saved /\ FeedIds = Listing(entries, cardOf) /\ Store!Listed(FeedIds) = Shared
  BY <1>1, CardsListed, FeedListed
<1>4. CardIds' = CardIds
  BY <1>2 DEF CardIds
<1>5. FeedIds' = Listing(entries', cardOf)
  BY <1>1, ListsFeed DEF FeedIds, Numbered
<1>6. HasLast(all, entries, e) /\ IsTable(all)
  OBVIOUS
<1>7. \A s \in all : cardOf[s] = s.card_id /\ s.card_id \in Cards
  BY DEF CardsOf, TypeOK, HasLast
<1>8. Named(all, cardOf, Cards) /\ cardOf[e] = c
  BY <1>7 DEF Named, HasLast
<1>9. Listing(all, cardOf) = Append(FeedIds, c)
  <2>1. Listing(all, cardOf) = Append(Listing(entries, cardOf), cardOf[e])
    BY <1>6, <1>8, ListingAppend
  <2> QED BY <1>3, <1>8, <2>1
<1>10. Listing(entries', cardOf) = Store!Newest(Listing(all, cardOf), maxFeedEntries)
  <2>1. maxFeedEntries \in Nat
    BY PublicArtifactsAssumption DEF TypeOK
  <2> QED BY <1>1, <1>6, <1>8, <2>1, ListingNewest
<1> QED BY <1>2, <1>3, <1>4, <1>5, <1>9, <1>10 DEF Store!shareCard

(* The tables of SQLite implement the map and the array of the store in    *)
(* memory, for any limits and across restarts: rows in the order of their  *)
(* AUTOINCREMENT numbers are the cards and the feed, the oldest first.     *)
THEOREM StorePromisesCorrect == Spec => StorePromises
<1>1. Init => Store!Init /\ TypeOK /\ Numbered
  <2> SUFFICES ASSUME Init PROVE Store!Init /\ TypeOK /\ Numbered
    OBVIOUS
  <2>1. rows = {} /\ entries = {}
    BY DEF Init
  <2>2. IsFiniteSet({}) /\ Cardinality({}) = 0
    BY FS_EmptySet
  <2>3. InOrder({}) = <<>>
    BY <2>2, 1..0 = {} DEF InOrder
  <2>4. CardIds = <<>> /\ FeedIds = <<>>
    BY <2>1, <2>3 DEF CardIds, FeedIds
  <2> QED BY <2>1, <2>2, <2>4, InitTypeOK DEF Store!Init, Numbered, IsTable
<1>2. TypeOK /\ Numbered /\ TypeOK' /\ Numbered' /\ [Next]_vars => [Store!Next]_(Store!vars)
  <2> SUFFICES ASSUME TypeOK, Numbered, TypeOK', Numbered', [Next]_vars
               PROVE  [Store!Next]_(Store!vars)
    OBVIOUS
  <2>1. ASSUME NEW r \in Requests, CardSaved(r) PROVE Store!Next
    <3> PICK c \in Cards : c = waiting[r]
      BY <2>1 DEF CardSaved, TypeOK
    <3>1. saveCard(c) /\ maxVerdictCards \in Limits
      BY <2>1 DEF CardSaved, TypeOK
    <3> QED BY <3>1, StoreSaves DEF Store!Next
  <2>2. ASSUME NEW c \in Cards, Share(c) PROVE Store!Next
    <3>1. shareCard(c) /\ maxFeedEntries \in Limits
      BY <2>2 DEF Share, TypeOK
    <3> QED BY <3>1, StoreShares DEF Store!Next
  <2>3. CASE UNCHANGED store
    BY <2>3 DEF store, Store!vars, CardIds, FeedIds
  <2> QED
    BY <2>1, <2>2, <2>3 DEF Next, PostCard, CardRefused, Record, Restart, vars, store
<1>3. TypeOK /\ Numbered /\ [Next]_vars => TypeOK' /\ Numbered'
  BY StepTypeOK, StepNumbered
<1> QED
  BY <1>1, <1>2, <1>3, PTL DEF Spec, StorePromises, Store!Spec

----------------------------------------------------------------------------
(* Report quotes: a report is delivered to whoever paid for it, and a sold *)
(* quote charges nobody again.                                             *)

QuoteTypes ==
  /\ sold \in [Quotes -> Buying!Payments \union {None}]
  /\ pending \in [Quotes -> Buyers \union {None}]
  /\ call \in [Buyers -> Buying!Owning \union Buying!Joining \union {None}]
  /\ chain \in [Auths -> {"none", "sent", "executed", "failed"}]
  /\ delivered \subseteq [quote : Quotes, auth : Auths]

(* A settlement is stored with a quote only after its transfer executed.   *)
SoldIsPaid == \A q \in Quotes : sold[q] # None => chain[sold[q].auth] = "executed"

(* A request that settles a quote is the one the quote is pending on, and  *)
(* nothing is pending on a quote that is sold.                             *)
Owns(r) == call[r] \in Buying!Owning
OwnersArePending == \A r \in Buyers : Owns(r) => pending[call[r].quote] = r
PendingIsOwned ==
  \A q \in Quotes : pending[q] # None =>
    Owns(pending[q]) /\ call[pending[q]].quote = q /\ sold[q] = None

QuotesInv ==
  QuoteTypes /\ SoldIsPaid /\ Buying!DeliveredIsPaid /\ OwnersArePending /\ PendingIsOwned

(* Nothing is both a request that settles and one that waits for another.  *)
LEMMA OwningIsNotJoining ==
  ASSUME Buying!QuotesAssumption
  PROVE  /\ Buying!Owning \cap Buying!Joining = {} /\ None \notin Buying!Owning /\ None \notin Buying!Joining
         /\ None \notin Buying!Payments /\ None \notin Buyers
         /\ \A x \in Buying!Owning : "step" \in DOMAIN x
         /\ \A x \in Buying!Joining : "step" \notin DOMAIN x
<1>1. \A x \in Buying!Owning : "step" \in DOMAIN x
  BY DEF Buying!Owning
<1>2. \A x \in Buying!Joining : "step" \notin DOMAIN x
  BY DEF Buying!Joining
<1> QED
  BY <1>1, <1>2 DEF Buying!QuotesAssumption

LEMMA SettlingOwns ==
  ASSUME Buying!QuotesAssumption, QuotesInv, NEW r \in Buyers, NEW step, Buying!Settling(r, step)
  PROVE  Owns(r) /\ call[r].quote \in Quotes /\ call[r].payment \in Buying!Payments
<1>1. call[r] \in Buying!Owning
  BY OwningIsNotJoining DEF Buying!Settling, QuotesInv, QuoteTypes
<1> QED
  BY <1>1 DEF Owns, Buying!Owning

LEMMA QuotesInit ==
  ASSUME Buying!QuotesAssumption
  PROVE  Buying!Init => QuotesInv
BY OwningIsNotJoining DEF Buying!Init, QuotesInv, QuoteTypes, SoldIsPaid,
    Buying!DeliveredIsPaid, Owns, OwnersArePending, PendingIsOwned

(* The settlement a request owns ends, for all that await it.              *)
LEMMA ResolveStep ==
  ASSUME Buying!QuotesAssumption, QuotesInv, NEW r \in Buyers, Owns(r), Buying!Resolve(r)
  PROVE  /\ call' \in [Buyers -> Buying!Owning \union Buying!Joining \union {None}]
         /\ pending' \in [Quotes -> Buyers \union {None}]
         /\ pending'[call[r].quote] = None
         /\ \A q \in Quotes : pending'[q] \in {None, pending[q]}
         /\ \A x \in Buyers : Owns(x)' => x # r /\ call'[x] = call[x]
         /\ \A x \in Buyers : Owns(x) /\ x # r => call'[x] = call[x]
<1> USE DEF QuotesInv
<1>1. call' = [j \in Buyers |-> IF j \in Buying!Awaiting(r) THEN None ELSE call[j]]
  BY DEF Buying!Resolve
<1>2. pending' = [pending EXCEPT ![call[r].quote] = IF @ = r THEN None ELSE @]
  BY DEF Buying!Resolve, Buying!Released
<1>3. call[r].quote \in Quotes /\ pending[call[r].quote] = r
  BY DEF Owns, Buying!Owning, OwnersArePending
<1>4. r \in Buying!Awaiting(r)
  BY DEF Buying!Awaiting
<1>5. \A x \in Buyers : Owns(x) /\ x # r => x \notin Buying!Awaiting(r)
  <2>1. [owner |-> r] \in Buying!Joining
    BY DEF Buying!Joining
  <2> QED
    BY <2>1, OwningIsNotJoining DEF Owns, Buying!Awaiting
<1>6. call' \in [Buyers -> Buying!Owning \union Buying!Joining \union {None}]
  BY <1>1 DEF QuoteTypes
<1>7. pending' \in [Quotes -> Buyers \union {None}] /\ pending'[call[r].quote] = None
  BY <1>2, <1>3 DEF QuoteTypes
<1>8. \A q \in Quotes : pending'[q] \in {None, pending[q]}
  BY <1>2, <1>3 DEF QuoteTypes
<1>9. \A x \in Buyers : Owns(x)' => x # r /\ call'[x] = call[x]
  BY <1>1, <1>4, OwningIsNotJoining DEF Owns
<1>10. \A x \in Buyers : Owns(x) /\ x # r => call'[x] = call[x]
  BY <1>1, <1>5
<1> QED
  BY <1>6, <1>7, <1>8, <1>9, <1>10

LEMMA FailStep ==
  ASSUME Buying!QuotesAssumption, QuotesInv, NEW r \in Buyers, Owns(r), Buying!Fail(r),
         chain' \in [Auths -> {"none", "sent", "executed", "failed"}],
         \A a \in Auths : chain[a] = "executed" => chain'[a] = "executed"
  PROVE  QuotesInv'
<1> USE DEF QuotesInv
<1>1. /\ call' \in [Buyers -> Buying!Owning \union Buying!Joining \union {None}]
      /\ pending' \in [Quotes -> Buyers \union {None}]
      /\ pending'[call[r].quote] = None
      /\ \A q \in Quotes : pending'[q] \in {None, pending[q]}
      /\ \A x \in Buyers : Owns(x)' => x # r /\ call'[x] = call[x]
      /\ \A x \in Buyers : Owns(x) /\ x # r => call'[x] = call[x]
      /\ sold' = sold /\ delivered' = delivered
  BY ResolveStep DEF Buying!Fail
<1>2. QuoteTypes'
  BY <1>1 DEF QuoteTypes
<1>3. SoldIsPaid'
  BY <1>1 DEF SoldIsPaid, QuoteTypes, Buying!Payments
<1>4. Buying!DeliveredIsPaid'
  BY <1>1 DEF Buying!DeliveredIsPaid, QuoteTypes
<1>5. \A q \in Quotes : pending'[q] # None => pending'[q] = pending[q] /\ pending[q] # r
  BY <1>1 DEF PendingIsOwned
<1>6. PendingIsOwned'
  BY <1>1, <1>5 DEF PendingIsOwned, QuoteTypes, Owns
<1>7. OwnersArePending'
  <2> SUFFICES ASSUME NEW x \in Buyers, Owns(x)' PROVE pending'[call'[x].quote] = x
    BY DEF OwnersArePending
  <2>1. x # r /\ call'[x] = call[x] /\ Owns(x)
    BY <1>1 DEF Owns
  <2>2. pending[call[x].quote] = x /\ call[x].quote \in Quotes
    BY <2>1 DEF OwnersArePending, Owns, Buying!Owning
  <2>3. call[x].quote # call[r].quote
    BY <2>1, <2>2 DEF OwnersArePending
  <2>4. pending'[call[x].quote] = pending[call[x].quote]
    <3>1. UNCHANGED sold /\ pending' = [pending EXCEPT ![call[r].quote] = IF @ = r THEN None ELSE @]
      BY DEF Buying!Fail, Buying!Resolve, Buying!Released
    <3> QED
      BY <2>2, <2>3, <3>1 DEF QuoteTypes
  <2> QED
    BY <2>1, <2>2, <2>4
<1> QED
  BY <1>2, <1>3, <1>4, <1>6, <1>7

LEMMA ProceedStep ==
  ASSUME Buying!QuotesAssumption, QuotesInv, NEW r \in Buyers, Owns(r),
         NEW step \in {"verify", "settle", "confirm"}, NEW n \in 0..Tries,
         Buying!Proceed(r, step, n),
         chain' \in [Auths -> {"none", "sent", "executed", "failed"}],
         \A a \in Auths : chain[a] = "executed" => chain'[a] = "executed"
  PROVE  QuotesInv'
<1> USE DEF QuotesInv
<1>1. PICK old \in Buying!Owning : call[r] = old
  BY DEF Owns
<1> DEFINE new == [old EXCEPT !.step = step, !.attempt = n]
<1>2. new \in Buying!Owning /\ new.quote = old.quote
  BY DEF Buying!Owning
<1>3. call' = [call EXCEPT ![r] = new]
  BY <1>1 DEF Buying!Proceed
<1>4. sold' = sold /\ pending' = pending /\ delivered' = delivered
  BY DEF Buying!Proceed
<1> HIDE DEF new
<1>5. QuoteTypes'
  BY <1>2, <1>3, <1>4 DEF QuoteTypes
<1>6. SoldIsPaid' /\ Buying!DeliveredIsPaid'
  BY <1>4 DEF SoldIsPaid, Buying!DeliveredIsPaid, QuoteTypes, Buying!Payments
<1>7. \A x \in Buyers : (Owns(x)' <=> Owns(x)) /\ call'[x].quote = call[x].quote
  BY <1>1, <1>2, <1>3 DEF Owns, QuoteTypes
<1>8. OwnersArePending'
  BY <1>4, <1>7 DEF OwnersArePending
<1>9. PendingIsOwned'
  BY <1>4, <1>7 DEF PendingIsOwned, QuoteTypes
<1> QED
  BY <1>5, <1>6, <1>8, <1>9

LEMMA CompleteStep ==
  ASSUME Buying!QuotesAssumption, QuotesInv, NEW r \in Buyers, Owns(r), Buying!Complete(r),
         Buying!Verdict(call[r].payment.auth) = "match", UNCHANGED chain
  PROVE  QuotesInv'
<1> USE DEF QuotesInv
<1>1. CASE Buying!Fail(r)
  BY <1>1, FailStep DEF QuoteTypes
<1>2. CASE ~Buying!Fail(r)
  <2>1. PICK q \in Quotes, p \in Buying!Payments :
          /\ call[r].quote = q /\ call[r].payment = p
          /\ Buying!Resolve(r) /\ sold' = [sold EXCEPT ![q] = p] /\ Buying!Deliver(q, p)
    BY <1>2 DEF Buying!Complete, Owns, Buying!Owning
  <2>2. /\ call' \in [Buyers -> Buying!Owning \union Buying!Joining \union {None}]
        /\ pending' \in [Quotes -> Buyers \union {None}]
        /\ pending'[call[r].quote] = None
        /\ \A x \in Quotes : pending'[x] \in {None, pending[x]}
        /\ \A x \in Buyers : Owns(x)' => x # r /\ call'[x] = call[x]
        /\ \A x \in Buyers : Owns(x) /\ x # r => call'[x] = call[x]
    BY <2>1, ResolveStep
  <2>3. chain[p.auth] = "executed" /\ chain' = chain
    BY <2>1 DEF Buying!Verdict
  <2>4. QuoteTypes'
    <3>1. [quote |-> q, auth |-> p.auth] \in [quote : Quotes, auth : Auths]
      BY DEF Buying!Payments
    <3>2. delivered' \subseteq [quote : Quotes, auth : Auths]
      BY <2>1, <3>1 DEF QuoteTypes, Buying!Deliver
    <3>3. sold' \in [Quotes -> Buying!Payments \union {None}]
      BY <2>1 DEF QuoteTypes
    <3> QED
      BY <2>2, <2>3, <3>2, <3>3 DEF QuoteTypes
  <2>5. SoldIsPaid' /\ Buying!DeliveredIsPaid'
    BY <2>1, <2>3 DEF SoldIsPaid, Buying!DeliveredIsPaid, Buying!Deliver, QuoteTypes
  <2>6. \A x \in Quotes : pending'[x] # None => pending'[x] = pending[x] /\ pending[x] # r /\ x # q
    BY <2>1, <2>2 DEF PendingIsOwned
  <2>7. PendingIsOwned'
    BY <2>1, <2>2, <2>6 DEF PendingIsOwned, QuoteTypes, Owns
  <2>8. OwnersArePending'
    <3> SUFFICES ASSUME NEW x \in Buyers, Owns(x)' PROVE pending'[call'[x].quote] = x
      BY DEF OwnersArePending
    <3>1. x # r /\ call'[x] = call[x] /\ Owns(x)
      BY <2>2 DEF Owns
    <3>2. pending[call[x].quote] = x /\ call[x].quote \in Quotes /\ pending[q] = r
      BY <2>1, <3>1 DEF OwnersArePending, Owns, Buying!Owning
    <3>3. pending' = [pending EXCEPT ![q] = IF @ = r THEN None ELSE @]
      BY <2>1 DEF Buying!Resolve, Buying!Released
    <3> QED
      BY <3>1, <3>2, <3>3 DEF QuoteTypes
  <2> QED
    BY <2>4, <2>5, <2>7, <2>8
<1> QED
  BY <1>1, <1>2

LEMMA HandlerStep ==
  ASSUME Buying!QuotesAssumption, QuotesInv, NEW r \in Buyers, Buying!Handler(r)
  PROVE  QuotesInv'
<1> USE DEF QuotesInv
<1>1. CASE Buying!Verify(r)
  <2>1. Owns(r) /\ UNCHANGED chain
    BY <1>1, SettlingOwns DEF Buying!Verify
  <2>2. 0 \in 0..Tries
    BY DEF Buying!QuotesAssumption
  <2> QED
    BY <1>1, <2>1, <2>2, FailStep, ProceedStep DEF Buying!Verify, QuoteTypes
<1>2. CASE Buying!Settle(r)
  <2>1. Owns(r) /\ call[r].payment \in Buying!Payments
    BY <1>2, SettlingOwns DEF Buying!Settle
  <2>2. 0 \in 0..Tries
    BY DEF Buying!QuotesAssumption
  <2>3. PICK a \in Auths : a = call[r].payment.auth
    BY <2>1 DEF Buying!Payments
  <2>4. chain' = chain \/ (chain[a] = "none" /\ chain' = [chain EXCEPT ![a] = "sent"])
    BY <1>2, <2>3 DEF Buying!Settle
  <2>5. /\ chain' \in [Auths -> {"none", "sent", "executed", "failed"}]
        /\ \A b \in Auths : chain[b] = "executed" => chain'[b] = "executed"
    BY <2>4 DEF QuoteTypes
  <2>6. Buying!Fail(r) \/ Buying!Proceed(r, "confirm", 0)
    BY <1>2 DEF Buying!Settle
  <2> QED
    BY <2>1, <2>2, <2>5, <2>6, FailStep, ProceedStep
<1>3. CASE Buying!Confirm(r)
  <2>1. Owns(r) /\ UNCHANGED chain
    BY <1>3, SettlingOwns DEF Buying!Confirm
  <2>2. \/ Buying!Verdict(call[r].payment.auth) = "match" /\ Buying!Complete(r)
        \/ Buying!Fail(r)
        \/ Buying!LookAgain(r)
    BY <1>3 DEF Buying!Confirm
  <2>3. ASSUME Buying!LookAgain(r), ~Buying!Fail(r) PROVE QuotesInv'
    <3>1. call[r].attempt + 1 \in 0..Tries /\ Buying!Proceed(r, "confirm", call[r].attempt + 1)
      BY <2>1, <2>3 DEF Buying!LookAgain, Owns, Buying!Owning, Buying!QuotesAssumption
    <3> QED
      BY <2>1, <3>1, ProceedStep DEF QuoteTypes
  <2> QED
    BY <2>1, <2>2, <2>3, FailStep, CompleteStep DEF QuoteTypes
<1> QED
  BY <1>1, <1>2, <1>3 DEF Buying!Handler

LEMMA BuyStep ==
  ASSUME Buying!QuotesAssumption, QuotesInv, NEW r \in Buyers, NEW q \in Quotes,
         NEW p \in Buying!Payments \union {None}, Buying!Buy(r, q, p)
  PROVE  QuotesInv'
<1> USE DEF QuotesInv
<1>1. call[r] = None /\ sold' = sold /\ chain' = chain
  BY DEF Buying!Buy
<1>2. CASE UNCHANGED <<pending, call, delivered>>
  BY <1>1, <1>2 DEF QuoteTypes, SoldIsPaid, Buying!DeliveredIsPaid, OwnersArePending,
      PendingIsOwned, Owns
<1>3. CASE ~Buying!TurnedAway(q, p) /\ sold[q] = p /\ Buying!Deliver(q, p) /\ UNCHANGED <<pending, call>>
  <2>1. p \in Buying!Payments /\ chain[p.auth] = "executed"
    BY <1>3, OwningIsNotJoining DEF Buying!TurnedAway, SoldIsPaid
  <2>2. QuoteTypes' /\ Buying!DeliveredIsPaid'
    BY <1>1, <1>3, <2>1 DEF Buying!Deliver, QuoteTypes, Buying!DeliveredIsPaid,
        Buying!Payments
  <2> QED
    BY <1>1, <1>3, <2>2 DEF SoldIsPaid, OwnersArePending, PendingIsOwned, Owns
<1>4. CASE /\ Buying!Joins(q, p) /\ call' = [call EXCEPT ![r] = [owner |-> pending[q]]]
           /\ UNCHANGED <<pending, delivered>>
  <2>1. [owner |-> pending[q]] \in Buying!Joining
    BY <1>4 DEF Buying!Joins, Buying!Joining, QuoteTypes
  <2>2. QuoteTypes'
    BY <1>1, <1>4, <2>1 DEF QuoteTypes
  <2>3. \A x \in Buyers : (Owns(x)' <=> Owns(x)) /\ (Owns(x) => call'[x] = call[x])
    BY <1>1, <1>4, <2>1, OwningIsNotJoining DEF Owns, QuoteTypes
  <2>4. OwnersArePending' /\ PendingIsOwned'
    BY <1>1, <1>4, <2>3 DEF OwnersArePending, PendingIsOwned, QuoteTypes
  <2> QED
    BY <1>1, <1>4, <2>2, <2>4 DEF SoldIsPaid, Buying!DeliveredIsPaid
<1>5. CASE ~Buying!TurnedAway(q, p) /\ sold[q] # p /\ ~Buying!Joins(q, p) /\ Buying!Start(r, q, p) /\ UNCHANGED delivered
  <2>1. p \in Buying!Payments /\ sold[q] = None /\ pending[q] = None
    BY <1>5 DEF Buying!TurnedAway, Buying!Joins, Buying!InProgress
  <2> DEFINE new == [quote |-> q, payment |-> p, step |-> "verify", attempt |-> 0]
  <2>2. new \in Buying!Owning /\ new.quote = q
    BY <2>1 DEF Buying!Owning, Buying!QuotesAssumption
  <2>3. pending' = [pending EXCEPT ![q] = r] /\ call' = [call EXCEPT ![r] = new]
    BY <1>5 DEF Buying!Start
  <2> HIDE DEF new
  <2>4. QuoteTypes'
    BY <1>1, <1>5, <2>2, <2>3 DEF QuoteTypes
  <2>5. \A x \in Buyers : x # r => (Owns(x)' <=> Owns(x)) /\ call'[x] = call[x]
    BY <2>3 DEF Owns, QuoteTypes
  <2>6. Owns(r)' /\ call'[r].quote = q /\ ~Owns(r)
    BY <1>1, <2>2, <2>3, OwningIsNotJoining DEF Owns, QuoteTypes
  <2>7. pending'[q] = r /\ \A x \in Quotes : x # q => pending'[x] = pending[x]
    BY <2>3 DEF QuoteTypes
  <2>8. PendingIsOwned'
    BY <1>1, <2>1, <2>5, <2>6, <2>7 DEF PendingIsOwned, QuoteTypes
  <2>9. OwnersArePending'
    <3> SUFFICES ASSUME NEW x \in Buyers, Owns(x)' PROVE pending'[call'[x].quote] = x
      BY DEF OwnersArePending
    <3>1. CASE x = r
      BY <2>6, <2>7, <3>1
    <3>2. CASE x # r
      <4>1. Owns(x) /\ call'[x] = call[x] /\ pending[call[x].quote] = x /\ call[x].quote \in Quotes
        BY <2>5, <3>2 DEF OwnersArePending, Owns, Buying!Owning
      <4>2. call[x].quote # q
        BY <2>1, <4>1, OwningIsNotJoining
      <4> QED
        BY <2>7, <4>1, <4>2
    <3> QED
      BY <3>1, <3>2
  <2> QED
    BY <1>1, <1>5, <2>4, <2>8, <2>9 DEF SoldIsPaid, Buying!DeliveredIsPaid
<1> QED
  BY <1>2, <1>3, <1>4, <1>5 DEF Buying!Buy

LEMMA QuotesStep ==
  ASSUME Buying!QuotesAssumption
  PROVE  QuotesInv /\ [Buying!Next]_(Buying!vars) => QuotesInv'
<1> SUFFICES ASSUME QuotesInv, [Buying!Next]_(Buying!vars) PROVE QuotesInv'
  OBVIOUS
<1>1. ASSUME UNCHANGED <<sold, pending, call, chain, delivered>>
      PROVE  QuotesInv'
  BY <1>1 DEF QuotesInv, QuoteTypes, SoldIsPaid, Buying!DeliveredIsPaid, OwnersArePending,
      PendingIsOwned, Owns
<1>2. ASSUME NEW a \in Auths, Buying!Execute(a)
      PROVE  QuotesInv'
  <2>1. PICK end \in {"executed", "failed"} : chain[a] = "sent" /\ chain' = [chain EXCEPT ![a] = end]
    BY <1>2 DEF Buying!Execute
  <2>2. UNCHANGED <<sold, pending, call, delivered>>
    BY <1>2 DEF Buying!Execute, Buying!snapshots
  <2>3. \A b \in Auths : chain[b] = "executed" => chain'[b] = "executed"
    BY <2>1 DEF QuotesInv, QuoteTypes
  <2> QED
    BY <2>1, <2>2, <2>3
       DEF QuotesInv, QuoteTypes, SoldIsPaid, Buying!DeliveredIsPaid, OwnersArePending,
           PendingIsOwned, Owns, Buying!Payments
<1>3. ASSUME Buying!Restart PROVE QuotesInv'
  BY <1>3, OwningIsNotJoining
     DEF Buying!Restart, QuotesInv, QuoteTypes, SoldIsPaid, Buying!DeliveredIsPaid,
         OwnersArePending, PendingIsOwned, Owns
<1>4. CASE Buying!Next
  <2>1. ASSUME NEW q \in Quotes, Buying!RequestQuote(q) PROVE QuotesInv'
    BY <1>1, <2>1 DEF Buying!RequestQuote
  <2>2. ASSUME NEW q \in Quotes, NEW payable \in BOOLEAN, Buying!OfferQuote(q, payable) PROVE QuotesInv'
    BY <1>1, <2>2 DEF Buying!OfferQuote
  <2>3. ASSUME Buying!Tick PROVE QuotesInv'
    BY <1>1, <2>3 DEF Buying!Tick, Buying!snapshots
  <2> QED
    BY <1>2, <1>3, <1>4, <2>1, <2>2, <2>3, BuyStep, HandlerStep DEF Buying!Next
<1>5. CASE UNCHANGED Buying!vars
  BY <1>1, <1>5 DEF Buying!vars, Buying!snapshots
<1> QED
  BY <1>4, <1>5

LEMMA QuotesInvariant ==
  ASSUME Buying!QuotesAssumption
  PROVE  Buying!Spec => []QuotesInv
<1>1. Buying!Init => QuotesInv
  BY QuotesInit
<1>2. QuotesInv /\ [Buying!Next]_(Buying!vars) => QuotesInv'
  BY QuotesStep
<1> QED
  BY <1>1, <1>2, PTL DEF Buying!Spec

(* A report is released only for a transfer that was executed.             *)
THEOREM ReportsArePaidCorrect ==
  ASSUME Buying!QuotesAssumption
  PROVE  Buying!Spec => []ReportsArePaid
<1>1. QuotesInv => Buying!ReportsArePaid
  <2> SUFFICES ASSUME QuotesInv PROVE Buying!ReportsArePaid
    OBVIOUS
  <2>1. ASSUME NEW q \in Quotes, pending[q] # None
        PROVE  \E step \in {"verify", "settle", "confirm"} : Buying!Settling(pending[q], step)
    <3>1. call[pending[q]] \in Buying!Owning
      BY <2>1 DEF QuotesInv, PendingIsOwned, Owns
    <3>2. call[pending[q]] # None /\ "step" \in DOMAIN call[pending[q]]
      BY <3>1, OwningIsNotJoining
    <3>3. call[pending[q]].step \in {"verify", "settle", "confirm"}
      BY <3>1 DEF Buying!Owning
    <3> QED
      BY <3>2, <3>3 DEF Buying!Settling
  <2> QED
    BY <2>1 DEF QuotesInv, Buying!ReportsArePaid, Buying!PendingIsAlive, PendingIsOwned
<1> QED
  BY <1>1, QuotesInvariant, PTL DEF ReportsArePaid

(* No transfer leaves a buyer for a quote that is sold.                    *)
THEOREM SoldQuoteChargesNobodyCorrect ==
  ASSUME Buying!QuotesAssumption
  PROVE  Buying!Spec => SoldQuoteChargesNobody
<1>1. QuotesInv => \A r \in Buyers : ~(Buying!Settling(r, "settle") /\ sold[call[r].quote] # None)
  BY SettlingOwns DEF QuotesInv, OwnersArePending, PendingIsOwned, Buying!QuotesAssumption
<1>2. QuotesInv /\ [Buying!Next]_(Buying!vars) =>
        [\A r \in Buyers :
           Buying!Settling(r, "settle") /\ sold[call[r].quote] # None => UNCHANGED chain]_(Buying!vars)
  BY <1>1
<1> QED
  BY <1>2, QuotesInvariant, PTL DEF Buying!Spec, Buying!SoldQuoteChargesNobody,
      SoldQuoteChargesNobody

----------------------------------------------------------------------------
(* Payment readiness: an answer rests on what a load saw, and no longer    *)
(* than that may be kept.                                                  *)

Life(l) == IF load[l].evidence.errors THEN FailureTtl ELSE CacheTtl

(* What a load that has ended holds was derived from what it saw.          *)
LoadsAreSeen ==
  \A l \in Loads : load[l] # None =>
    /\ load[l].state = "ended" =>
         /\ load[l].seen \in Readiness!Tokens
         /\ \E failing \in Readiness!Queries : load[l].evidence = Readiness!EvidenceOf(load[l].seen, failing)
    /\ load[l].state # "ended" => load[l].evidence = None

(* The entry is of its own key and lasts as long as its evidence may.      *)
CacheIsCurrent ==
  cached # None =>
    LET l == cached.load IN
    /\ load[l] # None /\ load[l].key = cached.key /\ load[l].state # "failed"
    /\ load[l].state = "ended" => cached.expiresAt = load[l].endedAt + Life(l)

(* A request came before the end of the load it awaits, or within its life.*)
AskedInTime(l, asked) ==
  /\ load[l] # None
  /\ load[l].state = "failed" => asked <= load[l].endedAt
  /\ load[l].state = "ended" => asked < load[l].endedAt + Life(l)

RequestsInTime ==
  \A r \in Askers : request[r] # None =>
    /\ AskedInTime(request[r].load, request[r].askedAt)
    /\ load[request[r].load].key = request[r].key
    /\ request[r].askedAt <= assetNow
    /\ request[r].step = "supported" => load[request[r].load].state # "loading"

VerdictsInTime ==
  \A r \in Askers : verdict[r] # None =>
    LET v == verdict[r] IN
    /\ AskedInTime(v.load, v.askedAt)
    /\ load[v.load].state # "loading"
    /\ v.status = "ready" =>
         load[v.load].key = v.key /\ load[v.load].state = "ended" /\ load[v.load].seen = Readiness!GoodToken
    /\ v.status = "x402_asset_package_not_found" => load[v.load].seen.package = "absent"

ReadinessInv ==
  Readiness!TypeOK /\ LoadsAreSeen /\ CacheIsCurrent /\ RequestsInTime /\ VerdictsInTime

LEMMA EvidenceTells ==
  ASSUME Readiness!ReadinessAssumption, NEW t \in Readiness!Tokens, NEW failing \in Readiness!Queries
  PROVE  /\ Readiness!EvidenceOf(t, failing) \in Readiness!Evidence
         /\ Readiness!EvidenceOf(t, failing) # None
         /\ Readiness!PaymentAssetFailure(Readiness!EvidenceOf(t, failing)) = "none" => t = Readiness!GoodToken
         /\ Readiness!PaymentAssetFailure(Readiness!EvidenceOf(t, failing)) = "x402_asset_package_not_found" =>
                        t.package = "absent"
<1>1. t.package \in {"contract", "inactive", "other", "absent"} /\ t.entry \in BOOLEAN
      /\ t.metadata \in {"same", "different"}
  BY DEF Readiness!Tokens
<1>2. Readiness!EvidenceOf(t, failing) \in Readiness!Evidence
  BY <1>1 DEF Readiness!EvidenceOf, Readiness!Unread, Readiness!Evidence, Readiness!Known,
      Readiness!Queries
<1>3. Readiness!EvidenceOf(t, failing) # None
  BY <1>2 DEF Readiness!ReadinessAssumption
<1>4. ASSUME Readiness!PaymentAssetFailure(Readiness!EvidenceOf(t, failing)) = "none" PROVE t = Readiness!GoodToken
  <2> DEFINE e == Readiness!EvidenceOf(t, failing)
  <2>1. e.package = "yes" /\ e.entry = "yes" /\ e.metadata = "same"
    BY <1>2, <1>3, <1>4 DEF Readiness!PaymentAssetFailure, Readiness!CriticalMissing,
        Readiness!Evidence, Readiness!Known
  <2>2. t.package = "contract" /\ t.entry /\ t.metadata = "same"
    BY <1>1, <2>1 DEF Readiness!EvidenceOf, Readiness!Unread, Readiness!Queries
  <2> QED
    BY <2>2 DEF Readiness!GoodToken, Readiness!Tokens
<1>5. ASSUME Readiness!PaymentAssetFailure(Readiness!EvidenceOf(t, failing)) = "x402_asset_package_not_found"
      PROVE  t.package = "absent"
  <2> DEFINE e == Readiness!EvidenceOf(t, failing)
  <2>1. e.package = "no" /\ ((e.errors /\ Readiness!CriticalMissing(e)) => e.absent)
    BY <1>2, <1>3, <1>5 DEF Readiness!PaymentAssetFailure, Readiness!CriticalMissing,
        Readiness!Evidence, Readiness!Known
  <2>2. e.absent
    BY <1>1, <2>1 DEF Readiness!EvidenceOf, Readiness!Unread, Readiness!Queries,
        Readiness!CriticalMissing
  <2> QED
    BY <1>1, <2>2 DEF Readiness!EvidenceOf, Readiness!Unread, Readiness!Queries
<1> QED
  BY <1>2, <1>3, <1>4, <1>5

LEMMA FailureTypes ==
  ASSUME NEW e PROVE Readiness!PaymentAssetFailure(e) \in (Readiness!Statuses \ {"ready"}) \union {"none"}
BY DEF Readiness!PaymentAssetFailure, Readiness!Statuses

LEMMA ReadinessInit ==
  ASSUME Readiness!ReadinessAssumption
  PROVE  Readiness!Init => ReadinessInv
BY DEF Readiness!Init, ReadinessInv, Readiness!TypeOK, LoadsAreSeen, CacheIsCurrent,
    RequestsInTime, VerdictsInTime,
       Readiness!GoodToken, Readiness!Tokens, Readiness!ReadinessAssumption

(* What was said of a load that has ended stays true.                      *)
LEMMA VerdictsStay ==
  ASSUME Readiness!ReadinessAssumption, ReadinessInv, UNCHANGED verdict,
         \A l \in Loads : load[l] # None /\ load[l].state # "loading" => load'[l] = load[l]
  PROVE  VerdictsInTime'
<1>1. \A r \in Askers : verdict[r] # None =>
        /\ verdict[r].load \in Loads /\ load[verdict[r].load] # None
        /\ load[verdict[r].load].state # "loading"
  BY DEF ReadinessInv, Readiness!TypeOK, Readiness!VerdictRows, VerdictsInTime,
      AskedInTime
<1>2. \A r \in Askers : verdict[r] # None => load'[verdict[r].load] = load[verdict[r].load]
  BY <1>1
<1> QED
  BY <1>2 DEF ReadinessInv, VerdictsInTime, AskedInTime, Life

LEMMA AskStep ==
  ASSUME Readiness!ReadinessAssumption, ReadinessInv, NEW r \in Askers, NEW k \in Keys, Readiness!Ask(r, k)
  PROVE  ReadinessInv'
<1> USE DEF ReadinessInv
<1>1. UNCHANGED <<assetNow, token, verdict, changes>> /\ assetNow \in 0..LastAssetTime
  BY DEF Readiness!Ask, Readiness!TypeOK
<1>2. CASE /\ Readiness!Cached(k)
           /\ request' = [request EXCEPT ![r] =
                [key |-> k, askedAt |-> assetNow, load |-> cached.load,
                 step |-> IF load[cached.load].state = "loading" THEN "asset" ELSE "supported"]]
           /\ UNCHANGED <<cached, load>>
  <2>1. PICK l \in Loads : cached.load = l /\ cached # None /\ cached.key = k /\ cached.expiresAt > assetNow
    BY <1>2 DEF Readiness!Cached, Readiness!TypeOK, Readiness!CacheRows
  <2> DEFINE new == [key |-> k, askedAt |-> assetNow, load |-> l,
                     step |-> IF load[l].state = "loading" THEN "asset" ELSE "supported"]
  <2>2. new \in Readiness!RequestRows /\ new.key = k /\ new.askedAt = assetNow /\ new.load = l
        /\ (new.step = "supported" => load[l].state # "loading")
    BY <1>1 DEF Readiness!RequestRows
  <2>3. request' = [request EXCEPT ![r] = new]
    BY <1>2, <2>1
  <2> HIDE DEF new
  <2>4. Readiness!TypeOK'
    BY <1>1, <1>2, <2>2, <2>3 DEF Readiness!TypeOK
  <2>5. AskedInTime(l, assetNow) /\ load[l].key = k
    BY <2>1 DEF CacheIsCurrent, AskedInTime
  <2>6. RequestsInTime'
    BY <1>1, <1>2, <2>2, <2>3, <2>5 DEF RequestsInTime, AskedInTime, Life,
        Readiness!TypeOK
  <2>7. LoadsAreSeen' /\ CacheIsCurrent'
    BY <1>2 DEF LoadsAreSeen, CacheIsCurrent, Life
  <2>8. VerdictsInTime'
    BY <1>1, <1>2, VerdictsStay
  <2> QED
    BY <2>4, <2>6, <2>7, <2>8
<1>3. CASE \E l \in Loads :
             /\ load[l] = None
             /\ load' = [load EXCEPT ![l] = [key |-> k, state |-> "loading", evidence |-> None,
                                             seen |-> None, endedAt |-> 0]]
             /\ cached' = [key |-> k, load |-> l, expiresAt |-> Readiness!Forever]
             /\ request' = [request EXCEPT ![r] =
                  [key |-> k, askedAt |-> assetNow, load |-> l, step |-> "asset"]]
  <2> DEFINE row == [key |-> k, state |-> "loading", evidence |-> None, seen |-> None, endedAt |-> 0]
  <2>1. PICK l \in Loads :
             /\ load[l] = None
             /\ load' = [load EXCEPT ![l] = row]
             /\ cached' = [key |-> k, load |-> l, expiresAt |-> Readiness!Forever]
             /\ request' = [request EXCEPT ![r] =
                  [key |-> k, askedAt |-> assetNow, load |-> l, step |-> "asset"]]
    BY <1>3
  <2> DEFINE new == [key |-> k, askedAt |-> assetNow, load |-> l, step |-> "asset"]
  <2>2. new \in Readiness!RequestRows /\ new.key = k /\ new.askedAt = assetNow /\ new.load = l /\ new.step = "asset"
    BY <1>1 DEF Readiness!RequestRows
  <2>3. row \in Readiness!LoadRows /\ row.key = k /\ row.state = "loading" /\ row.evidence = None /\ row # None
    BY DEF Readiness!LoadRows, Readiness!ReadinessAssumption
  <2>4. cached' \in Readiness!CacheRows /\ cached'.key = k /\ cached'.load = l /\ cached' # None
    BY <2>1 DEF Readiness!CacheRows, Readiness!Forever, Readiness!ReadinessAssumption
  <2>5. load' = [load EXCEPT ![l] = row] /\ request' = [request EXCEPT ![r] = new] /\ load[l] = None
    BY <2>1
  <2> HIDE DEF new, row
  <2>6. Readiness!TypeOK'
    BY <1>1, <2>2, <2>3, <2>4, <2>5 DEF Readiness!TypeOK
  <2>7. \A x \in Loads : load[x] # None => load'[x] = load[x]
    BY <2>5 DEF Readiness!TypeOK
  <2>8. load'[l] = row
    BY <2>5 DEF Readiness!TypeOK
  <2>9. LoadsAreSeen'
    BY <2>3, <2>5 DEF LoadsAreSeen, Readiness!TypeOK
  <2>10. CacheIsCurrent'
    BY <2>3, <2>4, <2>8 DEF CacheIsCurrent
  <2>11. RequestsInTime'
    <3> SUFFICES ASSUME NEW x \in Askers, request'[x] # None
                 PROVE  /\ AskedInTime(request[x].load, request[x].askedAt)'
                        /\ load'[request'[x].load].key = request'[x].key
                        /\ request'[x].askedAt <= assetNow'
                        /\ request'[x].step = "supported" => load'[request'[x].load].state # "loading"
      BY DEF RequestsInTime
    <3>1. CASE x = r
      <4>1. request'[x] = new
        BY <2>5, <3>1 DEF Readiness!TypeOK
      <4> QED
        BY <1>1, <2>2, <2>3, <2>8, <4>1 DEF AskedInTime
    <3>2. CASE x # r
      <4>1. request'[x] = request[x] /\ request[x].load \in Loads
        BY <2>5, <3>2 DEF Readiness!TypeOK, Readiness!RequestRows
      <4>2. load[request[x].load] # None
        BY <4>1 DEF RequestsInTime, AskedInTime
      <4>3. load'[request[x].load] = load[request[x].load]
        BY <2>7, <4>1, <4>2
      <4> QED
        BY <1>1, <4>1, <4>3 DEF RequestsInTime, AskedInTime, Life
    <3> QED
      BY <3>1, <3>2
  <2>12. VerdictsInTime'
    BY <1>1, <2>7, VerdictsStay
  <2> QED
    BY <2>6, <2>9, <2>10, <2>11, <2>12
<1> QED
  BY <1>2, <1>3 DEF Readiness!Ask

LEMMA LoadEndsStep ==
  ASSUME Readiness!ReadinessAssumption, ReadinessInv, NEW l \in Loads, NEW failing \in Readiness!Queries, Readiness!LoadEnds(l, failing)
  PROVE  ReadinessInv'
<1> USE DEF ReadinessInv
<1>1. /\ load[l] \in Readiness!LoadRows /\ load[l] # None /\ load[l].state = "loading"
      /\ UNCHANGED <<assetNow, token, verdict, changes>> /\ assetNow \in 0..LastAssetTime
  BY DEF Readiness!LoadEnds, Readiness!TypeOK
<1>2. PICK k \in Keys : load[l].key = k /\ token[k] \in Readiness!Tokens
  BY <1>1 DEF Readiness!LoadRows, Readiness!TypeOK
<1> DEFINE e == Readiness!EvidenceOf(token[k], failing)
<1>3. e \in Readiness!Evidence
  BY <1>2, EvidenceTells
<1> HIDE DEF e
(* The load, the entry and the requests after the step.                    *)
<1>4. PICK row \in Readiness!LoadRows :
        /\ row # None /\ row.key = k /\ row.endedAt = assetNow
        /\ load' = [load EXCEPT ![l] = row]
        /\ \/ /\ row.state = "ended" /\ row.evidence = e /\ row.seen = token[k]
              /\ cached' = Readiness!Kept(l, e)
           \/ /\ row.state = "failed" /\ row.evidence = None
              /\ cached' = Readiness!Dropped(l)
  <2>1. CASE k \in Loadable
    <3> DEFINE row == [key |-> k, state |-> "ended", evidence |-> e, seen |-> token[k], endedAt |-> assetNow]
    <3>1. row \in Readiness!LoadRows
      BY <1>1, <1>2, <1>3 DEF Readiness!LoadRows
    <3>2. load' = [load EXCEPT ![l] = row] /\ cached' = Readiness!Kept(l, e)
      BY <1>2, <2>1 DEF Readiness!LoadEnds, e
    <3>3. row # None
      BY <3>1 DEF Readiness!ReadinessAssumption
    <3> QED
      BY <3>1, <3>2, <3>3
  <2>2. CASE k \notin Loadable
    <3> DEFINE row == [load[l] EXCEPT !.state = "failed", !.endedAt = assetNow]
    <3>1. row \in Readiness!LoadRows /\ row.key = k /\ row.endedAt = assetNow /\ row.state = "failed" /\ row.evidence = None
      BY <1>1, <1>2 DEF Readiness!LoadRows, LoadsAreSeen
    <3>2. load' = [load EXCEPT ![l] = row] /\ cached' = Readiness!Dropped(l)
      BY <1>1, <1>2, <2>2 DEF Readiness!LoadEnds, Readiness!TypeOK
    <3>3. row # None
      BY <3>1 DEF Readiness!ReadinessAssumption
    <3> QED
      BY <3>1, <3>2, <3>3
  <2> QED
    BY <2>1, <2>2
<1>5. load'[l] = row /\ \A x \in Loads : x # l => load'[x] = load[x]
  BY <1>4 DEF Readiness!TypeOK
<1>6. \A x \in Askers :
        /\ request'[x] # None => request[x] # None
        /\ request[x] # None =>
             /\ request[x] \in Readiness!RequestRows
             /\ request'[x] \in Readiness!RequestRows
             /\ request'[x].key = request[x].key /\ request'[x].load = request[x].load
             /\ request'[x].askedAt = request[x].askedAt
             /\ request'[x].load # l => request'[x].step = request[x].step
  BY DEF Readiness!LoadEnds, Readiness!Continue, Readiness!TypeOK, Readiness!RequestRows
<1>7. request' \in [Askers -> Readiness!RequestRows \union {None}]
  <2>1. DOMAIN request' = Askers /\ request' = [x \in Askers |-> request'[x]]
    BY DEF Readiness!LoadEnds, Readiness!Continue
  <2>2. \A x \in Askers : request[x] = None => request'[x] = None
    BY DEF Readiness!LoadEnds, Readiness!Continue
  <2> QED
    BY <1>6, <2>1, <2>2
<1>8. cached' \in Readiness!CacheRows \union {None}
      /\ (cached' # None => cached # None /\ cached'.load = cached.load /\ cached'.key = cached.key)
      /\ (cached' # None /\ cached.load # l => cached'.expiresAt = cached.expiresAt)
      /\ (cached' # None /\ cached.load = l =>
             row.state = "ended" /\ cached'.expiresAt = assetNow + IF e.errors THEN FailureTtl ELSE CacheTtl)
  <2>1. CASE cached = None \/ cached.load # l
    BY <1>4, <2>1 DEF Readiness!Kept, Readiness!Dropped, Readiness!TypeOK
  <2>2. CASE cached # None /\ cached.load = l
    <3>1. PICK old \in Readiness!CacheRows : cached = old
      BY <2>2 DEF Readiness!TypeOK
    <3>2. assetNow + (IF e.errors THEN FailureTtl ELSE CacheTtl) \in 0..Readiness!Forever
      BY <1>1, <1>3 DEF Readiness!Forever, Readiness!ReadinessAssumption,
          Readiness!Evidence
    <3>3. CASE row.state = "ended"
      <4>1. cached' = [old EXCEPT !.expiresAt = assetNow + IF e.errors THEN FailureTtl ELSE CacheTtl]
        BY <1>4, <2>2, <3>1, <3>3 DEF Readiness!Kept
      <4> QED
        BY <2>2, <3>1, <3>2, <3>3, <4>1 DEF Readiness!CacheRows
    <3>4. CASE row.state # "ended"
      BY <1>4, <2>2, <3>4 DEF Readiness!Dropped
    <3> QED
      BY <3>3, <3>4
  <2> QED
    BY <2>1, <2>2
<1>9. Readiness!TypeOK'
  BY <1>1, <1>4, <1>7, <1>8 DEF Readiness!TypeOK
<1>10. LoadsAreSeen'
  <2>1. row.state = "ended" =>
          row.seen \in Readiness!Tokens /\ row.evidence = Readiness!EvidenceOf(row.seen, failing)
    BY <1>2, <1>4 DEF e
  <2>2. row.state # "ended" => row.evidence = None
    BY <1>4
  <2> QED
    BY <1>5, <2>1, <2>2 DEF LoadsAreSeen
<1>11. row.state # "loading" /\ (row.state = "ended" => row.evidence = e)
  BY <1>4
<1>12. CacheIsCurrent'
  <2> SUFFICES ASSUME cached' # None
               PROVE  /\ load'[cached'.load] # None /\ load'[cached'.load].key = cached'.key
                      /\ load'[cached'.load].state # "failed"
                      /\ load'[cached'.load].state = "ended" =>
                           cached'.expiresAt = load'[cached'.load].endedAt + Life(cached.load)'
    BY DEF CacheIsCurrent
  <2>1. cached' \in Readiness!CacheRows /\ cached'.load \in Loads
    BY <1>8 DEF Readiness!CacheRows
  <2>2. CASE cached.load = l
    BY <1>2, <1>4, <1>5, <1>8, <1>11, <2>2 DEF CacheIsCurrent, Life
  <2>3. CASE cached.load # l
    BY <1>5, <1>8, <2>1, <2>3 DEF CacheIsCurrent, Life
  <2> QED
    BY <2>2, <2>3
<1>13. RequestsInTime'
  <2> SUFFICES ASSUME NEW x \in Askers, request'[x] # None
               PROVE  /\ AskedInTime(request[x].load, request[x].askedAt)'
                      /\ load'[request'[x].load].key = request'[x].key
                      /\ request'[x].askedAt <= assetNow'
                      /\ request'[x].step = "supported" => load'[request'[x].load].state # "loading"
    BY DEF RequestsInTime
  <2>1. /\ request[x] # None /\ request[x] \in Readiness!RequestRows
        /\ request'[x].key = request[x].key /\ request'[x].load = request[x].load
        /\ request'[x].askedAt = request[x].askedAt
        /\ request'[x].load # l => request'[x].step = request[x].step
    BY <1>6
  <2>2. request[x].askedAt <= assetNow /\ request[x].askedAt \in Nat /\ assetNow \in Nat /\ request[x].load \in Loads
    BY <1>1, <2>1 DEF RequestsInTime, Readiness!RequestRows
  <2>3. CASE request[x].load = l
    <3>1. Life(l)' = (IF row.evidence.errors THEN FailureTtl ELSE CacheTtl)
      BY <1>5 DEF Life
    <3>2. row.state = "ended" => request[x].askedAt < row.endedAt + Life(l)'
      BY <1>3, <1>4, <2>2, <3>1 DEF Readiness!ReadinessAssumption, Readiness!Evidence
    <3>3. AskedInTime(request[x].load, request[x].askedAt)'
      BY <1>4, <1>5, <2>1, <2>2, <2>3, <3>2 DEF AskedInTime
    <3> QED
      BY <1>1, <1>2, <1>4, <1>5, <1>11, <2>1, <2>2, <2>3, <3>3 DEF RequestsInTime
  <2>4. CASE request[x].load # l
    BY <1>1, <1>5, <2>1, <2>2, <2>4 DEF RequestsInTime, AskedInTime, Life
  <2> QED
    BY <2>3, <2>4
<1>14. VerdictsInTime'
  BY <1>1, <1>5, VerdictsStay
<1> QED
  BY <1>9, <1>10, <1>12, <1>13, <1>14

LEMMA CheckStep ==
  ASSUME Readiness!ReadinessAssumption, ReadinessInv, NEW r \in Askers, Readiness!Answers(r)
  PROVE  ReadinessInv'
<1> USE DEF ReadinessInv
<1>1. PICK supported \in {"ready", "facilitator_unavailable", "facilitator_unsupported"} :
        Readiness!CheckReadiness(r, supported)
  BY DEF Readiness!Answers
<1>2. PICK q \in Readiness!RequestRows : request[r] = q /\ q # None /\ q.step = "supported"
  BY <1>1 DEF Readiness!CheckReadiness, Readiness!TypeOK
<1>3. PICK l \in Loads : q.load = l /\ load[l] # None /\ load[l].key = q.key
                        /\ AskedInTime(l, q.askedAt) /\ load[l].state # "loading"
  BY <1>2 DEF Readiness!RequestRows, RequestsInTime, AskedInTime
<1> DEFINE failure == Readiness!PaymentAssetFailure(load[l].evidence)
           new == [key |-> q.key, load |-> l, askedAt |-> q.askedAt,
                   status |-> IF failure # "none" THEN failure ELSE supported]
<1>4. /\ verdict' = [verdict EXCEPT ![r] = new]
      /\ request' = [request EXCEPT ![r] = None]
      /\ UNCHANGED <<assetNow, token, cached, load, changes>>
  BY <1>1, <1>2, <1>3 DEF Readiness!CheckReadiness
<1>5. failure \in (Readiness!Statuses \ {"ready"}) \union {"none"}
  BY FailureTypes
<1>6. /\ load[l].state = "failed" => failure = "x402_asset_evidence_unavailable"
      /\ failure = "none" => load[l].state = "ended" /\ load[l].seen = Readiness!GoodToken
      /\ failure = "x402_asset_package_not_found" => load[l].seen.package = "absent"
  <2>1. load[l].state \in {"ended", "failed"}
    BY <1>3 DEF Readiness!TypeOK, Readiness!LoadRows
  <2>2. CASE load[l].state = "failed"
    <3>1. load[l].evidence = None
      BY <1>3, <2>2 DEF LoadsAreSeen
    <3> QED
      BY <2>2, <3>1 DEF Readiness!PaymentAssetFailure
  <2>3. CASE load[l].state = "ended"
    <3>1. PICK t \in Readiness!Tokens, failing \in Readiness!Queries :
            load[l].seen = t /\ load[l].evidence = Readiness!EvidenceOf(t, failing)
      BY <1>3, <2>3 DEF LoadsAreSeen
    <3> QED
      BY <2>3, <3>1, EvidenceTells
  <2> QED
    BY <2>1, <2>2, <2>3
<1> HIDE DEF failure
<1>7. /\ new \in Readiness!VerdictRows /\ new.load = l /\ new.key = q.key /\ new.askedAt = q.askedAt
      /\ new.status = "ready" => failure = "none"
      /\ new.status = "x402_asset_package_not_found" => failure = "x402_asset_package_not_found"
  BY <1>2, <1>5 DEF Readiness!VerdictRows, Readiness!RequestRows, Readiness!Statuses
<1> HIDE DEF new
<1>8. Readiness!TypeOK'
  BY <1>4, <1>7 DEF Readiness!TypeOK
<1>9. LoadsAreSeen' /\ CacheIsCurrent'
  BY <1>4 DEF LoadsAreSeen, CacheIsCurrent, Life
<1>10. RequestsInTime'
  BY <1>4 DEF RequestsInTime, AskedInTime, Life, Readiness!TypeOK
<1>11. VerdictsInTime'
  <2>1. /\ AskedInTime(new.load, new.askedAt) /\ load[new.load].state # "loading"
        /\ new.status = "ready" =>
             load[new.load].key = new.key /\ load[new.load].state = "ended" /\ load[new.load].seen = Readiness!GoodToken
        /\ new.status = "x402_asset_package_not_found" => load[new.load].seen.package = "absent"
    BY <1>3, <1>6, <1>7
  <2>2. verdict'[r] = new /\ \A x \in Askers : x # r => verdict'[x] = verdict[x]
    BY <1>4 DEF Readiness!TypeOK
  <2>3. load' = load
    BY <1>4
  <2> QED
    BY <2>1, <2>2, <2>3 DEF VerdictsInTime, AskedInTime, Life
<1> QED
  BY <1>8, <1>9, <1>10, <1>11

LEMMA ReadinessStep ==
  ASSUME Readiness!ReadinessAssumption
  PROVE  ReadinessInv /\ [Readiness!Next]_(Readiness!vars) => ReadinessInv'
<1> SUFFICES ASSUME ReadinessInv, [Readiness!Next]_(Readiness!vars) PROVE ReadinessInv'
  OBVIOUS
<1>1. ASSUME UNCHANGED <<cached, load, request, verdict>>, assetNow <= assetNow', Readiness!TypeOK'
      PROVE  ReadinessInv'
  <2>1. RequestsInTime'
    BY <1>1 DEF ReadinessInv, Readiness!TypeOK, Readiness!RequestRows, RequestsInTime,
        AskedInTime, Life
  <2> QED
    BY <1>1, <2>1 DEF ReadinessInv, LoadsAreSeen, CacheIsCurrent, VerdictsInTime,
        AskedInTime, Life
<1>2. ASSUME NEW k \in Keys, NEW t \in Readiness!Tokens, Readiness!Upgrade(k, t) PROVE ReadinessInv'
  <2>1. Readiness!TypeOK' /\ assetNow <= assetNow'
    BY <1>2 DEF Readiness!Upgrade, ReadinessInv, Readiness!TypeOK,
        Readiness!ReadinessAssumption
  <2> QED
    BY <1>1, <1>2, <2>1 DEF Readiness!Upgrade
<1>3. ASSUME Readiness!Tick PROVE ReadinessInv'
  <2>1. Readiness!TypeOK' /\ assetNow <= assetNow'
    BY <1>3 DEF Readiness!Tick, ReadinessInv, Readiness!TypeOK,
        Readiness!ReadinessAssumption
  <2> QED
    BY <1>1, <1>3, <2>1 DEF Readiness!Tick
<1>4. CASE UNCHANGED Readiness!vars
  <2>1. Readiness!TypeOK' /\ assetNow <= assetNow'
    BY <1>4 DEF Readiness!vars, ReadinessInv, Readiness!TypeOK,
        Readiness!ReadinessAssumption
  <2> QED
    BY <1>1, <1>4, <2>1 DEF Readiness!vars
<1> QED
  BY <1>2, <1>3, <1>4, AskStep, LoadEndsStep, CheckStep DEF Readiness!Next, Readiness!Ends

LEMMA ReadinessInvariant ==
  ASSUME Readiness!ReadinessAssumption
  PROVE  Readiness!Spec => []ReadinessInv
<1>1. Readiness!Init => ReadinessInv
  BY ReadinessInit
<1>2. ReadinessInv /\ [Readiness!Next]_(Readiness!vars) => ReadinessInv'
  BY ReadinessStep
<1> QED
  BY <1>1, <1>2, PTL DEF Readiness!Spec

(* What is said of a token was seen on the chain, for this token, within   *)
(* the life of what was kept.                                              *)
THEOREM ReadinessIsCurrentCorrect ==
  ASSUME Readiness!ReadinessAssumption
  PROVE  Readiness!Spec => []ReadinessIsCurrent
<1>1. ReadinessInv => Readiness!ReadinessIsCurrent
  <2> SUFFICES ASSUME ReadinessInv, NEW r \in Askers, verdict[r] # None,
                      NEW v, v = verdict[r], NEW l \in Loads, v.load = l
               PROVE  /\ v.status = "ready" =>
                           /\ load[l].key = v.key /\ load[l].seen = Readiness!GoodToken
                           /\ v.askedAt < load[l].endedAt + CacheTtl
                      /\ IF load[l].state = "failed" THEN v.askedAt <= load[l].endedAt
                          ELSE load[l].evidence.errors => v.askedAt < load[l].endedAt + FailureTtl
                      /\ v.status = "x402_asset_package_not_found" => load[l].seen.package = "absent"
    <3>1. \A v \in Readiness!Reported : \E r \in Askers : v = verdict[r] /\ verdict[r] # None
      BY DEF Readiness!Reported
    <3>2. ReadinessInv => \A r \in Askers : verdict[r] # None => verdict[r].load \in Loads
      BY DEF ReadinessInv, Readiness!TypeOK, Readiness!VerdictRows
    <3> QED
      BY <3>1, <3>2 DEF Readiness!ReadinessIsCurrent, Readiness!ReadyIsRecent,
          Readiness!OutageIsBrief, Readiness!OutageIsNotAbsence
  <2> USE DEF ReadinessInv
  <2>1. v \in Readiness!VerdictRows /\ load[l] \in Readiness!LoadRows /\ load[l].state \in {"ended", "failed"}
    BY DEF Readiness!TypeOK, Readiness!LoadRows, VerdictsInTime, AskedInTime
  <2>2. /\ load[l].state = "failed" => v.askedAt <= load[l].endedAt
        /\ load[l].state = "ended" => v.askedAt < load[l].endedAt + Life(l)
    BY DEF VerdictsInTime, AskedInTime
  <2>3. v.askedAt \in Nat /\ load[l].endedAt \in Nat /\ FailureTtl \in Nat /\ CacheTtl \in Nat
        /\ FailureTtl <= CacheTtl
    BY <2>1 DEF Readiness!VerdictRows, Readiness!LoadRows, Readiness!ReadinessAssumption
  <2>4. v.status = "ready" => v.askedAt < load[l].endedAt + CacheTtl
    BY <2>2, <2>3 DEF VerdictsInTime, Life
  <2> QED
    BY <2>1, <2>2, <2>3, <2>4 DEF VerdictsInTime, Life
<1> QED
  BY <1>1, ReadinessInvariant, PTL DEF ReadinessIsCurrent

----------------------------------------------------------------------------
(* The rate limiter: a client that passes more often than twice its limit  *)
(* was forgotten, and only a crowd makes the limiter forget.               *)

(* The maps of the limiter are those of BoundedMap.                        *)
LEMMA LimiterMaps ==
  \A m, K, k :
    /\ Limiter!Without(m, K) = Without(m, K)
    /\ Limiter!KeysOf(m) = KeysOf(m) /\ Limiter!Holds(m, k) = Holds(m, k)
    /\ Limiter!Get(m, k) = Get(m, k)
BY Zenon DEF Limiter!Without, Without, Limiter!Staying, Staying, Limiter!Nth, Nth,
             Limiter!Rank, Rank, Limiter!Cardinality, Cardinality,
             Limiter!KeysOf, KeysOf, Limiter!Holds, Holds, Limiter!Get, Get

LEMMA LimiterCardinality == \A S : Limiter!Cardinality(S) = Cardinality(S)
BY Zenon DEF Limiter!Cardinality, Cardinality

Bucket == [key : Clients, value : [count : Nat \ {0}, startedAt : Nat]]

(* A bucket counts up to the limit and started with a request of its       *)
(* client; nothing is of a later time.                                     *)
LimitsTyped ==
  /\ limit \in Nat \ {0} /\ limitNow \in Nat
  /\ buckets \in MapsOf(Bucket)
  /\ log \in Seq([client : Clients, at : Nat])
  /\ \A j \in 1..Len(log) : log[j].at <= limitNow
  /\ \A i \in DOMAIN buckets :
        /\ buckets[i].value.count <= limit /\ buckets[i].value.startedAt <= limitNow
        /\ \E j \in 1..Len(log) : /\ log[j].client = buckets[i].key
                                  /\ log[j].at = buckets[i].value.startedAt

(* What a client was let through in the window from first, and the others  *)
(* that came in it or the window before.                                   *)
Passed(client, first) == Limiter!RequestsIn(client, first, first + WindowMs - 1)

Around(client, first) ==
  {c \in Clients \ {client} :
     Limiter!RequestsIn(c, first - WindowMs + 1, first + WindowMs - 1) # {}}

Crowded(client, first) == Cardinality(Around(client, first)) >= MaxKeys

(* Without a crowd, the bucket of a client accounts for the requests in    *)
(* the windows that have not ended: those from its start on are counted,   *)
(* those before it are fewer than the limit, and the first is not in a     *)
(* window that starts later.                                               *)
Accounted(client) ==
  \A first \in Nat : first <= limitNow /\ limitNow < first + WindowMs /\ ~ Crowded(client, first) =>
    /\ \A i \in DOMAIN buckets :
         buckets[i].key = client /\ ~ Limiter!Over(buckets[i].value) =>
           /\ first <= buckets[i].value.startedAt =>
                Cardinality(Passed(client, first)) <= limit - 1 + buckets[i].value.count
           /\ first > buckets[i].value.startedAt =>
                Cardinality(Passed(client, first)) <= buckets[i].value.count - 1
    /\ (\A i \in DOMAIN buckets : buckets[i].key = client => Limiter!Over(buckets[i].value)) =>
         Cardinality(Passed(client, first)) <= limit - 1

WithinBudget(client) ==
  \A first \in Nat : first <= limitNow /\ ~ Crowded(client, first) =>
    Cardinality(Passed(client, first)) < 2 * limit

LimitsInv == LimitsTyped /\ \A client \in Clients : Accounted(client) /\ WithinBudget(client)

LEMMA LimiterConstants ==
  ASSUME Limiter!RateLimitsAssumption
  PROVE  WindowMs \in Nat \ {0} /\ MaxKeys \in Nat \ {0} /\ MaxLimit \in Nat \ {0}
         /\ DefaultLimit \in 1..MaxLimit
BY DEF Limiter!RateLimitsAssumption

----------------------------------------------------------------------------
(* The requests let through.                                               *)

LEMMA LogRows ==
  ASSUME LimitsTyped
  PROVE  /\ Len(log) \in Nat /\ DOMAIN log = 1..Len(log)
         /\ \A j \in 1..Len(log) : log[j].client \in Clients /\ log[j].at \in Nat
<1> DEFINE Rows == [client : Clients, at : Nat]
<1>1. log \in Seq(Rows)
  BY DEF LimitsTyped
<1> HIDE DEF Rows
<1>2. Len(log) \in Nat /\ DOMAIN log = 1..Len(log) /\ \A j \in 1..Len(log) : log[j] \in Rows
  BY <1>1
<1> QED
  BY <1>2 DEF Rows

LEMMA RequestsFinite ==
  ASSUME LimitsTyped
  PROVE  \A c, a, b : /\ IsFiniteSet(Limiter!RequestsIn(c, a, b))
                      /\ Cardinality(Limiter!RequestsIn(c, a, b)) \in Nat
<1>1. IsFiniteSet(1..Len(log))
  BY LogRows, FirstNaturals
<1>2. \A c, a, b : Limiter!RequestsIn(c, a, b) \in SUBSET (1..Len(log))
  BY LogRows DEF Limiter!RequestsIn
<1> QED
  BY <1>1, <1>2, FS_Subset, FS_CardinalityType

CrowdsFinite ==
  \A client, first :
     IsFiniteSet(Around(client, first)) /\ Cardinality(Around(client, first)) \in Nat

LEMMA AroundFinite == ASSUME LimitsTyped PROVE CrowdsFinite
<1> DEFINE R == {log[j].client : j \in 1..Len(log)}
<1> DEFINE f == [j \in 1..Len(log) |-> log[j].client]
<1>1. f \in Surjection(1..Len(log), R)
  BY DEF Surjection
<1>2. IsFiniteSet(R)
  <2> HIDE DEF f, R
  <2>1. IsFiniteSet(1..Len(log))
    BY LogRows, FirstNaturals
  <2> QED
    BY <1>1, <2>1, FS_Surjection
<1>3. \A client, first : Around(client, first) \in SUBSET R
  BY LogRows DEF Around, Limiter!RequestsIn
<1> HIDE DEF R
<1> QED
  BY <1>2, <1>3, FS_Subset, FS_CardinalityType DEF CrowdsFinite

LEMMA AroundFiniteNext == LimitsTyped' => CrowdsFinite'
<1>1. LimitsTyped => CrowdsFinite
  BY AroundFinite
<1> QED
  BY <1>1, PTL

(* A request that is let through adds to the windows it is in.             *)
LEMMA OneMore ==
  ASSUME LimitsTyped, NEW n \in Clients, log' = Append(log, [client |-> n, at |-> limitNow])
  PROVE  /\ log' \in Seq([client : Clients, at : Nat]) /\ Len(log') = Len(log) + 1
         /\ log'[Len(log) + 1] = [client |-> n, at |-> limitNow]
         /\ \A j \in 1..Len(log) : log'[j] = log[j]
         /\ \A c, a, b :
              /\ Limiter!RequestsIn(c, a, b) \subseteq Limiter!RequestsIn(c, a, b)'
              /\ c = n /\ limitNow \in a..b =>
                   Cardinality(Limiter!RequestsIn(c, a, b)')
                     = Cardinality(Limiter!RequestsIn(c, a, b)) + 1
              /\ ~ (c = n /\ limitNow \in a..b) =>
                   Limiter!RequestsIn(c, a, b)' = Limiter!RequestsIn(c, a, b)
<1> DEFINE last == [client |-> n, at |-> limitNow]
<1> DEFINE more == Len(log) + 1
<1>1. last \in [client : Clients, at : Nat] /\ last.client = n /\ last.at = limitNow
  BY DEF LimitsTyped
<1>2. log \in Seq([client : Clients, at : Nat]) /\ Len(log) \in Nat /\ DOMAIN log = 1..Len(log)
  BY LogRows DEF LimitsTyped
<1> HIDE DEF last
<1>3. /\ log' \in Seq([client : Clients, at : Nat]) /\ Len(log') = more
      /\ DOMAIN log' = 1..more /\ log'[more] = last
      /\ \A j \in 1..Len(log) : log'[j] = log[j]
  BY <1>1, <1>2 DEF last
<1>4. \A j : j \in 1..more <=> j \in 1..Len(log) \/ j = more
  BY <1>2
<1>5. more \notin 1..Len(log)
  BY <1>2
<1> HIDE DEF more
<1>6. ASSUME NEW c, NEW a, NEW b
      PROVE  /\ c = n /\ limitNow \in a..b =>
                  Limiter!RequestsIn(c, a, b)' = Limiter!RequestsIn(c, a, b) \union {more}
             /\ ~ (c = n /\ limitNow \in a..b) =>
                  Limiter!RequestsIn(c, a, b)' = Limiter!RequestsIn(c, a, b)
             /\ more \notin Limiter!RequestsIn(c, a, b)
  BY <1>1, <1>2, <1>3, <1>4, <1>5 DEF Limiter!RequestsIn
<1>7. ASSUME NEW c, NEW a, NEW b, c = n, limitNow \in a..b
      PROVE  Cardinality(Limiter!RequestsIn(c, a, b)')
               = Cardinality(Limiter!RequestsIn(c, a, b)) + 1
  <2>1. IsFiniteSet(Limiter!RequestsIn(c, a, b))
    BY RequestsFinite
  <2> QED
    BY <1>6, <1>7, <2>1, FS_AddElement
<1> QED
  BY <1>3, <1>6, <1>7 DEF last, more

(* A crowd does not go away.                                               *)
LEMMA CrowdsGrow ==
  ASSUME LimitsTyped, LimitsTyped',
         \A c, a, b : Limiter!RequestsIn(c, a, b) \subseteq Limiter!RequestsIn(c, a, b)',
         Limiter!RateLimitsAssumption
  PROVE  \A client, first : Crowded(client, first) => Crowded(client, first)'
<1> SUFFICES ASSUME NEW client, NEW first, Crowded(client, first)
             PROVE  Crowded(client, first)'
  OBVIOUS
<1>1. Around(client, first) \subseteq Around(client, first)'
  BY DEF Around
<1>2. IsFiniteSet(Around(client, first)') /\ Cardinality(Around(client, first)') \in Nat
  BY AroundFiniteNext DEF CrowdsFinite
<1>3. Cardinality(Around(client, first)) <= Cardinality(Around(client, first)')
  BY <1>1, <1>2, FS_Subset
<1>4. Cardinality(Around(client, first)) \in Nat
  BY AroundFinite DEF CrowdsFinite
<1> QED
  BY <1>2, <1>3, <1>4, LimiterConstants DEF Crowded

----------------------------------------------------------------------------
(* The buckets.                                                            *)

LEMMA BucketRows ==
  ASSUME LimitsTyped, NEW i \in DOMAIN buckets
  PROVE  /\ buckets[i].key \in Clients /\ buckets[i].value.count \in Nat \ {0}
         /\ buckets[i].value.startedAt \in Nat
         /\ buckets[i].value.count <= limit /\ buckets[i].value.startedAt <= limitNow
<1>1. buckets[i] \in Bucket
  BY MapDef DEF LimitsTyped
<1> QED
  BY <1>1 DEF LimitsTyped, Bucket

LEMMA ExpiredBuckets ==
  ASSUME LimitsTyped, NEW i \in DOMAIN buckets
  PROVE  buckets[i].key \in Limiter!Expired <=> Limiter!Over(buckets[i].value)
<1>1. Holds(buckets, buckets[i].key) /\ Get(buckets, buckets[i].key) = buckets[i].value
  BY GetEntry DEF LimitsTyped
<1> QED
  BY <1>1, LimiterMaps DEF Limiter!Expired, Holds

(* A client has a bucket whose window goes on, or none.                    *)
LEMMA BucketOf ==
  ASSUME LimitsTyped, NEW n
  PROVE  /\ Limiter!HasBucket(n) =>
              \E i \in DOMAIN buckets : /\ buckets[i].key = n /\ ~ Limiter!Over(buckets[i].value)
                                        /\ Limiter!Get(buckets, n) = buckets[i].value
         /\ ~ Limiter!HasBucket(n) =>
              \A i \in DOMAIN buckets : buckets[i].key = n => Limiter!Over(buckets[i].value)
<1>1. \A i \in DOMAIN buckets :
        Holds(buckets, buckets[i].key) /\ Get(buckets, buckets[i].key) = buckets[i].value
  BY GetEntry DEF LimitsTyped
<1>2. Holds(buckets, n) => \E i \in DOMAIN buckets : buckets[i].key = n
  BY DEF Holds, KeysOf
<1> QED
  BY <1>1, <1>2, LimiterMaps DEF Limiter!HasBucket

(* The buckets after one that is new: it and some of the old ones, of      *)
(* other clients.                                                          *)
LEMMA FreshBuckets ==
  ASSUME LimitsTyped, NEW n \in Clients, buckets' = Limiter!Fresh(n)
  PROVE  /\ buckets' \in MapsOf(Bucket)
         /\ \A i \in DOMAIN buckets' :
              \/ buckets'[i] = [key |-> n, value |-> [count |-> 1, startedAt |-> limitNow]]
              \/ \E j \in DOMAIN buckets : buckets'[i] = buckets[j] /\ buckets[j].key # n
         /\ \A j \in DOMAIN buckets :
              buckets[j].key \notin Limiter!Expired \union {n} \union Limiter!MakeRoom(n) =>
                \E i \in DOMAIN buckets' : buckets'[i] = buckets[j]
<1> DEFINE e == [key |-> n, value |-> [count |-> 1, startedAt |-> limitNow]]
<1> DEFINE K == Limiter!Expired \union {n} \union Limiter!MakeRoom(n)
<1> DEFINE w == Without(buckets, K)
<1>1. buckets' = Append(w, e)
  BY LimiterMaps DEF Limiter!Fresh
<1>2. e \in Bucket /\ e.key = n
  BY DEF Bucket, LimitsTyped
<1>3. n \in K
  OBVIOUS
<1> HIDE DEF e, K
<1>4. /\ w \in MapsOf(Bucket)
      /\ \A i \in DOMAIN w : \E j \in DOMAIN buckets : w[i] = buckets[j] /\ buckets[j].key \notin K
      /\ \A j \in DOMAIN buckets : buckets[j].key \notin K => \E i \in DOMAIN w : w[i] = buckets[j]
  BY WithoutKeyed DEF LimitsTyped
<1> HIDE DEF w
<1>5. ~ Holds(w, e.key)
  BY <1>2, <1>3, <1>4 DEF Holds, KeysOf
<1>6. /\ Append(w, e) \in MapsOf(Bucket)
      /\ DOMAIN Append(w, e) = 1..(Len(w) + 1)
      /\ \A i \in DOMAIN w : i \in 1..Len(w) /\ Append(w, e)[i] = w[i]
      /\ Append(w, e)[Len(w) + 1] = e
  BY <1>2, <1>4, <1>5, AppendKeyed
<1>7. Len(w) \in Nat /\ DOMAIN w = 1..Len(w)
  BY <1>4, MapDef
<1>8. \A i \in 1..(Len(w) + 1) : i = Len(w) + 1 \/ i \in DOMAIN w
  BY <1>7
<1>9. \A i \in DOMAIN w : i \in DOMAIN Append(w, e)
  BY <1>6, <1>7
<1> QED
  BY <1>1, <1>3, <1>4, <1>6, <1>8, <1>9 DEF e, K

(* A bucket whose window goes on is pushed out in a crowd only: of the     *)
(* others that have such a bucket, and the one that takes its place.       *)
LEMMA PushedOutByCrowd ==
  ASSUME Limiter!RateLimitsAssumption, LimitsTyped, LimitsTyped', NEW n \in Clients,
         buckets' = Limiter!Fresh(n), log' = Append(log, [client |-> n, at |-> limitNow]),
         NEW client, client # n, NEW j \in DOMAIN buckets, buckets[j].key = client, ~ Limiter!Over(buckets[j].value),
         \A i \in DOMAIN buckets' : buckets'[i] # buckets[j],
         NEW first \in Nat, first <= limitNow, limitNow < first + WindowMs
  PROVE  Crowded(client, first)'
<1> DEFINE live == Without(buckets, Limiter!Expired \union {n})
<1> DEFINE others == (KeysOf(live) \ {client}) \union {n}
<1>1. client \notin Limiter!Expired \union {n}
  BY ExpiredBuckets
<1>2. client \in Limiter!MakeRoom(n)
  BY <1>1, FreshBuckets
<1>3. Len(live) >= MaxKeys
  BY <1>2, LimiterMaps DEF Limiter!MakeRoom
<1>4. live \in MapsOf(Bucket) /\ KeysOf(live) = KeysOf(buckets) \ (Limiter!Expired \union {n})
  BY WithoutKeyed, WithoutKeys DEF LimitsTyped
<1>5. client \in KeysOf(buckets)
  BY DEF KeysOf
<1> HIDE DEF live
<1>6. Len(live) \in Nat /\ IsFiniteSet(KeysOf(live)) /\ Cardinality(KeysOf(live)) = Len(live)
  BY <1>4, KeysCardinality, MapDef
<1>7. client \in KeysOf(live) /\ n \notin KeysOf(live) \ {client}
  BY <1>1, <1>4, <1>5
<1>8. IsFiniteSet(others) /\ Cardinality(others) = Len(live)
  <2> DEFINE rest == KeysOf(live) \ {client}
  <2>1. IsFiniteSet(rest) /\ Cardinality(rest) = Len(live) - 1
    BY <1>6, <1>7, FS_RemoveElement
  <2>2. n \notin rest /\ others = rest \union {n}
    BY <1>7
  <2> HIDE DEF rest, others
  <2>3. IsFiniteSet(rest \union {n}) /\ Cardinality(rest \union {n}) = Cardinality(rest) + 1
    BY <2>1, <2>2, FS_AddElement
  <2>4. \A k \in Nat : k - 1 + 1 = k
    OBVIOUS
  <2> QED
    BY <1>6, <2>1, <2>2, <2>3, <2>4
<1>9. others \subseteq Around(client, first)'
  <2>1. WindowMs \in Nat \ {0} /\ limitNow \in Nat /\ Len(log) \in Nat
    BY LimiterConstants, LogRows DEF LimitsTyped
  <2>2. /\ Len(log') = Len(log) + 1 /\ DOMAIN log' = 1..(Len(log) + 1)
        /\ log'[Len(log) + 1] = [client |-> n, at |-> limitNow]
        /\ \A k \in 1..Len(log) : log'[k] = log[k]
    <3>1. /\ Len(log') = Len(log) + 1
          /\ log'[Len(log) + 1] = [client |-> n, at |-> limitNow]
          /\ \A k \in 1..Len(log) : log'[k] = log[k]
      BY OneMore
    <3>2. DOMAIN log' = 1..Len(log')
      BY LogRows
    <3> QED
      BY <3>1, <3>2
  <2>3. n \in Around(client, first)'
    <3>1. limitNow \in (first - WindowMs + 1)..(first + WindowMs - 1)
      BY <2>1
    <3>2. Len(log) + 1 \in 1..(Len(log) + 1)
      BY <2>1
    <3>4. Len(log) + 1 \in Limiter!RequestsIn(n, first - WindowMs + 1, first + WindowMs - 1)'
      BY <2>2, <3>1, <3>2 DEF Limiter!RequestsIn
    <3> QED
      BY <3>4 DEF Around
  <2>4. ASSUME NEW c \in KeysOf(live), c # client
        PROVE  c \in Around(client, first)'
    <3>1. PICK i \in DOMAIN buckets : buckets[i].key = c
      BY <1>4 DEF KeysOf
    <3>2. ~ Limiter!Over(buckets[i].value)
      BY <1>4, <3>1, ExpiredBuckets
    <3>3. buckets[i].value.startedAt \in Nat /\ buckets[i].value.startedAt <= limitNow
      BY BucketRows
    <3>4. buckets[i].value.startedAt \in (first - WindowMs + 1)..(first + WindowMs - 1)
      BY <2>1, <3>2, <3>3 DEF Limiter!Over
    <3>5. PICK k \in 1..Len(log) : log[k].client = c /\ log[k].at = buckets[i].value.startedAt
      BY <3>1 DEF LimitsTyped
    <3>6. k \in 1..(Len(log) + 1)
      BY <2>1
    <3>7. k \in Limiter!RequestsIn(c, first - WindowMs + 1, first + WindowMs - 1)'
      BY <2>2, <3>4, <3>5, <3>6 DEF Limiter!RequestsIn
    <3>8. c \in Clients
      BY <3>1, BucketRows
    <3> QED
      BY <2>4, <3>7, <3>8 DEF Around
  <2> QED
    BY <2>3, <2>4
<1>10. IsFiniteSet(Around(client, first)') /\ Cardinality(Around(client, first)') \in Nat
  BY AroundFiniteNext DEF CrowdsFinite
<1> HIDE DEF others
<1>11. Cardinality(others) <= Cardinality(Around(client, first)')
  BY <1>9, <1>10, FS_Subset
<1> QED
  BY <1>3, <1>6, <1>8, <1>10, <1>11, LimiterConstants DEF Crowded

----------------------------------------------------------------------------
(* A window that goes on.                                                  *)
Open(first) == first <= limitNow /\ limitNow < first + WindowMs

LEMMA OpenWindow ==
  ASSUME LimitsTyped, Limiter!RateLimitsAssumption, NEW first \in Nat
  PROVE  limitNow \in first..(first + WindowMs - 1) <=> Open(first)
BY LimiterConstants DEF LimitsTyped, Open

(* What is accounted for is within the budget.                             *)
LEMMA AccountedWithin ==
  ASSUME LimitsTyped, Limiter!RateLimitsAssumption, NEW client, Accounted(client),
         NEW first \in Nat, Open(first), ~ Crowded(client, first)
  PROVE  Cardinality(Passed(client, first)) < 2 * limit
<1>1. Cardinality(Passed(client, first)) \in Nat /\ limit \in Nat \ {0}
  BY RequestsFinite DEF LimitsTyped, Passed
<1>2. CASE \A i \in DOMAIN buckets : buckets[i].key = client => Limiter!Over(buckets[i].value)
  <2>1. Cardinality(Passed(client, first)) <= limit - 1
    BY <1>2 DEF Accounted, Open
  <2> QED
    BY <1>1, <2>1
<1>3. ASSUME NEW i \in DOMAIN buckets, buckets[i].key = client, ~ Limiter!Over(buckets[i].value)
      PROVE  Cardinality(Passed(client, first)) < 2 * limit
  <2>1. /\ buckets[i].value.count \in Nat /\ buckets[i].value.startedAt \in Nat
        /\ buckets[i].value.count <= limit
    BY BucketRows
  <2>2. /\ first <= buckets[i].value.startedAt =>
              Cardinality(Passed(client, first)) <= limit - 1 + buckets[i].value.count
        /\ first > buckets[i].value.startedAt =>
              Cardinality(Passed(client, first)) <= buckets[i].value.count - 1
    BY <1>3 DEF Accounted, Open
  <2> QED
    BY <1>1, <2>1, <2>2
<1> QED
  BY <1>2, <1>3

LEMMA AccountedWithinNext ==
  ASSUME Limiter!RateLimitsAssumption
  PROVE  (\A client : LimitsTyped /\ Accounted(client) =>
            \A first \in Nat : Open(first) /\ ~ Crowded(client, first) =>
              Cardinality(Passed(client, first)) < 2 * limit)'
<1>1. \A client : LimitsTyped /\ Accounted(client) =>
        \A first \in Nat : Open(first) /\ ~ Crowded(client, first) =>
          Cardinality(Passed(client, first)) < 2 * limit
  BY AccountedWithin
<1> QED
  BY <1>1, PTL

(* A request that is let through keeps the budgets if it is accounted for. *)
LEMMA LetThroughInv ==
  ASSUME Limiter!RateLimitsAssumption, LimitsInv, LimitsTyped', NEW n \in Clients,
         log' = Append(log, [client |-> n, at |-> limitNow]), UNCHANGED <<limit, limitNow>>,
         NEW client \in Clients, Accounted(client)'
  PROVE  WithinBudget(client)'
<1> USE DEF LimitsInv
<1>1. SUFFICES ASSUME NEW first \in Nat, first <= limitNow, ~ Crowded(client, first)'
               PROVE  Cardinality(Passed(client, first)') < 2 * limit
  BY DEF WithinBudget
<1>2. CASE Open(first)
  <2>1. Open(first)'
    BY <1>2 DEF Open
  <2> QED
    BY <1>1, <2>1, AccountedWithinNext
<1>3. CASE ~ Open(first)
  <2>1. limitNow \notin first..(first + WindowMs - 1)
    BY <1>3, OpenWindow
  <2>2. Passed(client, first)' = Passed(client, first)
    BY <2>1, OneMore DEF Passed
  <2>3. Crowded(client, first) => Crowded(client, first)'
    BY OneMore, CrowdsGrow
  <2> QED
    BY <1>1, <2>2, <2>3 DEF WithinBudget
<1> QED
  BY <1>2, <1>3

LEMMA LimitsTypedNext ==
  ASSUME LimitsTyped, NEW n \in Clients, log' = Append(log, [client |-> n, at |-> limitNow]),
         UNCHANGED <<limit, limitNow>>, buckets' \in MapsOf(Bucket),
         \A i \in DOMAIN buckets' :
           \/ /\ buckets'[i].key = n /\ buckets'[i].value.count <= limit
              /\ buckets'[i].value.startedAt = limitNow
           \/ \E j \in DOMAIN buckets :
                /\ buckets'[i].key = buckets[j].key /\ buckets'[i].value.count <= limit
                /\ buckets'[i].value.startedAt = buckets[j].value.startedAt
  PROVE  LimitsTyped'
<1>1. /\ log' \in Seq([client : Clients, at : Nat]) /\ Len(log') = Len(log) + 1
      /\ log'[Len(log) + 1] = [client |-> n, at |-> limitNow]
      /\ \A j \in 1..Len(log) : log'[j] = log[j]
  BY OneMore
<1>2. Len(log) \in Nat /\ limitNow \in Nat
  BY LogRows DEF LimitsTyped
<1>3. \A j : j \in 1..Len(log') <=> j \in 1..Len(log) \/ j = Len(log) + 1
  BY <1>1, <1>2
<1>4. \A j \in 1..Len(log') : log'[j].at <= limitNow
  BY <1>1, <1>2, <1>3 DEF LimitsTyped
<1>5. ASSUME NEW i \in DOMAIN buckets'
      PROVE  /\ buckets'[i].value.count <= limit /\ buckets'[i].value.startedAt <= limitNow
             /\ \E j \in 1..Len(log') : /\ log'[j].client = buckets'[i].key
                                        /\ log'[j].at = buckets'[i].value.startedAt
  <2>1. CASE /\ buckets'[i].key = n /\ buckets'[i].value.count <= limit
             /\ buckets'[i].value.startedAt = limitNow
    <3>1. Len(log) + 1 \in 1..Len(log')
      BY <1>3
    <3> QED
      BY <1>1, <1>2, <2>1, <3>1
  <2>2. ASSUME NEW j \in DOMAIN buckets, buckets'[i].key = buckets[j].key,
               buckets'[i].value.count <= limit,
               buckets'[i].value.startedAt = buckets[j].value.startedAt
        PROVE  /\ buckets'[i].value.count <= limit /\ buckets'[i].value.startedAt <= limitNow
               /\ \E k \in 1..Len(log') : /\ log'[k].client = buckets'[i].key
                                          /\ log'[k].at = buckets'[i].value.startedAt
    <3>1. PICK k \in 1..Len(log) : /\ log[k].client = buckets[j].key
                                   /\ log[k].at = buckets[j].value.startedAt
      BY DEF LimitsTyped
    <3>2. k \in 1..Len(log') /\ log'[k] = log[k]
      BY <1>1, <1>3
    <3>3. buckets[j].value.startedAt <= limitNow
      BY BucketRows
    <3> QED
      BY <2>2, <3>1, <3>2, <3>3
  <2> QED
    BY <2>1, <2>2
<1> QED
  BY <1>1, <1>4, <1>5 DEF LimitsTyped

LEMMA FirstOfWindowInv ==
  ASSUME Limiter!RateLimitsAssumption, LimitsInv, NEW n \in Clients,
         Limiter!FirstOfWindow(n), UNCHANGED <<limit, limitNow>>
  PROVE  LimitsInv'
<1> USE DEF LimitsInv
<1> DEFINE e == [key |-> n, value |-> [count |-> 1, startedAt |-> limitNow]]
<1>1. /\ ~ Limiter!HasBucket(n) /\ buckets' = Limiter!Fresh(n)
      /\ log' = Append(log, [client |-> n, at |-> limitNow])
  BY DEF Limiter!FirstOfWindow, Limiter!LetThrough
<1>2. /\ buckets' \in MapsOf(Bucket)
      /\ \A i \in DOMAIN buckets' :
           buckets'[i] = e \/ \E j \in DOMAIN buckets : buckets'[i] = buckets[j] /\ buckets[j].key # n
  BY <1>1, FreshBuckets
<1>3. e.key = n /\ e.value.count = 1 /\ e.value.startedAt = limitNow
  OBVIOUS
<1> HIDE DEF e
<1>4. limit \in Nat \ {0} /\ limitNow \in Nat /\ WindowMs \in Nat \ {0}
  BY LimiterConstants DEF LimitsTyped
<1>5. LimitsTyped'
  <2>1. ASSUME NEW i \in DOMAIN buckets'
        PROVE  \/ /\ buckets'[i].key = n /\ buckets'[i].value.count <= limit
                  /\ buckets'[i].value.startedAt = limitNow
               \/ \E j \in DOMAIN buckets :
                    /\ buckets'[i].key = buckets[j].key /\ buckets'[i].value.count <= limit
                    /\ buckets'[i].value.startedAt = buckets[j].value.startedAt
    <3>1. CASE buckets'[i] = e
      BY <1>3, <1>4, <3>1
    <3>2. ASSUME NEW j \in DOMAIN buckets, buckets'[i] = buckets[j]
          PROVE  /\ buckets'[i].key = buckets[j].key /\ buckets'[i].value.count <= limit
                 /\ buckets'[i].value.startedAt = buckets[j].value.startedAt
      BY <3>2, BucketRows
    <3> QED
      BY <1>2, <3>1, <3>2
  <2> QED
    BY <1>1, <1>2, <2>1, LimitsTypedNext
<1>6. ASSUME NEW client \in Clients
      PROVE  Accounted(client)'
  <2>1. SUFFICES ASSUME NEW first \in Nat, Open(first), ~ Crowded(client, first)'
                 PROVE
          /\ \A i \in DOMAIN buckets' :
               buckets'[i].key = client /\ ~ Limiter!Over(buckets'[i].value) =>
                 /\ first <= buckets'[i].value.startedAt =>
                      Cardinality(Passed(client, first)') <= limit - 1 + buckets'[i].value.count
                 /\ first > buckets'[i].value.startedAt =>
                      Cardinality(Passed(client, first)') <= buckets'[i].value.count - 1
          /\ (\A i \in DOMAIN buckets' :
                buckets'[i].key = client => Limiter!Over(buckets'[i].value)) =>
               Cardinality(Passed(client, first)') <= limit - 1
    BY DEF Accounted, Open, Limiter!Over
  <2>2. ~ Crowded(client, first)
    BY <1>1, <1>5, <2>1, OneMore, CrowdsGrow
  <2>3. limitNow \in first..(first + WindowMs - 1)
    BY <2>1, OpenWindow
  <2>4. Cardinality(Passed(client, first)) \in Nat
    BY RequestsFinite DEF Passed
  <2>5. CASE client = n
    <3>1. Cardinality(Passed(client, first)') = Cardinality(Passed(client, first)) + 1
      BY <1>1, <2>3, <2>5, OneMore DEF Passed
    <3>2. Cardinality(Passed(client, first)) <= limit - 1
      <4>1. \A i \in DOMAIN buckets : buckets[i].key = client => Limiter!Over(buckets[i].value)
        BY <1>1, <2>5, BucketOf
      <4> QED
        BY <2>1, <2>2, <4>1 DEF Accounted, Open
    <3>3. \A i \in DOMAIN buckets' : buckets'[i].key = client => buckets'[i] = e
      BY <1>2, <2>5
    <3>4. \E i \in DOMAIN buckets' : buckets'[i] = e
      <4>1. buckets' = Append(Without(buckets, Limiter!Expired \union {n} \union Limiter!MakeRoom(n)), e)
        BY <1>1, LimiterMaps DEF Limiter!Fresh, e
      <4> DEFINE w == Without(buckets, Limiter!Expired \union {n} \union Limiter!MakeRoom(n))
      <4>2. w \in MapsOf(Bucket)
        BY WithoutKeyed DEF LimitsTyped
      <4> HIDE DEF w
      <4>3. w \in Seq(Bucket) /\ Len(w) \in Nat
        BY <4>2, MapDef
      <4>4. Len(w) + 1 \in DOMAIN Append(w, e) /\ Append(w, e)[Len(w) + 1] = e
        BY <4>3
      <4> QED
        BY <4>1, <4>4 DEF w
    <3>5. ~ Limiter!Over(e.value)
      BY <1>3, <1>4 DEF Limiter!Over
    <3>6. first <= limitNow
      BY <2>1 DEF Open
    <3> QED
      BY <1>3, <1>4, <2>4, <2>5, <3>1, <3>2, <3>3, <3>4, <3>5, <3>6
  <2>6. CASE client # n
    <3>1. Passed(client, first)' = Passed(client, first)
      BY <1>1, <2>6, OneMore DEF Passed
    <3>2. ASSUME NEW i \in DOMAIN buckets', buckets'[i].key = client
          PROVE  \E j \in DOMAIN buckets : buckets'[i] = buckets[j]
      BY <1>2, <1>3, <2>6, <3>2
    <3>3. ASSUME NEW i \in DOMAIN buckets', buckets'[i].key = client,
                 ~ Limiter!Over(buckets'[i].value)
          PROVE  /\ first <= buckets'[i].value.startedAt =>
                      Cardinality(Passed(client, first)') <= limit - 1 + buckets'[i].value.count
                 /\ first > buckets'[i].value.startedAt =>
                      Cardinality(Passed(client, first)') <= buckets'[i].value.count - 1
      <4>1. PICK j \in DOMAIN buckets : buckets'[i] = buckets[j]
        BY <3>2, <3>3
      <4>2. /\ first <= buckets[j].value.startedAt =>
                 Cardinality(Passed(client, first)) <= limit - 1 + buckets[j].value.count
            /\ first > buckets[j].value.startedAt =>
                 Cardinality(Passed(client, first)) <= buckets[j].value.count - 1
        BY <2>1, <2>2, <3>3, <4>1 DEF Accounted, Open
      <4> QED
        BY <3>1, <4>1, <4>2
    <3>4. ASSUME \A i \in DOMAIN buckets' :
                   buckets'[i].key = client => Limiter!Over(buckets'[i].value)
          PROVE  Cardinality(Passed(client, first)') <= limit - 1
      <4>1. ASSUME NEW j \in DOMAIN buckets, buckets[j].key = client,
                   ~ Limiter!Over(buckets[j].value)
            PROVE  FALSE
        <5>1. \A i \in DOMAIN buckets' : buckets'[i] # buckets[j]
          BY <3>4, <4>1
        <5> QED
          BY <1>1, <1>5, <2>1, <2>6, <4>1, <5>1, PushedOutByCrowd DEF Open
      <4>2. \A j \in DOMAIN buckets : buckets[j].key = client => Limiter!Over(buckets[j].value)
        BY <4>1
      <4> QED
        BY <2>1, <2>2, <3>1, <4>2 DEF Accounted, Open
    <3> QED
      BY <3>3, <3>4
  <2> QED
    BY <2>5, <2>6
<1>7. \A client \in Clients : WithinBudget(client)'
  BY <1>1, <1>5, <1>6, LetThroughInv
<1> QED
  BY <1>5, <1>6, <1>7

(* The buckets after a request is counted in one of them.                  *)
LEMMA CountedBuckets ==
  ASSUME LimitsTyped, NEW n \in Clients, buckets' = Limiter!Counted(n)
  PROVE  /\ buckets' \in MapsOf(Bucket) /\ DOMAIN buckets' = DOMAIN buckets
         /\ \A i \in DOMAIN buckets :
              /\ buckets'[i].key = buckets[i].key
              /\ buckets'[i].value.startedAt = buckets[i].value.startedAt
              /\ buckets'[i].value.count = IF buckets[i].key = n THEN buckets[i].value.count + 1
                                                               ELSE buckets[i].value.count
<1> DEFINE m == Limiter!Counted(n)
<1>1. m = [i \in DOMAIN buckets |->
             IF buckets[i].key = n THEN [buckets[i] EXCEPT !.value.count = @ + 1] ELSE buckets[i]]
  BY DEF Limiter!Counted
<1>2. buckets \in MapsOf(Bucket) /\ DOMAIN buckets = 1..Len(buckets)
      /\ \A i \in DOMAIN buckets : buckets[i] \in Bucket
  BY MapDef DEF LimitsTyped
<1> HIDE DEF m
<1>3. ASSUME NEW i \in DOMAIN buckets
      PROVE  /\ m[i] \in Bucket /\ m[i].key = buckets[i].key
             /\ m[i].value.startedAt = buckets[i].value.startedAt
             /\ m[i].value.count = IF buckets[i].key = n THEN buckets[i].value.count + 1
                                                      ELSE buckets[i].value.count
  <2>1. buckets[i] \in Bucket
    BY <1>2
  <2>2. CASE buckets[i].key = n
    <3>1. m[i] = [buckets[i] EXCEPT !.value.count = @ + 1]
      BY <1>1, <2>2
    <3> QED
      BY <2>1, <2>2, <3>1 DEF Bucket
  <2>3. CASE buckets[i].key # n
    BY <1>1, <2>1, <2>3
  <2> QED
    BY <2>2, <2>3
<1>4. m \in MapsOf(Bucket) /\ DOMAIN m = DOMAIN buckets
  <2>1. m = [i \in DOMAIN buckets |-> m[i]]
    BY <1>1
  <2> QED
    BY <1>2, <1>3, <2>1, ChangedInPlace
<1>5. buckets' = m
  BY DEF m
<1> QED
  BY <1>3, <1>4, <1>5

LEMMA NextOfWindowInv ==
  ASSUME Limiter!RateLimitsAssumption, LimitsInv, NEW n \in Clients,
         Limiter!NextOfWindow(n), UNCHANGED <<limit, limitNow>>
  PROVE  LimitsInv'
<1> USE DEF LimitsInv
<1>1. /\ Limiter!HasBucket(n) /\ Limiter!Get(buckets, n).count < limit
      /\ buckets' = Limiter!Counted(n)
      /\ log' = Append(log, [client |-> n, at |-> limitNow])
  BY DEF Limiter!NextOfWindow, Limiter!LetThrough
<1>2. PICK k \in DOMAIN buckets : /\ buckets[k].key = n /\ ~ Limiter!Over(buckets[k].value)
                                  /\ buckets[k].value.count < limit
  BY <1>1, BucketOf
<1>3. \A i \in DOMAIN buckets : buckets[i].key = n => i = k
  <2>1. /\ DOMAIN buckets = 1..Len(buckets)
        /\ \A i, j \in 1..Len(buckets) : buckets[i].key = buckets[j].key => i = j
    BY MapDef DEF LimitsTyped
  <2> QED
    BY <1>2, <2>1
<1>4. /\ buckets' \in MapsOf(Bucket) /\ DOMAIN buckets' = DOMAIN buckets
      /\ \A i \in DOMAIN buckets :
           /\ buckets'[i].key = buckets[i].key
           /\ buckets'[i].value.startedAt = buckets[i].value.startedAt
           /\ buckets'[i].value.count = IF buckets[i].key = n THEN buckets[i].value.count + 1
                                                            ELSE buckets[i].value.count
  BY <1>1, CountedBuckets
<1>5. limit \in Nat \ {0} /\ limitNow \in Nat /\ WindowMs \in Nat \ {0}
  BY LimiterConstants DEF LimitsTyped
<1>6. LimitsTyped'
  <2>1. ASSUME NEW i \in DOMAIN buckets
        PROVE  buckets'[i].value.count <= limit
    <3>1. buckets[i].value.count \in Nat /\ buckets[i].value.count <= limit
      BY BucketRows
    <3> QED
      BY <1>2, <1>3, <1>4, <1>5, <3>1
  <2> QED
    BY <1>1, <1>4, <2>1, LimitsTypedNext
<1>7. ASSUME NEW client \in Clients
      PROVE  Accounted(client)'
  <2>1. SUFFICES ASSUME NEW first \in Nat, Open(first), ~ Crowded(client, first)'
                 PROVE
          /\ \A i \in DOMAIN buckets' :
               buckets'[i].key = client /\ ~ Limiter!Over(buckets'[i].value) =>
                 /\ first <= buckets'[i].value.startedAt =>
                      Cardinality(Passed(client, first)') <= limit - 1 + buckets'[i].value.count
                 /\ first > buckets'[i].value.startedAt =>
                      Cardinality(Passed(client, first)') <= buckets'[i].value.count - 1
          /\ (\A i \in DOMAIN buckets' :
                buckets'[i].key = client => Limiter!Over(buckets'[i].value)) =>
               Cardinality(Passed(client, first)') <= limit - 1
    BY DEF Accounted, Open, Limiter!Over
  <2>2. ~ Crowded(client, first)
    BY <1>1, <1>6, <2>1, OneMore, CrowdsGrow
  <2>3. limitNow \in first..(first + WindowMs - 1)
    BY <2>1, OpenWindow
  <2>4. Cardinality(Passed(client, first)) \in Nat
    BY RequestsFinite DEF Passed
  <2>5. \A i \in DOMAIN buckets :
          Limiter!Over(buckets'[i].value) <=> Limiter!Over(buckets[i].value)
    BY <1>4 DEF Limiter!Over
  <2>6. ASSUME NEW i \in DOMAIN buckets, buckets[i].key = client,
               ~ Limiter!Over(buckets[i].value)
        PROVE  /\ first <= buckets[i].value.startedAt =>
                    Cardinality(Passed(client, first)) <= limit - 1 + buckets[i].value.count
               /\ first > buckets[i].value.startedAt =>
                    Cardinality(Passed(client, first)) <= buckets[i].value.count - 1
    BY <2>1, <2>2, <2>6 DEF Accounted, Open
  <2>7. CASE client = n
    <3>1. Cardinality(Passed(client, first)') = Cardinality(Passed(client, first)) + 1
      BY <1>1, <2>3, <2>7, OneMore DEF Passed
    <3>2. /\ buckets'[k].value.count = buckets[k].value.count + 1
          /\ buckets'[k].value.startedAt = buckets[k].value.startedAt
          /\ buckets'[k].key = client /\ ~ Limiter!Over(buckets'[k].value)
      BY <1>2, <1>4, <2>5, <2>7
    <3>3. \A i \in DOMAIN buckets' : buckets'[i].key = client => i = k
      BY <1>3, <1>4, <2>7
    <3>4. buckets[k].value.count \in Nat /\ buckets[k].value.startedAt \in Nat
      BY BucketRows
    <3>5. /\ first <= buckets[k].value.startedAt =>
               Cardinality(Passed(client, first)) <= limit - 1 + buckets[k].value.count
          /\ first > buckets[k].value.startedAt =>
               Cardinality(Passed(client, first)) <= buckets[k].value.count - 1
      BY <1>2, <2>6, <2>7
    <3>6. /\ first <= buckets'[k].value.startedAt =>
               Cardinality(Passed(client, first)') <= limit - 1 + buckets'[k].value.count
          /\ first > buckets'[k].value.startedAt =>
               Cardinality(Passed(client, first)') <= buckets'[k].value.count - 1
      BY <1>5, <2>4, <3>1, <3>2, <3>4, <3>5
    <3>7. k \in DOMAIN buckets'
      BY <1>4
    <3> QED
      BY <3>2, <3>3, <3>6, <3>7
  <2>8. CASE client # n
    <3>1. Passed(client, first)' = Passed(client, first)
      BY <1>1, <2>8, OneMore DEF Passed
    <3>2. \A i \in DOMAIN buckets : buckets'[i].key = client =>
            buckets[i].key = client /\ buckets'[i].value.count = buckets[i].value.count
      BY <1>4, <2>8
    <3>3. \A i \in DOMAIN buckets' :
            buckets'[i].key = client /\ ~ Limiter!Over(buckets'[i].value) =>
              /\ first <= buckets'[i].value.startedAt =>
                   Cardinality(Passed(client, first)') <= limit - 1 + buckets'[i].value.count
              /\ first > buckets'[i].value.startedAt =>
                   Cardinality(Passed(client, first)') <= buckets'[i].value.count - 1
      BY <1>4, <2>5, <2>6, <3>1, <3>2
    <3>4. ASSUME \A i \in DOMAIN buckets' :
                   buckets'[i].key = client => Limiter!Over(buckets'[i].value)
          PROVE  Cardinality(Passed(client, first)') <= limit - 1
      <4>1. \A i \in DOMAIN buckets : buckets[i].key = client => Limiter!Over(buckets[i].value)
        BY <1>4, <2>5, <3>4
      <4> QED
        BY <2>1, <2>2, <3>1, <4>1 DEF Accounted, Open
    <3> QED
      BY <3>3, <3>4
  <2> QED
    BY <2>7, <2>8
<1>8. \A client \in Clients : WithinBudget(client)'
  BY <1>1, <1>6, <1>7, LetThroughInv
<1> QED
  BY <1>6, <1>7, <1>8

(* Time passes: windows end, and one starts with no request in it.         *)
LEMMA LimiterTickInv ==
  ASSUME Limiter!RateLimitsAssumption, LimitsInv, Limiter!Tick
  PROVE  LimitsInv'
<1> USE DEF LimitsInv
<1>1. limitNow' = limitNow + 1 /\ UNCHANGED <<limit, buckets, log>>
  BY DEF Limiter!Tick
<1>2. limit \in Nat \ {0} /\ limitNow \in Nat /\ WindowMs \in Nat \ {0}
  BY LimiterConstants DEF LimitsTyped
<1>3. LimitsTyped'
  <2>1. \A j \in 1..Len(log) : log[j].at <= limitNow + 1
    BY <1>2, LogRows DEF LimitsTyped
  <2>2. \A i \in DOMAIN buckets : buckets[i].value.startedAt <= limitNow + 1
    BY <1>2, BucketRows
  <2> QED
    BY <1>1, <1>2, <2>1, <2>2 DEF LimitsTyped
<1>4. \A client, first : /\ Passed(client, first)' = Passed(client, first)
                         /\ Crowded(client, first)' <=> Crowded(client, first)
  BY <1>1 DEF Passed, Limiter!RequestsIn, Crowded, Around
<1>5. ASSUME NEW client
      PROVE  Cardinality(Passed(client, limitNow + 1)) = 0
  <2>1. Passed(client, limitNow + 1) = {}
    <3>1. \A j \in DOMAIN log : log[j].at \in Nat /\ log[j].at <= limitNow
      BY LogRows DEF LimitsTyped
    <3> QED
      BY <1>2, <3>1 DEF Passed, Limiter!RequestsIn
  <2> QED
    BY <2>1, FS_EmptySet
<1>6. ASSUME NEW client \in Clients
      PROVE  Accounted(client)'
  <2>1. SUFFICES ASSUME NEW first \in Nat, first <= limitNow + 1, limitNow + 1 < first + WindowMs,
                        ~ Crowded(client, first)
                 PROVE
          /\ \A i \in DOMAIN buckets :
               buckets[i].key = client /\ ~ Limiter!Over(buckets[i].value)' =>
                 /\ first <= buckets[i].value.startedAt =>
                      Cardinality(Passed(client, first)) <= limit - 1 + buckets[i].value.count
                 /\ first > buckets[i].value.startedAt =>
                      Cardinality(Passed(client, first)) <= buckets[i].value.count - 1
          /\ (\A i \in DOMAIN buckets :
                buckets[i].key = client => Limiter!Over(buckets[i].value)') =>
               Cardinality(Passed(client, first)) <= limit - 1
    BY <1>1, <1>4 DEF Accounted
  <2>2. ASSUME NEW i \in DOMAIN buckets
        PROVE  /\ buckets[i].value.count \in Nat \ {0} /\ buckets[i].value.startedAt \in Nat
               /\ buckets[i].value.count <= limit
               /\ Limiter!Over(buckets[i].value)' <=>
                    (limitNow + 1) - buckets[i].value.startedAt >= WindowMs
    <3>1. Limiter!Over(buckets[i].value)' <=>
            (limitNow + 1) - buckets[i].value.startedAt >= WindowMs
      BY <1>1 DEF Limiter!Over
    <3> QED
      BY <3>1, BucketRows
  <2>3. CASE first = limitNow + 1
    <3>1. Cardinality(Passed(client, first)) = 0
      BY <1>5, <2>3
    <3> QED
      BY <1>2, <2>2, <3>1
  <2>4. CASE first # limitNow + 1
    <3>1. first <= limitNow /\ limitNow < first + WindowMs
      BY <1>2, <2>1, <2>4
    <3>2. Cardinality(Passed(client, first)) \in Nat
      BY RequestsFinite DEF Passed
    <3>3. ASSUME NEW i \in DOMAIN buckets, buckets[i].key = client,
                 ~ Limiter!Over(buckets[i].value)
          PROVE  /\ first <= buckets[i].value.startedAt =>
                      Cardinality(Passed(client, first)) <= limit - 1 + buckets[i].value.count
                 /\ first > buckets[i].value.startedAt =>
                      Cardinality(Passed(client, first)) <= buckets[i].value.count - 1
      BY <2>1, <3>1, <3>3 DEF Accounted
    <3>4. \A i \in DOMAIN buckets :
            Limiter!Over(buckets[i].value) <=> limitNow - buckets[i].value.startedAt >= WindowMs
      BY DEF Limiter!Over
    <3>5. ASSUME NEW i \in DOMAIN buckets, buckets[i].key = client,
                 ~ Limiter!Over(buckets[i].value)'
          PROVE  ~ Limiter!Over(buckets[i].value)
      BY <1>2, <2>2, <3>4, <3>5
    <3>6. ASSUME \A i \in DOMAIN buckets :
                   buckets[i].key = client => Limiter!Over(buckets[i].value)'
          PROVE  Cardinality(Passed(client, first)) <= limit - 1
      <4>1. CASE \A i \in DOMAIN buckets :
                   buckets[i].key = client => Limiter!Over(buckets[i].value)
        BY <2>1, <3>1, <4>1 DEF Accounted
      <4>2. ASSUME NEW i \in DOMAIN buckets, buckets[i].key = client,
                   ~ Limiter!Over(buckets[i].value)
            PROVE  Cardinality(Passed(client, first)) <= limit - 1
        <5>1. (limitNow + 1) - buckets[i].value.startedAt >= WindowMs
          BY <2>2, <3>6, <4>2
        <5>2. buckets[i].value.startedAt \in Nat /\ buckets[i].value.count \in Nat
              /\ buckets[i].value.count <= limit
          BY <2>2
        <5>3. first > buckets[i].value.startedAt
          BY <1>2, <2>1, <5>1, <5>2
        <5>4. Cardinality(Passed(client, first)) <= buckets[i].value.count - 1
          BY <3>3, <4>2, <5>3
        <5> QED
          BY <1>2, <3>2, <5>2, <5>4
      <4> QED
        BY <4>1, <4>2
    <3> QED
      BY <3>3, <3>5, <3>6
  <2> QED
    BY <2>3, <2>4
<1>7. ASSUME NEW client \in Clients
      PROVE  WithinBudget(client)'
  <2>1. ASSUME NEW first \in Nat, first <= limitNow + 1, ~ Crowded(client, first)
        PROVE  Cardinality(Passed(client, first)) < 2 * limit
    <3>1. CASE first = limitNow + 1
      BY <1>2, <1>5, <3>1
    <3>2. CASE first # limitNow + 1
      BY <1>2, <2>1, <3>2 DEF WithinBudget
    <3> QED
      BY <3>1, <3>2
  <2> QED
    BY <1>1, <1>4, <2>1 DEF WithinBudget
<1> QED
  BY <1>3, <1>6, <1>7

LEMMA LimitsUnchanged ==
  ASSUME LimitsInv, UNCHANGED <<limit, limitNow, buckets, log>>
  PROVE  LimitsInv'
<1>1. \A client, first : /\ Passed(client, first)' = Passed(client, first)
                         /\ Crowded(client, first)' <=> Crowded(client, first)
  BY DEF Passed, Limiter!RequestsIn, Crowded, Around
<1>2. LimitsTyped'
  BY DEF LimitsInv, LimitsTyped
<1>3. \A client \in Clients : Accounted(client)' /\ WithinBudget(client)'
  BY <1>1 DEF LimitsInv, Accounted, WithinBudget, Limiter!Over
<1> QED
  BY <1>2, <1>3 DEF LimitsInv

LEMMA LimitsInit ==
  ASSUME Limiter!RateLimitsAssumption
  PROVE  Limiter!Init => LimitsInv
<1> SUFFICES ASSUME Limiter!Init PROVE LimitsInv
  OBVIOUS
<1>1. limit \in Nat \ {0}
  BY LimiterConstants DEF Limiter!Init, Limiter!EnvPositiveInteger, Limiter!RateLimitsAssumption
<1>2. limitNow = 0 /\ buckets = <<>> /\ log = <<>>
  BY DEF Limiter!Init
<1>3. LimitsTyped
  BY <1>1, <1>2 DEF LimitsTyped, MapsOf
<1>4. ASSUME NEW client, NEW first
      PROVE  Cardinality(Passed(client, first)) = 0
  <2>1. Passed(client, first) = {}
    BY <1>2 DEF Passed, Limiter!RequestsIn
  <2> QED
    BY <2>1, FS_EmptySet
<1>5. \A client \in Clients : Accounted(client) /\ WithinBudget(client)
  BY <1>1, <1>2, <1>4 DEF Accounted, WithinBudget
<1> QED
  BY <1>3, <1>5 DEF LimitsInv

LEMMA LimitsStep ==
  ASSUME Limiter!RateLimitsAssumption, LimitsInv, [Limiter!Next]_(Limiter!vars)
  PROVE  LimitsInv'
<1>1. CASE Limiter!Tick
  BY <1>1, LimiterTickInv
<1>2. ASSUME NEW n \in Clients, Limiter!Consume(n)
      PROVE  LimitsInv'
  <2>1. UNCHANGED <<limit, limitNow>>
    BY <1>2 DEF Limiter!Consume
  <2>2. CASE Limiter!FirstOfWindow(n)
    BY <2>1, <2>2, FirstOfWindowInv
  <2>3. CASE Limiter!NextOfWindow(n)
    BY <2>1, <2>3, NextOfWindowInv
  <2>4. CASE Limiter!Refuse(n)
    BY <2>1, <2>4, LimitsUnchanged DEF Limiter!Refuse
  <2> QED
    BY <1>2, <2>2, <2>3, <2>4 DEF Limiter!Consume
<1>3. CASE UNCHANGED Limiter!vars
  BY <1>3, LimitsUnchanged DEF Limiter!vars
<1> QED
  BY <1>1, <1>2, <1>3 DEF Limiter!Next

(* No client passes the limiter twice its limit in the span of a window    *)
(* unless as many others as it tracks came around that time                *)
(* (securityLimits.ts:25): for any clients, limits and window.             *)
THEOREM OverBudgetNeedsCrowdCorrect ==
  ASSUME Limiter!RateLimitsAssumption
  PROVE  Limiter!Spec => []OverBudgetNeedsCrowd
<1>1. LimitsInv => Limiter!OverBudgetNeedsCrowd
  <2> SUFFICES ASSUME LimitsInv, NEW client \in Clients, NEW first \in 0..limitNow,
                      Cardinality(Passed(client, first)) >= 2 * limit
               PROVE  Crowded(client, first)
    BY LimiterCardinality DEF Limiter!OverBudgetNeedsCrowd, Passed, Crowded, Around
  <2>1. first \in Nat /\ first <= limitNow
    BY DEF LimitsInv, LimitsTyped
  <2>2. Cardinality(Passed(client, first)) \in Nat /\ limit \in Nat
    BY RequestsFinite DEF LimitsInv, LimitsTyped, Passed
  <2> QED
    BY <2>1, <2>2 DEF LimitsInv, WithinBudget
<1>2. Limiter!Init => LimitsInv
  BY LimitsInit
<1>3. LimitsInv /\ [Limiter!Next]_(Limiter!vars) => LimitsInv'
  BY LimitsStep
<1> QED
  BY <1>1, <1>2, <1>3, PTL DEF Limiter!Spec, OverBudgetNeedsCrowd
=============================================================================
