--------------------------- MODULE Storage_proofs ---------------------------
(***************************************************************************)
(* What the components that keep something guarantee, for any processes,   *)
(* builds, workers and failures: the schema of the database, the artifacts *)
(* that operators sign, and the files under the maintenance scripts.       *)
(***************************************************************************)
EXTENDS MCStorage, FiniteSetTheorems, Sequences, WellFoundedInduction, TLAPS

Schemas == [log : BOOLEAN, applied : SUBSET Nat, tables : SUBSET Nat, policies : SUBSET [id : PolicyIds, revision : Nat]]

Shape ==
  /\ pc \in [Processes -> {"down", "log", "read", "begin", "body", "record", "open"}]
  /\ at \in [Processes -> Nat]
  /\ db \in Schemas /\ work \in Schemas
  /\ writer \in Processes \cup {None}
  /\ \A p \in Processes : writer = p <=> pc[p] \in {"body", "record"}

Prefix(d) == \E n \in Nat : d.applied = 1 .. n /\ d.tables = 1 .. n

(* The migration in hand is at most one above what is committed.            *)
AtMostNext(p) ==
  pc[p] \in {"begin", "body", "record"} =>
    at[p] > 0 /\ at[p] <= Supported[p] /\ 1 .. (at[p] - 1) \subseteq db.applied

(* What the writer would commit.                                            *)
Uncommitted(p) ==
  /\ pc[p] \in {"body", "record"} => work.applied = db.applied /\ db.policies \subseteq work.policies
  /\ pc[p] = "body" => work.tables = db.tables
  /\ pc[p] = "record" => at[p] \notin db.tables /\ work.tables = db.tables \cup {at[p]}

IInv ==
  /\ Shape /\ Prefix(db)
  /\ \A p \in Processes : AtMostNext(p) /\ Uncommitted(p)
  /\ OpenHasItsTables

LEMMA LatestOfInterval == ASSUME NEW n \in Nat PROVE Latest(1 .. n) = n
<1>1. CASE n = 0
  <2>1. 1 .. n = {}
    BY <1>1
  <2> QED
    BY <1>1, <2>1 DEF Latest
<1>2. CASE n > 0
  <2>1. n \in 1 .. n /\ \A y \in 1 .. n : n >= y
    BY <1>2
  <2>2. \A x \in 1 .. n : (\A y \in 1 .. n : x >= y) => x = n
    BY <1>2
  <2>3. Max(1 .. n) = n
    BY <2>1, <2>2 DEF Max
  <2> QED
    BY <2>1, <2>3 DEF Latest
<1> QED
  BY <1>1, <1>2

LEMMA InitIInv == Init => IInv
<1> SUFFICES ASSUME Init PROVE IInv
  OBVIOUS
<1>1. PICK v \in Nat, rows \in SUBSET [id : PolicyIds, revision : Nat] : db = Fresh(v, rows)
  <2>1. CASE \E v \in Created : db = Fresh(v, {})
    BY <2>1, SchemaAssumption
  <2>2. CASE \E v \in Created \ {0}, i \in PolicyIds : db = Fresh(v, {[id |-> i, revision |-> 1]})
    BY <2>2, SchemaAssumption
  <2> QED
    BY <2>1, <2>2 DEF Init
<1>2. db \in Schemas /\ db.applied = 1 .. v /\ db.tables = 1 .. v
  <2>1. 1 .. v \in SUBSET Nat /\ (v > 0) \in BOOLEAN
    OBVIOUS
  <2> QED
    BY <1>1, <2>1 DEF Fresh, Schemas
<1>3. Shape
  BY <1>2, SchemaAssumption DEF Init, Shape
<1>4. Prefix(db)
  BY <1>2 DEF Prefix
<1> QED
  BY <1>3, <1>4 DEF Init, IInv, AtMostNext, Uncommitted, OpenHasItsTables, Shape

(* A process that ends, for whatever reason, leaves what was committed.     *)
LEMMA EndsIInv == ASSUME IInv, NEW p \in Processes, Ends(p) PROVE IInv'
<1>1. Shape'
  <2>1. work' \in Schemas /\ db' \in Schemas
    BY DEF Ends, IInv, Shape
  <2>2. pc' = [pc EXCEPT ![p] = "down"] /\ at' = at
    BY DEF Ends
  <2>3. writer' = IF writer = p THEN None ELSE writer
    BY DEF Ends
  <2> QED
    BY <2>1, <2>2, <2>3, SchemaAssumption DEF IInv, Shape
<1>2. Prefix(db)'
  BY DEF Ends, IInv, Prefix
<1>3. ASSUME NEW q \in Processes PROVE (AtMostNext(q) /\ Uncommitted(q))'
  <2>1. CASE q = p
    BY <2>1 DEF Ends, IInv, Shape, AtMostNext, Uncommitted
  <2>2. CASE q # p
    <3>1. pc'[q] = pc[q] /\ at'[q] = at[q] /\ db' = db
      BY <2>2 DEF Ends, IInv, Shape
    <3>2. pc[q] \in {"body", "record"} => work' = work
      BY <2>2 DEF Ends, IInv, Shape
    <3> QED
      BY <3>1, <3>2 DEF IInv, AtMostNext, Uncommitted
  <2> QED
    BY <2>1, <2>2
<1>4. OpenHasItsTables'
  BY DEF Ends, IInv, Shape, OpenHasItsTables
<1> QED
  BY <1>1, <1>2, <1>3, <1>4 DEF IInv

(* What Record(p) commits is the next migration and nothing else.           *)
LEMMA RecordCommits ==
  ASSUME IInv, NEW p \in Processes, Record(p)
  PROVE  \E n \in Nat :
           /\ db.applied = 1 .. n /\ at[p] = n + 1 /\ at[p] <= Supported[p]
           /\ db'.applied = 1 .. at[p] /\ db'.tables = 1 .. at[p]
           /\ db' \in Schemas /\ db.policies \subseteq db'.policies
<1>1. PICK n \in Nat : db.applied = 1 .. n /\ db.tables = 1 .. n
  BY DEF IInv, Prefix
<1>2. /\ pc[p] = "record" /\ at[p] \in Nat /\ at[p] > 0 /\ at[p] <= Supported[p]
      /\ at[p] \notin 1 .. n /\ 1 .. (at[p] - 1) \subseteq 1 .. n
  BY <1>1 DEF Record, IInv, Shape, AtMostNext, Uncommitted
<1>3. at[p] = n + 1
  <2>1. at[p] >= n + 1
    BY <1>2
  <2>2. at[p] - 1 <= n
    <3>1. CASE at[p] = 1
      BY <3>1
    <3>2. CASE at[p] > 1
      <4>1. at[p] - 1 \in 1 .. (at[p] - 1)
        BY <1>2, <3>2
      <4> QED
        BY <1>2, <4>1
    <3> QED
      BY <1>2, <3>1, <3>2
  <2> QED
    BY <1>2, <2>1, <2>2
<1>4. /\ work \in Schemas /\ work.applied = 1 .. n /\ work.tables = 1 .. n \cup {at[p]}
      /\ db.policies \subseteq work.policies
  BY <1>1, <1>2 DEF IInv, Shape, Uncommitted
<1>5. db' = [work EXCEPT !.applied = 1 .. n \cup {at[p]}]
  BY <1>4 DEF Record
<1>6. 1 .. n \cup {at[p]} = 1 .. at[p] /\ 1 .. at[p] \in SUBSET Nat
  BY <1>2, <1>3
<1>7. /\ db'.applied = 1 .. at[p] /\ db'.tables = 1 .. at[p] /\ db' \in Schemas
      /\ db'.policies = work.policies
  BY <1>4, <1>5, <1>6 DEF Schemas
<1> QED
  BY <1>1, <1>2, <1>3, <1>4, <1>7

(* Other processes, when the writer commits or somebody saves a policy.     *)
LEMMA OthersKeep ==
  ASSUME IInv, NEW q \in Processes, pc'[q] = pc[q], at'[q] = at[q],
         db.applied \subseteq db'.applied, pc[q] \notin {"body", "record"}
  PROVE  (AtMostNext(q) /\ Uncommitted(q))'
BY DEF IInv, AtMostNext, Uncommitted

LEMMA GoesOnWell ==
  ASSUME NEW p \in Processes, NEW v \in Nat, GoesOn(p, v), Shape,
         v <= Supported[p], db'.applied = 1 .. v, db'.tables = 1 .. v
  PROVE  /\ pc' = [pc EXCEPT ![p] = pc'[p]] /\ pc'[p] \in {"begin", "open"}
         /\ at' = [at EXCEPT ![p] = at'[p]] /\ at'[p] \in Nat
         /\ AtMostNext(p)' /\ Uncommitted(p)'
         /\ pc'[p] = "open" => 1 .. Supported[p] \subseteq db'.tables
<1>1. CASE v < Supported[p]
  <2>1. /\ pc' = [pc EXCEPT ![p] = "begin"] /\ at' = [at EXCEPT ![p] = v + 1]
    BY <1>1 DEF GoesOn
  <2>2. pc'[p] = "begin" /\ at'[p] = v + 1
    BY <2>1 DEF Shape
  <2>3. at'[p] - 1 = v /\ at'[p] > 0 /\ at'[p] <= Supported[p] /\ at'[p] \in Nat
    BY <1>1, <2>2, SchemaAssumption
  <2>4. AtMostNext(p)'
    BY <2>2, <2>3 DEF AtMostNext
  <2>5. Uncommitted(p)'
    BY <2>2 DEF Uncommitted
  <2> QED
    BY <2>1, <2>2, <2>3, <2>4, <2>5
<1>2. CASE ~(v < Supported[p])
  <2>1. /\ pc' = [pc EXCEPT ![p] = "open"] /\ at' = [at EXCEPT ![p] = v]
    BY <1>2 DEF GoesOn
  <2>2. pc'[p] = "open" /\ at'[p] = v
    BY <2>1 DEF Shape
  <2>3. v = Supported[p]
    BY <1>2, SchemaAssumption
  <2> QED
    BY <2>1, <2>2, <2>3 DEF AtMostNext, Uncommitted
<1> QED
  BY <1>1, <1>2

LEMMA ReadIInv == ASSUME IInv, NEW p \in Processes, Read(p) PROVE IInv'
<1>1. PICK n \in Nat : db.applied = 1 .. n /\ db.tables = 1 .. n
  BY DEF IInv, Prefix
<1>2. n <= Supported[p] /\ GoesOn(p, n)
  BY <1>1, LatestOfInterval DEF Read
<1>3. pc[p] = "read" /\ UNCHANGED <<db, writer, work>>
  BY DEF Read, lock
<1>4. Shape
  BY DEF IInv
<1>5. /\ pc' = [pc EXCEPT ![p] = pc'[p]] /\ pc'[p] \in {"begin", "open"}
      /\ at' = [at EXCEPT ![p] = at'[p]] /\ at'[p] \in Nat
      /\ AtMostNext(p)' /\ Uncommitted(p)'
      /\ pc'[p] = "open" => 1 .. Supported[p] \subseteq db'.tables
  BY <1>1, <1>2, <1>3, <1>4, GoesOnWell
<1>6. Shape'
  BY <1>3, <1>4, <1>5 DEF Shape
<1>7. ASSUME NEW q \in Processes PROVE (AtMostNext(q) /\ Uncommitted(q))'
  <2>1. CASE q # p
    <3>1. pc'[q] = pc[q] /\ at'[q] = at[q]
      BY <1>4, <1>5, <2>1 DEF Shape
    <3> QED
      BY <1>3, <3>1 DEF IInv, AtMostNext, Uncommitted
  <2> QED
    BY <1>5, <2>1
<1>8. OpenHasItsTables'
  BY <1>3, <1>4, <1>5 DEF OpenHasItsTables, Shape, IInv
<1> QED
  BY <1>3, <1>6, <1>7, <1>8 DEF IInv, Prefix

LEMMA BodyIInv == ASSUME IInv, NEW p \in Processes, Body(p) PROVE IInv'
<1>1. /\ pc[p] = "body" /\ at[p] \notin work.tables /\ at[p] \in Nat
      /\ work.applied = db.applied /\ work.tables = db.tables /\ db.policies \subseteq work.policies
      /\ work \in Schemas /\ UNCHANGED <<at, db, writer>>
      /\ pc' = [pc EXCEPT ![p] = "record"]
  BY DEF Body, IInv, Shape, Uncommitted
<1>2. work' = [work EXCEPT !.tables = work.tables \cup {at[p]}, !.policies = work.policies]
  BY DEF Body, MigratedRows
<1>3. /\ work' \in Schemas /\ work'.applied = db.applied
      /\ work'.tables = db.tables \cup {at[p]} /\ db.policies \subseteq work'.policies
  BY <1>1, <1>2 DEF Schemas
<1>4. Shape'
  BY <1>1, <1>3 DEF IInv, Shape
<1>5. ASSUME NEW q \in Processes PROVE (AtMostNext(q) /\ Uncommitted(q))'
  <2>1. CASE q = p
    <3>1. pc'[p] = "record" /\ at'[p] = at[p] /\ db' = db
      BY <1>1 DEF IInv, Shape
    <3> QED
      BY <1>1, <1>3, <2>1, <3>1 DEF IInv, AtMostNext, Uncommitted
  <2>2. CASE q # p
    <3>1. pc'[q] = pc[q] /\ pc[q] \notin {"body", "record"}
      BY <1>1, <2>2, SchemaAssumption DEF IInv, Shape
    <3> QED
      BY <1>1, <3>1 DEF IInv, AtMostNext, Uncommitted
  <2> QED
    BY <2>1, <2>2
<1>6. OpenHasItsTables'
  BY <1>1 DEF IInv, Shape, OpenHasItsTables
<1> QED
  BY <1>1, <1>4, <1>5, <1>6 DEF IInv, Prefix

LEMMA RecordIInv == ASSUME IInv, NEW p \in Processes, Record(p) PROVE IInv'
<1>1. PICK n \in Nat :
        /\ db.applied = 1 .. n /\ at[p] = n + 1 /\ at[p] <= Supported[p]
        /\ db'.applied = 1 .. at[p] /\ db'.tables = 1 .. at[p] /\ db' \in Schemas
  BY RecordCommits
<1>2. pc[p] = "record" /\ writer' = None /\ work' = db' /\ GoesOn(p, at[p])
  BY DEF Record
<1>3. Shape
  BY DEF IInv
<1>4. at[p] \in Nat
  BY <1>1
<1>5. /\ pc' = [pc EXCEPT ![p] = pc'[p]] /\ pc'[p] \in {"begin", "open"}
      /\ at' = [at EXCEPT ![p] = at'[p]] /\ at'[p] \in Nat
      /\ AtMostNext(p)' /\ Uncommitted(p)'
      /\ pc'[p] = "open" => 1 .. Supported[p] \subseteq db'.tables
  BY <1>1, <1>2, <1>3, <1>4, GoesOnWell
<1>6. ASSUME NEW q \in Processes, q # p
      PROVE  pc'[q] = pc[q] /\ at'[q] = at[q] /\ pc[q] \notin {"body", "record"}
  BY <1>2, <1>3, <1>5, <1>6, SchemaAssumption DEF Shape
<1>7. Shape'
  <2>1. ASSUME NEW q \in Processes PROVE writer' = q <=> pc'[q] \in {"body", "record"}
    BY <1>2, <1>5, <1>6, SchemaAssumption
  <2> QED
    BY <1>1, <1>2, <1>3, <1>5, <2>1 DEF Shape
<1>8. 1 .. n \subseteq 1 .. at[p] /\ db.tables = 1 .. n
  <2>1. db.tables = 1 .. n
    <3>1. PICK m \in Nat : db.applied = 1 .. m /\ db.tables = 1 .. m
      BY DEF IInv, Prefix
    <3> QED
      BY <1>1, <3>1
  <2> QED
    BY <1>1, <2>1
<1>9. ASSUME NEW q \in Processes PROVE (AtMostNext(q) /\ Uncommitted(q))'
  <2>1. CASE q # p
    BY <1>1, <1>6, <1>8, <2>1, OthersKeep
  <2> QED
    BY <1>5, <2>1
<1>10. OpenHasItsTables'
  <2>1. ASSUME NEW q \in Processes, q # p, pc'[q] = "open" PROVE 1 .. Supported[q] \subseteq db'.tables
    <3>1. 1 .. Supported[q] \subseteq db.tables
      BY <1>6, <2>1 DEF IInv, OpenHasItsTables
    <3> QED
      BY <1>1, <1>8, <3>1
  <2> QED
    BY <1>5, <2>1 DEF OpenHasItsTables
<1>11. Prefix(db)'
  BY <1>1, <1>4 DEF Prefix
<1> QED
  BY <1>7, <1>9, <1>10, <1>11 DEF IInv

LEMMA SavePolicyIInv ==
  ASSUME IInv, NEW p \in Processes, NEW i \in PolicyIds, SavePolicy(p, i)
  PROVE  IInv' /\ db.policies \subseteq db'.policies
<1> DEFINE row == [id |-> i, revision |-> 1 + Latest({r.revision : r \in db.policies})]
<1>1. /\ writer = None /\ UNCHANGED <<pc, at, writer, work>> /\ row.revision \in Nat
      /\ db' = [db EXCEPT !.policies = db.policies \cup {row}]
  BY DEF SavePolicy, process, lock
<1> HIDE DEF row
<1>2. row \in [id : PolicyIds, revision : Nat]
  BY <1>1 DEF row
<1>3. /\ db' \in Schemas /\ db'.applied = db.applied /\ db'.tables = db.tables
      /\ db.policies \subseteq db'.policies
  BY <1>1, <1>2 DEF IInv, Shape, Schemas
<1>4. Shape'
  BY <1>1, <1>3 DEF IInv, Shape
<1>5. ASSUME NEW q \in Processes PROVE (AtMostNext(q) /\ Uncommitted(q))'
  <2>1. pc[q] \notin {"body", "record"}
    BY <1>1, SchemaAssumption DEF IInv, Shape
  <2> QED
    BY <1>1, <1>3, <2>1, OthersKeep
<1> QED
  BY <1>1, <1>3, <1>4, <1>5 DEF IInv, Prefix, OpenHasItsTables

(* The steps that only move one process, and touch neither rows nor tables. *)
LEMMA MovesIInv ==
  ASSUME IInv, NEW p \in Processes, Start(p) \/ CreateLog(p) \/ Begin(p)
  PROVE  IInv' /\ UNCHANGED <<db.applied, db.tables, db.policies>>
<1>1. /\ UNCHANGED <<at, db.applied, db.tables, db.policies>> /\ db' \in Schemas
      /\ CreateLog(p) \/ db' = db
  BY DEF Start, CreateLog, Begin, IInv, Shape, Schemas
<1>2. CASE Begin(p)
  <2>1. /\ writer = None /\ writer' = p /\ work' = db /\ db' = db /\ pc[p] = "begin"
        /\ pc' = [pc EXCEPT ![p] = "body"]
    BY <1>2 DEF Begin
  <2>2. \A q \in Processes : pc[q] \notin {"body", "record"}
    BY <2>1, SchemaAssumption DEF IInv, Shape
  <2>3. pc'[p] = "body" /\ \A q \in Processes : q # p => pc'[q] = pc[q]
    BY <2>1 DEF IInv, Shape
  <2>4. Shape'
    BY <1>1, <2>1, <2>2, <2>3 DEF IInv, Shape
  <2>5. \A q \in Processes : (AtMostNext(q) /\ Uncommitted(q))'
    BY <1>1, <2>1, <2>2, <2>3 DEF IInv, AtMostNext, Uncommitted
  <2> QED
    BY <1>1, <2>1, <2>3, <2>4, <2>5 DEF IInv, Prefix, OpenHasItsTables
<1>3. CASE Start(p) \/ CreateLog(p)
  <2>1. UNCHANGED <<writer, work>> /\ pc[p] \in {"down", "log"}
    BY <1>3 DEF Start, CreateLog, lock
  <2>2. \E s \in {"log", "read"} : pc' = [pc EXCEPT ![p] = s]
    BY <1>3 DEF Start, CreateLog
  <2>3. pc'[p] \in {"log", "read"} /\ \A q \in Processes : q # p => pc'[q] = pc[q]
    BY <2>2 DEF IInv, Shape
  <2>4. Shape'
    BY <1>1, <2>1, <2>2, <2>3 DEF IInv, Shape
  <2>5. \A q \in Processes : (AtMostNext(q) /\ Uncommitted(q))'
    BY <1>1, <2>1, <2>3 DEF IInv, AtMostNext, Uncommitted
  <2> QED
    BY <1>1, <2>3, <2>4, <2>5 DEF IInv, Prefix, OpenHasItsTables
<1> QED
  BY <1>1, <1>2, <1>3

LEMMA NextIInv == IInv /\ [Next]_vars => IInv' /\ db.policies \subseteq db'.policies
<1> SUFFICES ASSUME IInv, [Next]_vars
             PROVE  IInv' /\ db.policies \subseteq db'.policies
  OBVIOUS
<1>1. ASSUME NEW p \in Processes, Ends(p) PROVE IInv' /\ db.policies \subseteq db'.policies
  BY <1>1, EndsIInv DEF Ends
<1>2. ASSUME NEW p \in Processes, Steps(p) PROVE IInv' /\ db.policies \subseteq db'.policies
  <2>1. CASE Start(p) \/ CreateLog(p) \/ Begin(p)
    BY <2>1, MovesIInv
  <2>2. CASE Read(p)
    BY <2>2, ReadIInv DEF Read
  <2>3. CASE RefusesNewer(p) \/ Conflict(p)
    BY <1>1, <2>3 DEF RefusesNewer, Conflict
  <2>4. CASE Body(p)
    BY <2>4, BodyIInv DEF Body
  <2>5. CASE Record(p)
    BY <2>5, RecordIInv, RecordCommits
  <2> QED
    BY <1>2, <2>1, <2>2, <2>3, <2>4, <2>5 DEF Steps
<1>3. ASSUME NEW p \in Processes, Busy(p) \/ Crash(p) PROVE IInv' /\ db.policies \subseteq db'.policies
  BY <1>1, <1>3 DEF Busy, Crash
<1>4. ASSUME NEW p \in Processes, NEW i \in PolicyIds, SavePolicy(p, i)
      PROVE  IInv' /\ db.policies \subseteq db'.policies
  BY <1>4, SavePolicyIInv
<1>5. CASE UNCHANGED vars
  BY <1>5 DEF vars, process, lock, IInv, Shape, Prefix, AtMostNext, Uncommitted,
      OpenHasItsTables
<1> QED
  BY <1>2, <1>3, <1>4, <1>5 DEF Next
-----------------------------------------------------------------------------
(* The version rows are those of the first n migrations, with exactly their *)
(* tables, and an open repository has every table of its build, whatever    *)
(* processes race and wherever they crash (migrate).                        *)
THEOREM SchemaSafety == Spec => [](SchemaIsAPrefix /\ OpenHasItsTables)
<1>1. IInv => SchemaIsAPrefix /\ OpenHasItsTables
  <2> SUFFICES ASSUME IInv PROVE SchemaIsAPrefix
    BY DEF IInv
  <2>1. PICK n \in Nat : db.applied = 1 .. n /\ db.tables = 1 .. n
    BY DEF IInv, Prefix
  <2>2. Cardinality(1 .. n) = n
    BY FS_Interval
  <2> QED
    BY <2>1, <2>2 DEF SchemaIsAPrefix
<1>2. IInv /\ [Next]_vars => IInv'
  BY NextIInv
<1> QED
  BY InitIInv, <1>1, <1>2, PTL DEF Spec

(* No migration and no race loses a saved policy.                           *)
THEOREM NoRowIsLost == Spec => RowsSurvive
<1>1. IInv /\ [Next]_vars => IInv' /\ [db.policies \subseteq db'.policies]_vars
  BY NextIInv
<1> QED
  BY InitIInv, <1>1, PTL DEF Spec, RowsSurvive

(* A process that read an old version while another migrated further never  *)
(* ends with an open repository on a schema newer than its build (:841).    *)
THEOREM NewerIsRefused == Spec => NeverOpensNewer
<1> DEFINE Opens(p) == pc[p] # "open" /\ pc'[p] = "open"
<1>1. ASSUME IInv, Next, NEW p \in Processes, Opens(p)
      PROVE  Latest(db'.applied) <= Supported[p]
  <2>1. ASSUME NEW q \in Processes, Steps(q) \/ Busy(q) \/ Crash(q) \/ \E i \in PolicyIds : SavePolicy(q, i)
        PROVE  q = p /\ (Read(p) \/ Record(p))
    <3>1. CASE Start(q) \/ CreateLog(q) \/ Begin(q) \/ Body(q)
      <4>1. \E s \in {"log", "read", "body", "record"} : pc' = [pc EXCEPT ![q] = s]
        BY <3>1 DEF Start, CreateLog, Begin, Body
      <4> QED
        BY <1>1, <4>1 DEF IInv, Shape
    <3>2. CASE RefusesNewer(q) \/ Conflict(q) \/ Busy(q) \/ Crash(q)
      <4>1. pc' = [pc EXCEPT ![q] = "down"]
        BY <3>2 DEF RefusesNewer, Conflict, Busy, Crash, Ends
      <4> QED
        BY <1>1, <4>1 DEF IInv, Shape
    <3>3. CASE Read(q) \/ Record(q)
      <4>1. \E s \in {"begin", "open"} : pc' = [pc EXCEPT ![q] = s]
        BY <3>3 DEF Read, Record, GoesOn
      <4>2. q = p
        BY <1>1, <4>1 DEF IInv, Shape
      <4> QED
        BY <3>3, <4>2
    <3>4. CASE \E i \in PolicyIds : SavePolicy(q, i)
      <4>1. pc' = pc
        BY <3>4 DEF SavePolicy, process
      <4> QED
        BY <1>1, <4>1
    <3> QED
      BY <2>1, <3>1, <3>2, <3>3, <3>4 DEF Steps
  <2>2. CASE Read(p)
    <3>1. Latest(db.applied) <= Supported[p] /\ db' = db
      BY <2>2 DEF Read
    <3> QED
      BY <3>1
  <2>3. CASE Record(p)
    <3>1. PICK n \in Nat : at[p] = n + 1 /\ at[p] <= Supported[p] /\ db'.applied = 1 .. at[p]
      BY <1>1, <2>3, RecordCommits
    <3> QED
      BY <3>1, LatestOfInterval
  <2> QED
    BY <1>1, <2>1, <2>2, <2>3 DEF Next
<1>2. IInv /\ [Next]_vars => IInv' /\ [\A p \in Processes : Opens(p) => Latest(db'.applied) <= Supported[p]]_vars
  <2>1. IInv /\ [Next]_vars => IInv'
    BY NextIInv
  <2>2. IInv /\ Next => \A p \in Processes : Opens(p) => Latest(db'.applied) <= Supported[p]
    BY <1>1
  <2> QED
    BY <2>1, <2>2
<1> QED
  BY InitIInv, <1>2, PTL DEF Spec, NeverOpensNewer

----------------------------------------------------------------------------
(* Signed controls: a signature is spent once, by one worker, whatever the *)
(* others do in the meantime; the revisions of a series have no gaps, so   *)
(* that the latest one is their number.                                    *)

(* What a worker works on was signed, and comes at most one after the      *)
(* latest of its series; the token it revokes was issued.                  *)
Due(a) ==
  /\ a \in Controls!Artifacts
  /\ a.rev <= Controls!Latest(a.op, Controls!Series(a.kind)) + 1
  /\ a.kind = "revoke" => Controls!Issued(Controls!Token(a.op, a.body))

SignedWork(c) ==
  /\ challenge[c] # None
  /\ c \in signed
  /\ challenge[c].act.kind # "session" => Due(challenge[c].act)

WorkIsSigned == \A w \in Workers : effort[w] # None => SignedWork(effort[w].ch)

(* Of two workers one is about to store what a challenge names.            *)
Saves(w, c) == effort[w] # None /\ effort[w].step = "save" /\ effort[w].ch = c
OneSaver == \A c \in Challenges, v, w \in Workers : Saves(v, c) /\ Saves(w, c) => v = w

(* A consumed challenge has exactly one fate.                              *)
Consumed(c) == challenge[c] # None /\ challenge[c].used
OneFate ==
  \A c \in Challenges :
    /\ Consumed(c) <=> (lost[c] # "no" \/ Controls!HasEffect(c) \/ Controls!Pending(c))
    /\ Controls!HasEffect(c) => ~Controls!Pending(c)
    /\ Controls!HasEffect(c) \/ Controls!Pending(c) => lost[c] = "no"

SessionsAreLogins ==
  \A c \in Challenges : session[c] # None => challenge[c].act.kind = "session"

RowsAreSigned == Controls!StoredIsSigned /\ \A r \in artifacts : challenge[r.ch] # None

ConflictsAreSuperseded == \A c \in Challenges : lost[c] = "conflict" => Controls!Superseded(c)

Revokes(r, op, rev) == r.art.op = op /\ r.art.kind = "revoke" /\ r.art.body = rev
RevokedOnce ==
  /\ \A r, s \in artifacts :
       r.art.kind = "revoke" /\ Revokes(s, r.art.op, r.art.body) => r = s
  /\ \A op \in Operators, rev \in Controls!Revisions :
       /\ Controls!Token(op, rev) \in revoked <=> \E r \in artifacts : Revokes(r, op, rev)
       /\ Controls!Token(op, rev) \in revoked => Controls!Issued(Controls!Token(op, rev))

(* The revisions of a series are those up to the latest.                   *)
NoGaps ==
  \A op \in Operators, kind \in Kinds :
    \A n \in 1..Controls!Latest(op, Controls!Series(kind)) :
       \E r \in Controls!RowsOf(op, Controls!Series(kind)) : r.art.rev = n
NoDuplicates ==
  \A r, s \in artifacts :
    r.art.op = s.art.op /\ r.art.kind = s.art.kind /\ r.art.rev = s.art.rev => r = s

OperatorAuthInv ==
  /\ Controls!TypeOK /\ WorkIsSigned /\ OneSaver /\ OneFate /\ SessionsAreLogins
  /\ RowsAreSigned /\ ConflictsAreSuperseded /\ RevokedOnce /\ NoGaps /\ NoDuplicates

(* FiniteSets has one Cardinality, whichever module takes it.               *)
LEMMA ControlsCardinality == \A S : Controls!Cardinality(S) = Cardinality(S)
  BY Zenon DEF Controls!Cardinality, Cardinality

(* A set of bounded naturals has a greatest member.                        *)
LEMMA GreatestExists ==
  ASSUME NEW N \in Nat, NEW S, S \subseteq 0..N, S # {}
  PROVE  \E top \in S : \A m \in S : m <= top
<1> DEFINE Q == {n \in Nat : \A m \in S : m <= n}
<1>1. N \in Q /\ Q \subseteq Nat
  OBVIOUS
<1>2. PICK n \in Q : \A k \in Q : <<k, n>> \notin OpToRel(<, Nat)
  BY <1>1, WFMin, NatLessThanWellFounded, Zenon
<1>3. \A k \in Q : ~(k < n)
  BY <1>1, <1>2, Zenon DEF OpToRel
<1>4. n \in S
  <2> SUFFICES ASSUME n \notin S PROVE FALSE
    OBVIOUS
  <2>0. n \in Nat
    BY <1>1, Zenon
  <2>1. PICK k \in S : k <= n
    BY Zenon
  <2>2. k # n /\ k \in Nat
    BY <2>1
  <2>3. n - 1 \in Nat
    BY <2>0, <2>1, <2>2
  <2>4. \A m \in S : m \in Nat /\ m <= n /\ m # n
    <3>1. \A m \in S : m <= n
      BY Zenon
    <3> QED
      BY <3>1
  <2>5. \A m \in S : m <= n - 1
    BY <2>0, <2>4
  <2>6. n - 1 \in Q
    BY <2>3, <2>5, Zenon
  <2>7. n - 1 < n
    BY <2>0
  <2> QED
    BY <1>3, <2>6, <2>7, Zenon
<1> QED
  BY <1>4, Zenon

LEMMA LatestNow ==
  ASSUME Controls!OperatorAuthAssumption, artifacts \in SUBSET Controls!Rows
  PROVE  \A op, kinds :
           /\ Controls!Latest(op, kinds) \in Nat
           /\ Controls!Latest(op, kinds) # 0 => \E r \in Controls!RowsOf(op, kinds) : r.art.rev = Controls!Latest(op, kinds)
           /\ \A r \in Controls!RowsOf(op, kinds) : r.art.rev <= Controls!Latest(op, kinds)
<1> SUFFICES ASSUME NEW op, NEW kinds
             PROVE  /\ Controls!Latest(op, kinds) \in Nat
                    /\ Controls!Latest(op, kinds) # 0 =>
                                  \E r \in Controls!RowsOf(op, kinds) : r.art.rev = Controls!Latest(op, kinds)
                    /\ \A r \in Controls!RowsOf(op, kinds) : r.art.rev <= Controls!Latest(op, kinds)
  OBVIOUS
<1> DEFINE revs == {r.art.rev : r \in Controls!RowsOf(op, kinds)} \union {0}
<1>1. Controls!Latest(op, kinds) = CHOOSE n \in revs : \A m \in revs : m <= n
  BY DEF Controls!Latest
<1>2. revs \subseteq 0..LastRevision /\ revs # {}
  BY DEF Controls!RowsOf, Controls!OperatorAuthAssumption, Controls!Rows,
      Controls!Artifacts, Controls!Revisions
<1> HIDE DEF revs
<1>3. Controls!Latest(op, kinds) \in revs /\ \A m \in revs : m <= Controls!Latest(op, kinds)
  <2>1. LastRevision \in Nat
    BY DEF Controls!OperatorAuthAssumption
  <2>2. \E n \in revs : \A m \in revs : m <= n
    BY <1>2, <2>1, GreatestExists
  <2> QED
    BY <1>1, <2>2, Zenon
<1>4. Controls!Latest(op, kinds) \in Nat
  <2>1. Controls!Latest(op, kinds) \in 0..LastRevision
    BY <1>2, <1>3, Zenon
  <2> QED
    BY <2>1 DEF Controls!OperatorAuthAssumption
<1> QED
  BY <1>3, <1>4 DEF revs

LEMMA LatestNext ==
  ASSUME Controls!OperatorAuthAssumption, artifacts' \in SUBSET Controls!Rows
  PROVE  \A op, kinds :
           /\ Controls!Latest(op, kinds)' \in Nat
           /\ Controls!Latest(op, kinds)' # 0 => \E r \in Controls!RowsOf(op, kinds)' : r.art.rev = Controls!Latest(op, kinds)'
           /\ \A r \in Controls!RowsOf(op, kinds)' : r.art.rev <= Controls!Latest(op, kinds)'
<1> SUFFICES ASSUME NEW op, NEW kinds
             PROVE  /\ Controls!Latest(op, kinds)' \in Nat
                    /\ Controls!Latest(op, kinds)' # 0 =>
                                  \E r \in Controls!RowsOf(op, kinds)' : r.art.rev = Controls!Latest(op, kinds)'
                    /\ \A r \in Controls!RowsOf(op, kinds)' : r.art.rev <= Controls!Latest(op, kinds)'
  OBVIOUS
<1> DEFINE revs == {r.art.rev : r \in Controls!RowsOf(op, kinds)'} \union {0}
<1>1. Controls!Latest(op, kinds)' = CHOOSE n \in revs : \A m \in revs : m <= n
  BY DEF Controls!Latest
<1>2. revs \subseteq 0..LastRevision /\ revs # {}
  BY DEF Controls!RowsOf, Controls!OperatorAuthAssumption, Controls!Rows,
      Controls!Artifacts, Controls!Revisions
<1> HIDE DEF revs
<1>3. Controls!Latest(op, kinds)' \in revs /\ \A m \in revs : m <= Controls!Latest(op, kinds)'
  <2>1. LastRevision \in Nat
    BY DEF Controls!OperatorAuthAssumption
  <2>2. \E n \in revs : \A m \in revs : m <= n
    BY <1>2, <2>1, GreatestExists
  <2> QED
    BY <1>1, <2>2, Zenon
<1>4. Controls!Latest(op, kinds)' \in Nat
  <2>1. Controls!Latest(op, kinds)' \in 0..LastRevision
    BY <1>2, <1>3, Zenon
  <2> QED
    BY <2>1 DEF Controls!OperatorAuthAssumption
<1> QED
  BY <1>3, <1>4 DEF revs

(* Rows are never deleted, and a challenge keeps the action it names.      *)
Grows ==
  /\ artifacts \subseteq artifacts'
  /\ signed \subseteq signed'
  /\ \A c \in Challenges : challenge[c] # None =>
       challenge'[c] # None /\ challenge'[c].act = challenge[c].act

LEMMA WhatStays ==
  ASSUME Controls!OperatorAuthAssumption, Controls!TypeOK, Controls!TypeOK', Grows
  PROVE  /\ \A op, kinds : Controls!Latest(op, kinds) <= Controls!Latest(op, kinds)'
         /\ \A c \in Challenges : SignedWork(c) => SignedWork(c)'
         /\ \A c \in Challenges : challenge[c] # None /\ Controls!Superseded(c) => Controls!Superseded(c)'
<1>1. \A op, kinds : Controls!RowsOf(op, kinds) \subseteq Controls!RowsOf(op, kinds)'
  BY DEF Controls!RowsOf, Grows
<1>2. \A op, kinds : Controls!Latest(op, kinds) <= Controls!Latest(op, kinds)'
  <2> SUFFICES ASSUME NEW op, NEW kinds PROVE Controls!Latest(op, kinds) <= Controls!Latest(op, kinds)'
    OBVIOUS
  <2>1. /\ Controls!Latest(op, kinds) \in Nat
        /\ Controls!Latest(op, kinds) # 0 => \E r \in Controls!RowsOf(op, kinds) : r.art.rev = Controls!Latest(op, kinds)
    BY LatestNow DEF Controls!TypeOK
  <2>2. /\ Controls!Latest(op, kinds)' \in Nat
        /\ \A r \in Controls!RowsOf(op, kinds)' : r.art.rev <= Controls!Latest(op, kinds)'
    BY LatestNext DEF Controls!TypeOK
  <2> QED
    BY <1>1, <2>1, <2>2
<1>3. \A a : Due(a) => Due(a)'
  <2> SUFFICES ASSUME NEW a, Due(a) PROVE Due(a)'
    OBVIOUS
  <2>1. a.rev <= Controls!Latest(a.op, Controls!Series(a.kind))' + 1
    <3>1. a.rev \in Nat /\ a.rev <= Controls!Latest(a.op, Controls!Series(a.kind)) + 1
      BY DEF Due, Controls!Artifacts, Controls!Revisions, Controls!OperatorAuthAssumption
    <3>2. Controls!Latest(a.op, Controls!Series(a.kind)) \in Nat /\ Controls!Latest(a.op, Controls!Series(a.kind))' \in Nat
      BY LatestNow, LatestNext DEF Controls!TypeOK
    <3> QED
      BY <1>2, <3>1, <3>2
  <2> QED
    BY <1>1, <2>1 DEF Due, Controls!Issued, Controls!Series
<1>4. \A c \in Challenges : SignedWork(c) => SignedWork(c)'
  BY <1>3 DEF SignedWork, Grows
<1>5. \A c \in Challenges : challenge[c] # None /\ Controls!Superseded(c) => Controls!Superseded(c)'
  BY DEF Grows, Controls!Superseded, Controls!SameKey, Controls!Series
<1> QED
  BY <1>2, <1>4, <1>5

(* A step that stores nothing and consumes nothing.                        *)
LEMMA NothingStored ==
  ASSUME Controls!OperatorAuthAssumption, OperatorAuthInv, Controls!TypeOK', Grows,
         UNCHANGED <<artifacts, session, revoked>>,
         \A c \in Challenges : Consumed(c) => Consumed(c)'
  PROVE  SessionsAreLogins' /\ RowsAreSigned' /\ RevokedOnce' /\ NoGaps' /\ NoDuplicates'
<1> USE DEF OperatorAuthInv
<1>1. SessionsAreLogins'
  BY DEF SessionsAreLogins, Grows, OneFate, Controls!HasEffect, Consumed
<1>2. RowsAreSigned'
  <2>1. \A r \in artifacts : r \in Controls!Rows /\ r.ch \in Challenges
    BY DEF Controls!TypeOK, Controls!Rows
  <2> QED
    BY <2>1 DEF RowsAreSigned, Controls!StoredIsSigned, Grows, Consumed
<1>3. RevokedOnce'
  BY DEF RevokedOnce, Revokes, Controls!Issued, Controls!RowsOf, Controls!Token
<1>4. NoGaps'
  <2>1. \A op, kinds : Controls!RowsOf(op, kinds)' = Controls!RowsOf(op, kinds)
    BY DEF Controls!RowsOf
  <2>2. \A op, kinds : Controls!Latest(op, kinds)' = Controls!Latest(op, kinds)
    BY <2>1 DEF Controls!Latest
  <2> QED
    BY <2>1, <2>2 DEF NoGaps
<1>5. NoDuplicates'
  BY DEF NoDuplicates
<1> QED
  BY <1>1, <1>2, <1>3, <1>4, <1>5

LEMMA FatesStay ==
  ASSUME OperatorAuthInv, UNCHANGED <<artifacts, session, lost>>,
         \A c \in Challenges : Consumed(c)' <=> Consumed(c),
         \A c \in Challenges, w \in Workers : Saves(w, c)' => Saves(w, c),
         \A c \in Challenges, w \in Workers : Saves(w, c) => Saves(w, c)'
  PROVE  OneSaver' /\ OneFate'
<1>1. \A c \in Challenges : Controls!Pending(c)' <=> Controls!Pending(c)
  BY DEF Controls!Pending, Saves
<1>2. \A c \in Challenges : Controls!HasEffect(c)' <=> Controls!HasEffect(c)
  BY DEF Controls!HasEffect
<1> QED
  BY <1>1, <1>2, Zenon DEF OperatorAuthInv, OneSaver, OneFate

(* The worker that consumed a challenge ends without effect.               *)
LEMMA FateDecided ==
  ASSUME OperatorAuthInv, UNCHANGED <<artifacts, session, challenge>>, NEW w \in Workers,
         NEW c \in Challenges, Saves(w, c), NEW why \in {"crash", "message", "conflict"},
         lost' = [lost EXCEPT ![c] = why], effort' = [effort EXCEPT ![w] = None]
  PROVE  OneSaver' /\ OneFate'
<1> USE DEF OperatorAuthInv
<1>1. \A d \in Challenges, v \in Workers : Saves(v, d)' <=> Saves(v, d) /\ v # w
  BY DEF Saves, Controls!TypeOK
<1>2. \A v \in Workers : Saves(v, c) => v = w
  BY DEF OneSaver
<1>3. \A d \in Challenges : d # c => (Controls!Pending(d)' <=> Controls!Pending(d))
  BY <1>1 DEF Controls!Pending, Saves
<1>4. ~Controls!Pending(c)' /\ Controls!Pending(c)
  BY <1>1, <1>2 DEF Controls!Pending, Saves
<1>5. \A d \in Challenges : (Controls!HasEffect(d)' <=> Controls!HasEffect(d)) /\ (Consumed(d)' <=> Consumed(d))
  BY DEF Controls!HasEffect, Consumed
<1>6. lost'[c] # "no" /\ \A d \in Challenges : d # c => lost'[d] = lost[d]
  BY DEF Controls!TypeOK
<1>7. OneSaver'
  BY <1>1, Zenon DEF OneSaver
<1>8. OneFate'
  <2> SUFFICES ASSUME NEW d \in Challenges
               PROVE  /\ Consumed(d)' <=> (lost'[d] # "no" \/ Controls!HasEffect(d)' \/ Controls!Pending(d)')
                      /\ Controls!HasEffect(d)' => ~Controls!Pending(d)'
                      /\ Controls!HasEffect(d)' \/ Controls!Pending(d)' => lost'[d] = "no"
    BY Zenon DEF OneFate
  <2>1. /\ Consumed(d) <=> (lost[d] # "no" \/ Controls!HasEffect(d) \/ Controls!Pending(d))
        /\ Controls!HasEffect(d) => ~Controls!Pending(d)
        /\ Controls!HasEffect(d) \/ Controls!Pending(d) => lost[d] = "no"
    BY Zenon DEF OneFate
  <2> QED
    BY <1>3, <1>4, <1>5, <1>6, <2>1, Zenon
<1> QED
  BY <1>7, <1>8

LEMMA QuietStep ==
  ASSUME Controls!OperatorAuthAssumption, OperatorAuthInv,
         \/ \E c \in Challenges : (\E act \in Controls!Asked : Controls!IssueChallenge(c, act)) \/ Controls!Sign(c)
         \/ \E w \in Workers : Controls!Replayed(w)
         \/ \E w \in Workers, c \in Challenges, op \in Operators : Controls!BeginSession(w, c, op)
         \/ \E w \in Workers, s, c, m \in Challenges, a \in Controls!Artifacts : Controls!BeginAction(w, s, c, a, m)
         \/ \E w \in Workers : Controls!Crash(w) /\ effort[w].step # "save"
         \/ Controls!Tick
  PROVE  OperatorAuthInv'
<1> USE DEF OperatorAuthInv
<1>1. ASSUME NEW c \in Challenges, NEW act \in Controls!Asked, Controls!IssueChallenge(c, act)
      PROVE  OperatorAuthInv'
  <2> DEFINE new == [act |-> act, issued |-> now, used |-> FALSE, deleted |-> FALSE]
  <2>1. new \in Controls!ChallengeRows
    BY DEF Controls!Asked, Controls!ChallengeRows, Controls!TypeOK
  <2>2. \A d \in Challenges :
          challenge'[d] = IF d = c THEN new
                          ELSE IF challenge[d] # None /\ Controls!Expired(d)
                               THEN [challenge[d] EXCEPT !.deleted = TRUE]
                               ELSE challenge[d]
    BY <1>1 DEF Controls!IssueChallenge
  <2>3. challenge[c] = None /\ challenge' = [d \in Challenges |-> challenge'[d]]
    BY <1>1 DEF Controls!IssueChallenge
  <2>4. new.used = FALSE /\ new.act = act
    OBVIOUS
  <2>5. new # None
    BY <2>1 DEF Controls!OperatorAuthAssumption
  <2> HIDE DEF new
  <2>6. \A d \in Challenges : challenge[d] # None =>
          /\ challenge'[d] \in Controls!ChallengeRows
          /\ challenge'[d].act = challenge[d].act /\ challenge'[d].used = challenge[d].used
    <3> SUFFICES ASSUME NEW d \in Challenges, challenge[d] # None
                 PROVE  /\ challenge'[d] \in Controls!ChallengeRows
                        /\ challenge'[d].act = challenge[d].act
                        /\ challenge'[d].used = challenge[d].used
      OBVIOUS
    <3>1. PICK row \in Controls!ChallengeRows : challenge[d] = row
      BY DEF Controls!TypeOK
    <3>2. challenge'[d] \in {row, [row EXCEPT !.deleted = TRUE]}
      BY <2>2, <2>3, <3>1
    <3> QED
      BY <3>1, <3>2 DEF Controls!ChallengeRows
  <2>7. \A d \in Challenges : challenge'[d] \in Controls!ChallengeRows \union {None}
    BY <2>1, <2>2, <2>6 DEF Controls!TypeOK
  <2>8. Controls!TypeOK'
    BY <1>1, <2>3, <2>7 DEF Controls!IssueChallenge, Controls!TypeOK
  <2>9. Grows
    BY <1>1, <2>6 DEF Grows, Controls!IssueChallenge, Controls!OperatorAuthAssumption
  <2>10. \A d \in Challenges : Consumed(d)' <=> Consumed(d)
    <3>1. \A d \in Challenges : challenge[d] # None => challenge'[d] # None
      BY <2>6 DEF Controls!OperatorAuthAssumption
    <3>2. \A d \in Challenges : d # c /\ challenge[d] = None => challenge'[d] = None
      BY <2>2
    <3>3. ~Consumed(c)' /\ ~Consumed(c)
      BY <2>2, <2>3, <2>4 DEF Consumed
    <3> QED
      BY <2>6, <3>1, <3>2, <3>3 DEF Consumed
  <2>11. SessionsAreLogins' /\ RowsAreSigned' /\ RevokedOnce' /\ NoGaps' /\ NoDuplicates'
    BY <1>1, <2>8, <2>9, <2>10, NothingStored DEF Controls!IssueChallenge
  <2>12. OneSaver' /\ OneFate'
    BY <1>1, <2>10, FatesStay DEF Controls!IssueChallenge, Saves
  <2>13. WorkIsSigned'
    BY <1>1, <2>8, <2>9, WhatStays DEF WorkIsSigned, Controls!IssueChallenge,
        Controls!TypeOK, Controls!Requests
  <2>14. ConflictsAreSuperseded'
    BY <1>1, <2>8, <2>9, WhatStays DEF ConflictsAreSuperseded, Controls!IssueChallenge,
        OneFate, Consumed
  <2> QED
    BY <2>8, <2>11, <2>12, <2>13, <2>14
<1>2. ASSUME UNCHANGED <<artifacts, session, revoked, challenge, lost>>, Controls!TypeOK', signed \subseteq signed',
             \A c \in Challenges, w \in Workers : Saves(w, c)' <=> Saves(w, c),
             \A w \in Workers : effort'[w] # None =>
                /\ effort'[w].ch \in Challenges
                /\ effort'[w] = effort[w] \/ SignedWork(effort'[w].ch)
      PROVE  OperatorAuthInv'
  <2>1. Grows
    BY <1>2 DEF Grows
  <2>2. \A c \in Challenges : Consumed(c)' <=> Consumed(c)
    BY <1>2 DEF Consumed
  <2>3. SessionsAreLogins' /\ RowsAreSigned' /\ RevokedOnce' /\ NoGaps' /\ NoDuplicates'
    BY <1>2, <2>1, <2>2, NothingStored
  <2>4. OneSaver' /\ OneFate'
    BY <1>2, <2>2, FatesStay
  <2>5. WorkIsSigned'
    BY <1>2, <2>1, WhatStays DEF WorkIsSigned
  <2>6. ConflictsAreSuperseded'
    BY <1>2, <2>1, WhatStays DEF ConflictsAreSuperseded, OneFate, Consumed
  <2> QED
    BY <1>2, <2>3, <2>4, <2>5, <2>6
<1>3. ASSUME NEW c \in Challenges, Controls!Sign(c)
      PROVE  OperatorAuthInv'
  <2>1. Controls!TypeOK' /\ signed \subseteq signed'
    BY <1>3 DEF Controls!Sign, Controls!TypeOK
  <2> QED
    BY <1>2, <1>3, <2>1 DEF Controls!Sign, Saves, Controls!TypeOK, Controls!Requests
<1>4. ASSUME NEW w \in Workers, effort' = [effort EXCEPT ![w] = None], effort[w].step # "save",
             UNCHANGED <<now, challenge, signed, session, artifacts, revoked, lost>>
      PROVE  OperatorAuthInv'
  <2>1. Controls!TypeOK'
    BY <1>4 DEF Controls!TypeOK
  <2>2. \A v \in Workers : effort'[v] # None => effort'[v] = effort[v] /\ v # w
    BY <1>4 DEF Controls!TypeOK
  <2>3. \A v \in Workers : v # w => effort'[v] = effort[v]
    BY <1>4 DEF Controls!TypeOK
  <2>4. \A d \in Challenges, v \in Workers : Saves(v, d)' <=> Saves(v, d)
    BY <1>4, <2>2, <2>3 DEF Saves
  <2> QED
    BY <1>2, <1>4, <2>1, <2>2, <2>4 DEF Controls!TypeOK, Controls!Requests
<1>5. ASSUME NEW w \in Workers, NEW c \in Challenges, NEW m \in Challenges, SignedWork(c),
             effort[w] = None, effort' = [effort EXCEPT ![w] = [ch |-> c, msg |-> m,
             step |-> "consume"]],
             UNCHANGED <<now, challenge, signed, session, artifacts, revoked, lost>>
      PROVE  OperatorAuthInv'
  <2> DEFINE new == [ch |-> c, msg |-> m, step |-> "consume"]
  <2>1. new \in Controls!Requests /\ new.ch = c /\ new.step # "save"
    BY DEF Controls!Requests
  <2>2. effort' = [effort EXCEPT ![w] = new]
    BY <1>5
  <2> HIDE DEF new
  <2>3. Controls!TypeOK'
    BY <1>5, <2>1, <2>2 DEF Controls!TypeOK
  <2>4. \A d \in Challenges, v \in Workers : Saves(v, d)' <=> Saves(v, d)
    BY <1>5, <2>1, <2>2 DEF Saves, Controls!TypeOK
  <2>5. \A v \in Workers : effort'[v] # None =>
          effort'[v].ch \in Challenges /\ (effort'[v] = effort[v] \/ SignedWork(effort'[v].ch))
    BY <1>5, <2>1, <2>2 DEF Controls!TypeOK, Controls!Requests
  <2> QED
    BY <1>2, <1>5, <2>3, <2>4, <2>5
<1>6. ASSUME NEW w \in Workers, NEW c \in Challenges, NEW op \in Operators, Controls!BeginSession(w, c, op)
      PROVE  OperatorAuthInv'
  <2>1. SignedWork(c)
    BY <1>6 DEF Controls!BeginSession, Controls!Usable, Controls!VerifySignature,
        SignedWork
  <2> QED
    BY <1>5, <1>6, <2>1 DEF Controls!BeginSession
<1>7. ASSUME NEW w \in Workers, NEW s \in Challenges, NEW c \in Challenges, NEW m \in Challenges,
             NEW a \in Controls!Artifacts, Controls!BeginAction(w, s, c, a, m)
      PROVE  OperatorAuthInv'
  <2>1. Due(a)
    <3>1. a.rev = Controls!Latest(a.op, Controls!Series(a.kind)) + 1
      BY <1>7 DEF Controls!BeginAction, Controls!NextRevision
    <3>2. Controls!Latest(a.op, Controls!Series(a.kind)) \in Nat
      BY LatestNow DEF Controls!TypeOK
    <3>3. a.kind = "revoke" => Controls!Issued(Controls!Token(a.op, a.body))
      BY <1>7 DEF Controls!BeginAction, Controls!RevocableToken
    <3> QED
      BY <3>1, <3>2, <3>3 DEF Due
  <2>2. SignedWork(c)
    BY <1>7, <2>1 DEF Controls!BeginAction, Controls!Usable, Controls!VerifySignature,
        SignedWork
  <2> QED
    BY <1>5, <1>7, <2>2 DEF Controls!BeginAction
<1>8. ASSUME Controls!Tick
      PROVE  OperatorAuthInv'
  <2>1. Controls!TypeOK'
    BY <1>8 DEF Controls!Tick, Controls!TypeOK, Controls!Times,
        Controls!OperatorAuthAssumption
  <2> QED
    BY <1>2, <1>8, <2>1 DEF Controls!Tick, Saves, Controls!TypeOK, Controls!Requests
<1>9. ASSUME NEW w \in Workers, Controls!Replayed(w) PROVE OperatorAuthInv'
  BY <1>4, <1>9 DEF Controls!Replayed
<1>10. ASSUME NEW w \in Workers, Controls!Crash(w), effort[w].step # "save" PROVE OperatorAuthInv'
  BY <1>4, <1>10 DEF Controls!Crash
<1> QED
  BY <1>1, <1>3, <1>6, <1>7, <1>8, <1>9, <1>10

LEMMA ConsumeStep ==
  ASSUME Controls!OperatorAuthAssumption, OperatorAuthInv, NEW w \in Workers, Controls!Consume(w)
  PROVE  OperatorAuthInv'
<1> USE DEF OperatorAuthInv
<1>1. PICK req \in Controls!Requests : effort[w] = req
  BY DEF Controls!Consume, Controls!TypeOK
<1>2. PICK c \in Challenges : req.ch = c /\ SignedWork(c)
  BY <1>1 DEF Controls!Consume, Controls!Requests, WorkIsSigned
<1>3. PICK row \in Controls!ChallengeRows : challenge[c] = row /\ ~row.used
  BY <1>1, <1>2 DEF Controls!Consume, Controls!Consumable, SignedWork, Controls!TypeOK
<1>4. /\ challenge' = [challenge EXCEPT ![c] = [row EXCEPT !.used = TRUE]]
      /\ effort' = [effort EXCEPT ![w] = [req EXCEPT !.step = "save"]]
      /\ req.step = "consume"
  BY <1>1, <1>2, <1>3 DEF Controls!Consume
<1>0. UNCHANGED <<now, signed, session, artifacts, revoked, lost>>
  BY DEF Controls!Consume
<1> DEFINE new == [row EXCEPT !.used = TRUE]
           next == [req EXCEPT !.step = "save"]
<1>5. new \in Controls!ChallengeRows /\ new.used /\ new.act = row.act
  BY DEF Controls!ChallengeRows
<1>6. next \in Controls!Requests /\ next.ch = c /\ next.step = "save"
  BY <1>2 DEF Controls!Requests
<1>7. new # None /\ next # None /\ row # None
  BY <1>5, <1>6 DEF Controls!OperatorAuthAssumption
<1>8. challenge' = [challenge EXCEPT ![c] = new] /\ effort' = [effort EXCEPT ![w] = next]
  BY <1>4
<1> HIDE DEF new, next
<1>9. Controls!TypeOK'
  BY <1>0, <1>5, <1>6, <1>8 DEF Controls!TypeOK
<1>10. Grows
  BY <1>0, <1>3, <1>5, <1>7, <1>8 DEF Grows, Controls!TypeOK
<1>11. /\ Consumed(c)' /\ ~Consumed(c)
       /\ \A d \in Challenges : d # c => (Consumed(d)' <=> Consumed(d))
  BY <1>3, <1>5, <1>7, <1>8 DEF Consumed, Controls!TypeOK
<1>12. SessionsAreLogins' /\ RowsAreSigned' /\ RevokedOnce' /\ NoGaps' /\ NoDuplicates'
  BY <1>0, <1>9, <1>10, <1>11, NothingStored
<1>13. ~Controls!HasEffect(c) /\ ~Controls!Pending(c) /\ lost[c] = "no"
  BY <1>11 DEF OneFate
<1>14. /\ Saves(w, c)' /\ \A d \in Challenges : d # c => ~Saves(w, d)'
       /\ \A v \in Workers, d \in Challenges : v # w => (Saves(v, d)' <=> Saves(v, d))
  BY <1>6, <1>7, <1>8 DEF Saves, Controls!TypeOK
<1>15. \A d \in Challenges : ~Saves(w, d)
  BY <1>1, <1>4 DEF Saves
<1>16. \A v \in Workers : ~Saves(v, c)
  BY <1>13 DEF Controls!Pending, Saves
<1>17. OneSaver'
  BY <1>14, <1>16 DEF OneSaver
<1>18. \A d \in Challenges : Controls!HasEffect(d)' <=> Controls!HasEffect(d)
  BY <1>0 DEF Controls!HasEffect
<1>19. Controls!Pending(c)' /\ \A d \in Challenges : d # c => (Controls!Pending(d)' <=> Controls!Pending(d))
  <2>1. Controls!Pending(c)'
    BY <1>14 DEF Controls!Pending, Saves
  <2>2. \A d \in Challenges : d # c => (Controls!Pending(d)' => Controls!Pending(d))
    BY <1>14 DEF Controls!Pending, Saves
  <2>3. \A d \in Challenges : d # c => (Controls!Pending(d) => Controls!Pending(d)')
    BY <1>14, <1>15 DEF Controls!Pending, Saves
  <2> QED
    BY <2>1, <2>2, <2>3
<1>20. OneFate'
  <2> SUFFICES ASSUME NEW d \in Challenges
               PROVE  /\ Consumed(d)' <=> (lost'[d] # "no" \/ Controls!HasEffect(d)' \/ Controls!Pending(d)')
                      /\ Controls!HasEffect(d)' => ~Controls!Pending(d)'
                      /\ Controls!HasEffect(d)' \/ Controls!Pending(d)' => lost'[d] = "no"
    BY Zenon DEF OneFate
  <2>1. /\ Consumed(d) <=> (lost[d] # "no" \/ Controls!HasEffect(d) \/ Controls!Pending(d))
        /\ Controls!HasEffect(d) => ~Controls!Pending(d)
        /\ Controls!HasEffect(d) \/ Controls!Pending(d) => lost[d] = "no"
    BY Zenon DEF OneFate
  <2>2. lost'[d] = lost[d]
    BY <1>0
  <2> QED
    BY <1>11, <1>13, <1>18, <1>19, <2>1, <2>2, Zenon
<1>21. WorkIsSigned'
  BY <1>2, <1>6, <1>8, <1>9, <1>10, WhatStays DEF WorkIsSigned, Controls!TypeOK,
      Controls!Requests
<1>22. ConflictsAreSuperseded'
  BY <1>0, <1>9, <1>10, WhatStays DEF ConflictsAreSuperseded, OneFate, Consumed
<1> QED
  BY <1>9, <1>12, <1>17, <1>20, <1>21, <1>22

(* What a worker that is about to store something holds.                   *)
LEMMA SaverHolds ==
  ASSUME OperatorAuthInv, NEW w \in Workers, effort[w] # None, effort[w].step = "save"
  PROVE  \E c \in Challenges : effort[w].ch = c /\ Saves(w, c) /\ SignedWork(c) /\ Consumed(c) /\ ~Controls!HasEffect(c)
<1>1. effort[w].ch \in Challenges
  BY DEF OperatorAuthInv, Controls!TypeOK, Controls!Requests
<1>2. Saves(w, effort[w].ch) /\ Controls!Pending(effort[w].ch)
  BY DEF Saves, Controls!Pending
<1> QED
  BY <1>1, <1>2 DEF OperatorAuthInv, WorkIsSigned, OneFate

LEMMA LossStep ==
  ASSUME Controls!OperatorAuthAssumption, OperatorAuthInv, NEW w \in Workers,
         Controls!MessageRefused(w) \/ Controls!ArtifactConflict(w) \/ (Controls!Crash(w) /\ effort[w].step = "save")
  PROVE  OperatorAuthInv'
<1> USE DEF OperatorAuthInv
<1>1. PICK why \in {"crash", "message", "conflict"} :
        /\ effort[w] # None /\ effort[w].step = "save"
        /\ Controls!Ends(w, why)
        /\ why = "conflict" => Controls!ArtifactConflict(w)
        /\ UNCHANGED <<now, challenge, signed, session, artifacts, revoked>>
  BY DEF Controls!MessageRefused, Controls!ArtifactConflict, Controls!Crash,
      Controls!Saving
<1>2. PICK c \in Challenges :
        effort[w].ch = c /\ Saves(w, c) /\ SignedWork(c) /\ Consumed(c) /\ ~Controls!HasEffect(c)
  BY <1>1, SaverHolds
<1>3. effort' = [effort EXCEPT ![w] = None] /\ lost' = [lost EXCEPT ![c] = why]
  BY <1>1, <1>2 DEF Controls!Ends
<1>4. Controls!TypeOK'
  BY <1>1, <1>3 DEF Controls!TypeOK
<1>5. Grows /\ \A d \in Challenges : Consumed(d) => Consumed(d)'
  BY <1>1 DEF Grows, Consumed
<1>6. SessionsAreLogins' /\ RowsAreSigned' /\ RevokedOnce' /\ NoGaps' /\ NoDuplicates'
  BY <1>1, <1>4, <1>5, NothingStored
<1>7. OneSaver' /\ OneFate'
  BY <1>1, <1>2, <1>3, FateDecided
<1>8. WorkIsSigned'
  BY <1>3, <1>4, <1>5, WhatStays DEF WorkIsSigned, Controls!TypeOK, Controls!Requests
<1>9. why = "conflict" => Controls!Superseded(c)
  <2> SUFFICES ASSUME Controls!ArtifactConflict(w) PROVE Controls!Superseded(c)
    BY <1>1
  <2> DEFINE a == challenge[c].act
  <2>1. Due(a) /\ ~(Controls!Fits(a) /\ Controls!StillRevocable(a))
    BY <1>2 DEF Controls!ArtifactConflict, Controls!Saving, SignedWork
  <2>2. \A r \in artifacts : r.ch # c
    BY <1>2 DEF Controls!HasEffect
  <2> HIDE DEF a
  <2>3. CASE ~Controls!Fits(a)
    BY <2>2, <2>3 DEF Controls!Fits, Controls!RowsOf, Controls!Superseded,
        Controls!Series, a, Due, Controls!Artifacts, Controls!Revisions,
        Controls!OperatorAuthAssumption, Controls!TypeOK, Controls!Rows
  <2>4. CASE a.kind = "revoke" /\ Controls!Token(a.op, a.body) \in revoked
    <3>1. PICK t \in Controls!Tokens : t = Controls!Token(a.op, a.body)
      BY <2>4 DEF Controls!TypeOK
    <3>2. a.op \in Operators /\ a.body \in Controls!Revisions
      BY <3>1 DEF Controls!Tokens, Controls!Token
    <3>3. PICK r \in artifacts : Revokes(r, a.op, a.body)
      BY <2>4, <3>2 DEF RevokedOnce
    <3> QED
      BY <2>2, <2>4, <3>3 DEF Revokes, Controls!Superseded, Controls!SameKey, a
  <2>5. CASE a.kind = "revoke" /\ ~Controls!NextRevision(a)
    <3>1. Controls!Latest(a.op, Controls!Series(a.kind)) \in Nat /\ a.rev \in Nat /\ a.rev # 0
      BY <2>1, LatestNow DEF Due, Controls!Artifacts, Controls!Revisions,
          Controls!OperatorAuthAssumption, Controls!TypeOK
    <3>2. Controls!Latest(a.op, Controls!Series(a.kind)) >= a.rev
      BY <2>1, <2>5, <3>1 DEF Controls!NextRevision, Due
    <3>3. PICK r \in Controls!RowsOf(a.op, Controls!Series(a.kind)) : r.art.rev = Controls!Latest(a.op, Controls!Series(a.kind))
      BY <3>1, <3>2, LatestNow DEF Controls!TypeOK
    <3> QED
      BY <2>2, <3>2, <3>3 DEF Controls!RowsOf, Controls!Superseded, a
  <2> QED
    BY <2>1, <2>3, <2>4, <2>5 DEF Controls!StillRevocable, Controls!RevocableToken, Due
<1>10. ConflictsAreSuperseded'
  <2>1. Controls!Superseded(c) => Controls!Superseded(c)'
    BY <1>2, <1>4, <1>5, WhatStays DEF SignedWork
  <2>2. lost'[c] = why /\ \A d \in Challenges : d # c => lost'[d] = lost[d]
    BY <1>3 DEF Controls!TypeOK
  <2>3. \A d \in Challenges : lost[d] = "conflict" => Controls!Superseded(d)'
    BY <1>4, <1>5, WhatStays DEF ConflictsAreSuperseded, OneFate, Consumed
  <2> QED
    BY <1>9, <2>1, <2>2, <2>3 DEF ConflictsAreSuperseded
<1> QED
  BY <1>4, <1>6, <1>7, <1>8, <1>10

LEMMA SaveSessionStep ==
  ASSUME Controls!OperatorAuthAssumption, OperatorAuthInv, NEW w \in Workers, Controls!SaveSession(w)
  PROVE  OperatorAuthInv'
<1> USE DEF OperatorAuthInv
<1>1. PICK c \in Challenges :
        effort[w].ch = c /\ Saves(w, c) /\ SignedWork(c) /\ Consumed(c) /\ ~Controls!HasEffect(c)
  BY SaverHolds DEF Controls!SaveSession
<1>2. /\ challenge[c].act.kind = "session"
      /\ session' = [session EXCEPT ![c] = now + SessionTtl]
      /\ effort' = [effort EXCEPT ![w] = None]
      /\ UNCHANGED <<now, challenge, signed, artifacts, revoked, lost>>
  BY <1>1 DEF Controls!SaveSession
<1>3. now + SessionTtl \in Nat /\ now + SessionTtl # None
  BY DEF Controls!TypeOK, Controls!Times, Controls!OperatorAuthAssumption
<1>4. Controls!TypeOK'
  BY <1>2, <1>3 DEF Controls!TypeOK
<1>5. \A d \in Challenges, v \in Workers : Saves(v, d)' <=> Saves(v, d) /\ v # w
  BY <1>2 DEF Saves, Controls!TypeOK
<1>6. OneSaver'
  BY <1>5, Zenon DEF OneSaver
<1>7. /\ Controls!HasEffect(c)' /\ \A d \in Challenges : d # c => (Controls!HasEffect(d)' <=> Controls!HasEffect(d))
  BY <1>2, <1>3 DEF Controls!HasEffect, Controls!TypeOK
<1>8. ~Controls!Pending(c)' /\ \A d \in Challenges : d # c => (Controls!Pending(d)' <=> Controls!Pending(d))
  <2>1. \A v \in Workers : Saves(v, c) => v = w
    BY <1>1 DEF OneSaver
  <2>2. \A d \in Challenges : d # c => ~Saves(w, d)
    BY <1>1 DEF Saves
  <2> QED
    BY <1>5, <2>1, <2>2 DEF Controls!Pending, Saves
<1>9. /\ lost[c] = "no" /\ lost' = lost
      /\ \A d \in Challenges : Consumed(d)' <=> Consumed(d)
  BY <1>1, <1>2 DEF OneFate, Consumed, Controls!Pending, Saves
<1>10. OneFate'
  <2> SUFFICES ASSUME NEW d \in Challenges
               PROVE  /\ Consumed(d)' <=> (lost'[d] # "no" \/ Controls!HasEffect(d)' \/ Controls!Pending(d)')
                      /\ Controls!HasEffect(d)' => ~Controls!Pending(d)'
                      /\ Controls!HasEffect(d)' \/ Controls!Pending(d)' => lost'[d] = "no"
    BY Zenon DEF OneFate
  <2>1. /\ Consumed(d) <=> (lost[d] # "no" \/ Controls!HasEffect(d) \/ Controls!Pending(d))
        /\ Controls!HasEffect(d) => ~Controls!Pending(d)
        /\ Controls!HasEffect(d) \/ Controls!Pending(d) => lost[d] = "no"
    BY Zenon DEF OneFate
  <2> QED
    BY <1>1, <1>7, <1>8, <1>9, <2>1, Zenon
<1>11. SessionsAreLogins'
  BY <1>2 DEF SessionsAreLogins, Controls!TypeOK
<1>12. WorkIsSigned'
  <2>1. Grows
    BY <1>2 DEF Grows
  <2> QED
    BY <1>2, <1>4, <2>1, WhatStays DEF WorkIsSigned, Controls!TypeOK, Controls!Requests
<1>13. RowsAreSigned' /\ RevokedOnce' /\ NoDuplicates'
  BY <1>2 DEF RowsAreSigned, Controls!StoredIsSigned, RevokedOnce, Revokes,
      Controls!Issued, Controls!RowsOf, Controls!Token, NoDuplicates
<1>14. NoGaps'
  <2>1. \A op, kinds : Controls!RowsOf(op, kinds)' = Controls!RowsOf(op, kinds)
    BY <1>2 DEF Controls!RowsOf
  <2>2. \A op, kinds : Controls!Latest(op, kinds)' = Controls!Latest(op, kinds)
    BY <2>1 DEF Controls!Latest
  <2> QED
    BY <2>1, <2>2 DEF NoGaps
<1>15. ConflictsAreSuperseded'
  BY <1>2 DEF ConflictsAreSuperseded, Controls!Superseded, Controls!SameKey,
      Controls!Series
<1> QED
  BY <1>4, <1>6, <1>10, <1>11, <1>12, <1>13, <1>14, <1>15

LEMMA SaveArtifactStep ==
  ASSUME Controls!OperatorAuthAssumption, OperatorAuthInv, NEW w \in Workers, Controls!SaveArtifact(w)
  PROVE  OperatorAuthInv'
<1> USE DEF OperatorAuthInv
<1>1. PICK c \in Challenges :
        effort[w].ch = c /\ Saves(w, c) /\ SignedWork(c) /\ Consumed(c) /\ ~Controls!HasEffect(c)
  BY SaverHolds DEF Controls!SaveArtifact, Controls!Saving
<1>2. PICK a \in Controls!Artifacts : challenge[c].act = a /\ Due(a) /\ a.kind # "session"
  BY <1>1 DEF Controls!SaveArtifact, Controls!Saving, SignedWork, Due
<1> DEFINE new == [art |-> a, ch |-> c, msg |-> c]
<1>3. /\ Controls!Fits(a) /\ Controls!StillRevocable(a) /\ Controls!MarkRevoked(a)
      /\ artifacts' = artifacts \union {new}
      /\ effort' = [effort EXCEPT ![w] = None]
      /\ UNCHANGED <<now, challenge, signed, session, lost>>
  BY <1>1, <1>2 DEF Controls!SaveArtifact, Controls!SameMessage, Controls!Stored
<1>4. new \in Controls!Rows /\ new.art = a /\ new.ch = c /\ new.msg = c
  BY DEF Controls!Rows
<1> HIDE DEF new
<1>5. a.kind = "revoke" => Controls!Token(a.op, a.body) \in Controls!Tokens
  BY <1>2 DEF Due, Controls!Issued, Controls!RowsOf, Controls!Token, Controls!Tokens,
      Controls!TypeOK, Controls!Rows, Controls!Artifacts
<1>6. Controls!TypeOK'
  BY <1>3, <1>4, <1>5 DEF Controls!TypeOK, Controls!MarkRevoked
<1>7. Grows
  BY <1>3 DEF Grows
<1>8. WorkIsSigned'
  BY <1>3, <1>6, <1>7, WhatStays DEF WorkIsSigned, Controls!TypeOK, Controls!Requests
<1>9. ConflictsAreSuperseded'
  BY <1>3, <1>6, <1>7, WhatStays DEF ConflictsAreSuperseded, OneFate, Consumed
<1>10. \A d \in Challenges, v \in Workers : Saves(v, d)' <=> Saves(v, d) /\ v # w
  BY <1>3 DEF Saves, Controls!TypeOK
<1>11. OneSaver'
  BY <1>10, Zenon DEF OneSaver
<1>12. /\ Controls!HasEffect(c)' /\ \A d \in Challenges : d # c => (Controls!HasEffect(d)' <=> Controls!HasEffect(d))
  BY <1>3, <1>4 DEF Controls!HasEffect
<1>13. ~Controls!Pending(c)' /\ \A d \in Challenges : d # c => (Controls!Pending(d)' <=> Controls!Pending(d))
  <2>1. \A v \in Workers : Saves(v, c) => v = w
    BY <1>1 DEF OneSaver
  <2>2. \A d \in Challenges : d # c => ~Saves(w, d)
    BY <1>1 DEF Saves
  <2> QED
    BY <1>10, <2>1, <2>2 DEF Controls!Pending, Saves
<1>14. /\ lost[c] = "no" /\ lost' = lost
       /\ \A d \in Challenges : Consumed(d)' <=> Consumed(d)
  BY <1>1, <1>3 DEF OneFate, Consumed, Controls!Pending, Saves
<1>15. OneFate'
  <2> SUFFICES ASSUME NEW d \in Challenges
               PROVE  /\ Consumed(d)' <=> (lost'[d] # "no" \/ Controls!HasEffect(d)' \/ Controls!Pending(d)')
                      /\ Controls!HasEffect(d)' => ~Controls!Pending(d)'
                      /\ Controls!HasEffect(d)' \/ Controls!Pending(d)' => lost'[d] = "no"
    BY Zenon DEF OneFate
  <2>1. /\ Consumed(d) <=> (lost[d] # "no" \/ Controls!HasEffect(d) \/ Controls!Pending(d))
        /\ Controls!HasEffect(d) => ~Controls!Pending(d)
        /\ Controls!HasEffect(d) \/ Controls!Pending(d) => lost[d] = "no"
    BY Zenon DEF OneFate
  <2> QED
    BY <1>1, <1>12, <1>13, <1>14, <2>1, Zenon
<1>16. SessionsAreLogins'
  BY <1>3 DEF SessionsAreLogins
<1>17. RowsAreSigned'
  BY <1>1, <1>2, <1>3, <1>4 DEF RowsAreSigned, Controls!StoredIsSigned, SignedWork,
      Consumed
<1>18. NoDuplicates'
  BY <1>3, <1>4 DEF NoDuplicates, Controls!Fits, Controls!RowsOf
<1>19. RevokedOnce'
  <2>1. \A r, s \in artifacts' :
          r.art.kind = "revoke" /\ Revokes(s, r.art.op, r.art.body) => r = s
    BY <1>3, <1>4 DEF RevokedOnce, Revokes, Controls!Fits, Controls!SameKey
  <2>2. ASSUME NEW op \in Operators, NEW rev \in Controls!Revisions
        PROVE  /\ Controls!Token(op, rev) \in revoked' <=> \E r \in artifacts' : Revokes(r, op, rev)
               /\ Controls!Token(op, rev) \in revoked' => Controls!Issued(Controls!Token(op, rev))'
    <3>1. /\ Controls!Token(op, rev) \in revoked <=> \E r \in artifacts : Revokes(r, op, rev)
          /\ Controls!Token(op, rev) \in revoked => Controls!Issued(Controls!Token(op, rev))
      BY DEF RevokedOnce
    <3>2. Controls!Issued(Controls!Token(op, rev)) => Controls!Issued(Controls!Token(op, rev))'
      BY <1>7 DEF Controls!Issued, Controls!RowsOf, Grows
    <3>3. CASE a.kind = "revoke" /\ a.op = op /\ a.body = rev
      BY <1>2, <1>3, <1>4, <3>2, <3>3 DEF Controls!MarkRevoked, Revokes, Due
    <3>4. CASE ~(a.kind = "revoke" /\ a.op = op /\ a.body = rev)
      <4>1. Controls!Token(op, rev) \in revoked' <=> Controls!Token(op, rev) \in revoked
        BY <1>3, <3>4 DEF Controls!MarkRevoked, Controls!Token
      <4>2. ~Revokes(new, op, rev)
        BY <1>4, <3>4 DEF Revokes
      <4> QED
        BY <1>3, <3>1, <3>2, <4>1, <4>2
    <3> QED
      BY <3>3, <3>4
  <2> QED
    BY <2>1, <2>2 DEF RevokedOnce
<1>20. NoGaps'
  <2> SUFFICES ASSUME NEW op \in Operators, NEW kind \in Kinds,
                      NEW n \in 1..Controls!Latest(op, Controls!Series(kind))'
               PROVE  \E r \in Controls!RowsOf(op, Controls!Series(kind))' : r.art.rev = n
    BY DEF NoGaps
  <2> DEFINE old == Controls!Latest(op, Controls!Series(kind))
  <2>1. old \in Nat /\ Controls!Latest(op, Controls!Series(kind))' \in Nat /\ a.rev \in Nat
    BY <1>2, <1>6, LatestNow, LatestNext DEF Due, Controls!Artifacts, Controls!Revisions,
        Controls!OperatorAuthAssumption, Controls!TypeOK
  <2>2. CASE n <= old
    <3>1. \E r \in Controls!RowsOf(op, Controls!Series(kind)) : r.art.rev = n
      BY <2>1, <2>2 DEF NoGaps
    <3> QED
      BY <1>7, <3>1 DEF Controls!RowsOf, Grows
  <2>3. CASE n > old
    <3>1. PICK r \in Controls!RowsOf(op, Controls!Series(kind))' : r.art.rev = Controls!Latest(op, Controls!Series(kind))'
      BY <1>6, <2>1, <2>3, LatestNext DEF Controls!TypeOK
    <3>2. r \notin Controls!RowsOf(op, Controls!Series(kind))
      BY <2>1, <2>3, <3>1, LatestNow DEF Controls!TypeOK
    <3>3. r = new
      BY <1>3, <3>1, <3>2 DEF Controls!RowsOf
    <3>4. a.op = op /\ Controls!Series(a.kind) = Controls!Series(kind)
      BY <1>4, <3>1, <3>3 DEF Controls!RowsOf, Controls!Series
    <3>5. a.rev <= old + 1
      BY <1>2, <3>4 DEF Due
    <3> QED
      BY <1>4, <2>1, <2>3, <3>1, <3>3, <3>5
  <2> QED
    BY <2>1, <2>2, <2>3
<1> QED
  BY <1>6, <1>8, <1>9, <1>11, <1>15, <1>16, <1>17, <1>18, <1>19, <1>20

LEMMA OperatorAuthInit ==
  ASSUME Controls!OperatorAuthAssumption
  PROVE  Controls!Init => OperatorAuthInv
<1> SUFFICES ASSUME Controls!Init PROVE OperatorAuthInv
  OBVIOUS
<1>1. Controls!TypeOK
  BY DEF Controls!Init, Controls!TypeOK, Controls!Times, Controls!OperatorAuthAssumption
<1>2. \A c \in Challenges : ~Controls!HasEffect(c) /\ ~Controls!Pending(c) /\ ~Consumed(c) /\ lost[c] = "no"
  BY DEF Controls!Init, Controls!HasEffect, Controls!Pending, Consumed
<1>3. OneFate
  BY <1>2, Zenon DEF OneFate
<1>4. NoGaps
  <2>1. \A op, kinds : Controls!Latest(op, kinds) = 0
    BY LatestNow, <1>1 DEF Controls!Init, Controls!RowsOf, Controls!TypeOK
  <2> QED
    BY <2>1 DEF NoGaps
<1>5. RevokedOnce
  BY DEF Controls!Init, RevokedOnce
<1> QED
  BY <1>1, <1>3, <1>4, <1>5
     DEF Controls!Init, OperatorAuthInv, WorkIsSigned, OneSaver, Saves, SessionsAreLogins,
         RowsAreSigned,
         Controls!StoredIsSigned, ConflictsAreSuperseded, NoDuplicates

LEMMA OperatorAuthStep ==
  ASSUME Controls!OperatorAuthAssumption
  PROVE  OperatorAuthInv /\ [Controls!Next]_(Controls!vars) => OperatorAuthInv'
<1> SUFFICES ASSUME OperatorAuthInv, [Controls!Next]_(Controls!vars) PROVE OperatorAuthInv'
  OBVIOUS
<1>1. CASE Controls!Next
  BY <1>1, QuietStep, ConsumeStep, LossStep, SaveSessionStep,
      SaveArtifactStep DEF Controls!Next
<1>2. CASE UNCHANGED Controls!vars
  <2>1. Controls!TypeOK' /\ Grows /\ UNCHANGED <<artifacts, session, revoked, lost, effort>>
    BY <1>2 DEF Controls!vars, Controls!TypeOK, OperatorAuthInv, Grows
  <2>2. \A c \in Challenges : Consumed(c)' <=> Consumed(c)
    BY <1>2 DEF Controls!vars, Consumed
  <2>3. SessionsAreLogins' /\ RowsAreSigned' /\ RevokedOnce' /\ NoGaps' /\ NoDuplicates'
    BY <2>1, <2>2, NothingStored
  <2>4. OneSaver' /\ OneFate'
    BY <2>1, <2>2, FatesStay DEF Saves
  <2>5. WorkIsSigned'
    BY <2>1, WhatStays DEF WorkIsSigned, OperatorAuthInv, Controls!TypeOK,
        Controls!Requests
  <2>6. ConflictsAreSuperseded'
    BY <2>1, WhatStays DEF ConflictsAreSuperseded, OperatorAuthInv, OneFate, Consumed
  <2> QED
    BY <2>1, <2>3, <2>4, <2>5, <2>6 DEF OperatorAuthInv
<1> QED
  BY <1>1, <1>2

LEMMA OperatorAuthInvariant ==
  ASSUME Controls!OperatorAuthAssumption
  PROVE  Controls!Spec => []OperatorAuthInv
<1>1. Controls!Init => OperatorAuthInv
  BY OperatorAuthInit
<1>2. OperatorAuthInv /\ [Controls!Next]_(Controls!vars) => OperatorAuthInv'
  BY OperatorAuthStep
<1> QED
  BY <1>1, <1>2, PTL DEF Controls!Spec

(* A signature has one effect, of what was signed, or none for a reason.   *)
THEOREM SignaturesAreSpentOnceCorrect ==
  ASSUME Controls!OperatorAuthAssumption
  PROVE  Controls!Spec => []SignaturesAreSpentOnce
<1>1. OperatorAuthInv => Controls!SignaturesAreSpentOnce
  <2> SUFFICES ASSUME OperatorAuthInv PROVE Controls!SignaturesAreSpentOnce
    OBVIOUS
  <2> USE DEF OperatorAuthInv
  <2>1. \A r \in artifacts : r \in Controls!Rows /\ r.art \in Controls!Artifacts /\ r.ch \in Challenges /\ r.art.kind # "session"
    BY DEF Controls!TypeOK, Controls!Rows, Controls!Artifacts,
        Controls!OperatorAuthAssumption, Controls!AllKinds
  <2>2. Controls!ChallengeSpentOnce
    <3>1. \A r, s \in artifacts : r.ch = s.ch => r = s
      BY <2>1 DEF RowsAreSigned, Controls!StoredIsSigned, Controls!Rows
    <3>2. \A r \in artifacts : session[r.ch] = None
      BY <2>1 DEF RowsAreSigned, Controls!StoredIsSigned, SessionsAreLogins
    <3>3. \A c \in Challenges : Controls!HasEffect(c) => ~Controls!Pending(c) /\ lost[c] = "no"
      BY DEF OneFate
    <3> QED
      BY <3>1, <3>2, <3>3 DEF Controls!ChallengeSpentOnce
  <2>3. Controls!LostForAReason
    <3> SUFFICES ASSUME NEW c \in Challenges, Consumed(c), ~Controls!HasEffect(c), ~Controls!Pending(c)
                 PROVE  lost[c] \in {"crash", "message"} \/ (lost[c] = "conflict" /\ Controls!Superseded(c))
      BY DEF Controls!LostForAReason, Consumed
    <3>1. lost[c] # "no"
      BY DEF OneFate
    <3>2. lost[c] \in {"crash", "message", "conflict"}
      BY <3>1 DEF Controls!TypeOK
    <3> QED
      BY <3>2 DEF ConflictsAreSuperseded
  <2>4. Controls!RevocationsMatch
    <3> SUFFICES ASSUME NEW op \in Operators, NEW rev \in Controls!Revisions,
                        NEW R,
                        R = {r \in Controls!RowsOf(op, {"revoke"}) : r.art.body = rev}
                 PROVE  /\ Cardinality(R) <= 1
                        /\ (R # {}) <=> Controls!Token(op, rev) \in revoked
                        /\ R # {} => Controls!Issued(Controls!Token(op, rev))
      BY ControlsCardinality DEF Controls!RevocationsMatch
    <3>1. R = {r \in artifacts : Revokes(r, op, rev)}
      BY DEF Controls!RowsOf, Revokes
    <3>2. \A r, s \in R : r = s
      BY <3>1 DEF RevokedOnce, Revokes
    <3>3. R = {} \/ \E r \in R : R = {r}
      BY <3>2
    <3>4. Cardinality({}) = 0
      BY FS_EmptySet
    <3>5. \A r \in R : Cardinality({r}) = 1
      BY FS_Singleton
    <3>6. Cardinality(R) \in {0, 1}
      BY <3>3, <3>4, <3>5
    <3>7. (R # {}) <=> Controls!Token(op, rev) \in revoked
      BY <3>1 DEF RevokedOnce
    <3> QED
      BY <3>6, <3>7 DEF RevokedOnce
  <2>5. Controls!StoredIsSigned
    BY DEF RowsAreSigned
  <2> QED
    BY <2>2, <2>3, <2>4, <2>5 DEF Controls!SignaturesAreSpentOnce
<1> QED
  BY <1>1, OperatorAuthInvariant, PTL DEF SignaturesAreSpentOnce

(* The revisions of a kind of control are unique, and those of a series    *)
(* have no gaps.                                                           *)
THEOREM RevisionsAreSequential ==
  ASSUME Controls!OperatorAuthAssumption
  PROVE  Controls!Spec => []Controls!RevisionsSequential
<1>1. OperatorAuthInv => Controls!RevisionsSequential
  <2> SUFFICES ASSUME OperatorAuthInv, NEW op \in Operators, NEW kind \in Kinds
               PROVE  /\ \A r, s \in Controls!RowsOf(op, {kind}) : r.art.rev = s.art.rev => r = s
                      /\ {r.art.rev : r \in Controls!RowsOf(op, Controls!Series(kind))} = 1..Controls!Latest(op, Controls!Series(kind))
    BY DEF Controls!RevisionsSequential
  <2>1. \A r, s \in Controls!RowsOf(op, {kind}) : r.art.rev = s.art.rev => r = s
    BY DEF OperatorAuthInv, NoDuplicates, Controls!RowsOf
  <2>2. Controls!Latest(op, Controls!Series(kind)) \in Nat
    BY LatestNow DEF OperatorAuthInv, Controls!TypeOK
  <2>3. \A r \in Controls!RowsOf(op, Controls!Series(kind)) : r.art.rev \in 1..Controls!Latest(op, Controls!Series(kind))
    <3>1. \A r \in Controls!RowsOf(op, Controls!Series(kind)) : r.art.rev <= Controls!Latest(op, Controls!Series(kind))
      BY LatestNow DEF OperatorAuthInv, Controls!TypeOK
    <3>2. \A r \in Controls!RowsOf(op, Controls!Series(kind)) : r.art.rev \in Nat /\ 1 <= r.art.rev
      BY DEF Controls!RowsOf, OperatorAuthInv, Controls!TypeOK, Controls!Rows,
          Controls!Artifacts, Controls!Revisions, Controls!OperatorAuthAssumption
    <3> QED
      BY <2>2, <3>1, <3>2
  <2>4. \A n \in 1..Controls!Latest(op, Controls!Series(kind)) : \E r \in Controls!RowsOf(op, Controls!Series(kind)) : r.art.rev = n
    BY DEF OperatorAuthInv, NoGaps
  <2>5. {r.art.rev : r \in Controls!RowsOf(op, Controls!Series(kind))} = 1..Controls!Latest(op, Controls!Series(kind))
    BY <2>3, <2>4, Zenon
  <2> QED
    BY <2>1, <2>5
<1> QED
  BY <1>1, OperatorAuthInvariant, PTL

LEMMA AppendExtends ==
  ASSUME NEW S, NEW n \in Nat, NEW f \in [1..n -> S], NEW g \in [1..(n + 1) -> S],
         \A i \in 1..n : g[i] = f[i]
  PROVE  g = Append(f, g[n + 1])
<1>1. f \in Seq(S) /\ g \in Seq(S) /\ Len(f) = n /\ Len(g) = n + 1
  OBVIOUS
<1> QED
  BY <1>1

(* What is appended to a log.                                              *)
LEMMA LogGrows ==
  ASSUME Controls!OperatorAuthAssumption, OperatorAuthInv, OperatorAuthInv', [Controls!Next]_(Controls!vars)
  PROVE  [Controls!Promised!Next]_(Controls!Log)
<1> USE DEF OperatorAuthInv
<1>1. CASE artifacts' = artifacts
  <2>1. \A op, kinds : Controls!RowsOf(op, kinds)' = Controls!RowsOf(op, kinds)
    BY <1>1 DEF Controls!RowsOf
  <2>2. \A op, kinds : Controls!Latest(op, kinds)' = Controls!Latest(op, kinds)
    BY <2>1 DEF Controls!Latest
  <2>3. \A o, n : Controls!EntriesAt(o, n)' = Controls!EntriesAt(o, n)
    BY <2>1 DEF Controls!EntriesAt
  <2> QED
    BY <2>2, <2>3 DEF Controls!Log
<1>2. CASE artifacts' # artifacts
  <2>1. PICK w \in Workers : Controls!SaveArtifact(w)
    BY <1>2 DEF Controls!Next, Controls!vars, Controls!IssueChallenge, Controls!Sign,
        Controls!Consume, Controls!Replayed, Controls!SaveSession,
        Controls!MessageRefused,
                Controls!ArtifactConflict, Controls!Crash, Controls!BeginSession,
                Controls!BeginAction, Controls!Tick
  <2>2. PICK c \in Challenges : effort[w].ch = c /\ SignedWork(c)
    BY <2>1, SaverHolds DEF Controls!SaveArtifact, Controls!Saving
  <2>3. PICK a \in Controls!Artifacts : challenge[c].act = a /\ Due(a)
    BY <2>1, <2>2 DEF Controls!SaveArtifact, Controls!Saving, SignedWork, Due
  <2> DEFINE new == [art |-> a, ch |-> c, msg |-> c]
  <2>4. Controls!Fits(a) /\ artifacts' = artifacts \union {new} /\ new.art = a
    BY <2>1, <2>2, <2>3 DEF Controls!SaveArtifact, Controls!SameMessage, Controls!Stored
  <2> HIDE DEF new
  <2>5. \A op, kinds : Controls!RowsOf(op, kinds)' =
           IF a.op = op /\ a.kind \in kinds THEN Controls!RowsOf(op, kinds) \union {new} ELSE Controls!RowsOf(op, kinds)
    BY <2>4 DEF Controls!RowsOf
  <2>6. \A o \in Controls!Logged : ~(a.op = o.op /\ a.kind = o.kind) =>
           /\ Controls!Latest(o.op, {o.kind})' = Controls!Latest(o.op, {o.kind})
           /\ \A n : Controls!EntriesAt(o, n)' = Controls!EntriesAt(o, n)
    <3>1. \A o \in Controls!Logged : ~(a.op = o.op /\ a.kind = o.kind) =>
             Controls!RowsOf(o.op, {o.kind})' = Controls!RowsOf(o.op, {o.kind})
      BY <2>5
    <3> QED
      BY <3>1 DEF Controls!Latest, Controls!EntriesAt
  <2>7. CASE a.kind \notin {"policy", "provider"}
    BY <2>6, <2>7 DEF Controls!Log, Controls!Logged
  <2>8. CASE a.kind \in {"policy", "provider"}
    <3> DEFINE o == [op |-> a.op, kind |-> a.kind]
               old == Controls!Latest(a.op, {a.kind})
               top == Controls!Latest(a.op, {a.kind})'
    <3>1. o \in Controls!Logged /\ o.op = a.op /\ o.kind = a.kind /\ Controls!Series(a.kind) = {a.kind}
      BY <2>8 DEF Controls!Logged, Controls!Artifacts, Controls!Series
    <3>2. old \in Nat /\ top \in Nat /\ a.rev \in Nat /\ a.rev > 0
      BY LatestNow, LatestNext DEF Controls!Artifacts, Controls!Revisions,
          Controls!OperatorAuthAssumption, Controls!TypeOK
    <3>3. \A r \in Controls!RowsOf(a.op, {a.kind}) : r.art.rev # a.rev
      BY <2>4 DEF Controls!Fits
    <3>4. old = a.rev - 1
      <4>1. a.rev <= old + 1
        BY <2>3, <3>1 DEF Due
      <4>2. a.rev \notin 1..old
        <5>1. \A n \in 1..Controls!Latest(a.op, Controls!Series(a.kind)) :
                \E r \in Controls!RowsOf(a.op, Controls!Series(a.kind)) : r.art.rev = n
          BY DEF NoGaps, Controls!Artifacts
        <5> QED
          BY <3>1, <3>3, <5>1
      <4> QED
        BY <3>2, <4>1, <4>2
    <3>5. Controls!RowsOf(a.op, {a.kind})' = Controls!RowsOf(a.op, {a.kind}) \union {new}
      BY <2>5
    <3>6. top = a.rev
      <4>1. \A r \in Controls!RowsOf(a.op, {a.kind}) : r.art.rev <= old
        BY LatestNow DEF Controls!TypeOK
      <4>2. /\ top # 0 => \E r \in Controls!RowsOf(a.op, {a.kind})' : r.art.rev = top
            /\ \A r \in Controls!RowsOf(a.op, {a.kind})' : r.art.rev <= top
        BY LatestNext DEF Controls!TypeOK
      <4>3. a.rev <= top
        BY <2>4, <3>5, <4>2
      <4>6. top # 0
        BY <3>2, <4>3
      <4>4. PICK r \in Controls!RowsOf(a.op, {a.kind})' : r.art.rev = top
        BY <4>2, <4>6
      <4>5. r = new \/ r.art.rev <= old
        BY <3>5, <4>1, <4>4
      <4> QED
        BY <2>4, <3>2, <3>4, <4>3, <4>4, <4>5
    <3>7. \A n \in 1..old : Controls!EntriesAt(o, n)' = Controls!EntriesAt(o, n)
      <4>1. \A n \in 1..old : n # a.rev
        BY <3>2, <3>4
      <4> QED
        BY <2>4, <3>1, <3>5, <4>1 DEF Controls!EntriesAt
    <3>8. Controls!EntriesAt(o, a.rev)' = {a}
      <4>1. {x \in Controls!RowsOf(a.op, {a.kind})' : x.art.rev = a.rev} = {new}
        BY <2>4, <3>3, <3>5
      <4> QED
        BY <2>4, <3>1, <4>1 DEF Controls!EntriesAt
    <3> HIDE DEF o
    <3>9. Controls!Log'[o] = [n \in 1..a.rev |-> Controls!EntriesAt(o, n)'] /\ Controls!Log[o] = [n \in 1..old |-> Controls!EntriesAt(o, n)]
      BY <3>1, <3>6 DEF Controls!Log
    <3>10. Controls!Log'[o] = Append(Controls!Log[o], {a})
      <4> DEFINE f == [n \in 1..old |-> Controls!EntriesAt(o, n)]
                 g == [n \in 1..(old + 1) |-> Controls!EntriesAt(o, n)']
      <4>1. a.rev = old + 1
        BY <3>2, <3>4
      <4>2. \A n : Controls!EntriesAt(o, n) \in SUBSET Controls!Artifacts /\ Controls!EntriesAt(o, n)' \in SUBSET Controls!Artifacts
        BY DEF Controls!EntriesAt, Controls!RowsOf, Controls!TypeOK, Controls!Rows
      <4>3. f \in [1..old -> SUBSET Controls!Artifacts] /\ g \in [1..(old + 1) -> SUBSET Controls!Artifacts]
        BY <4>2, Zenon
      <4>4. Controls!Log[o] = f /\ Controls!Log'[o] = g
        BY <3>9, <4>1
      <4>8. /\ \A i \in 1..(old + 1) : g[i] = Controls!EntriesAt(o, i)'
            /\ \A i \in 1..old : f[i] = Controls!EntriesAt(o, i)
        BY Zenon
      <4>9. old + 1 \in 1..(old + 1) /\ \A i \in 1..old : i \in 1..(old + 1)
        <5>1. \A m \in Nat : m + 1 \in 1..(m + 1) /\ \A i \in 1..m : i \in 1..(m + 1)
          OBVIOUS
        <5> QED
          BY <3>2, <5>1, Zenon
      <4>5. \A i \in 1..old : g[i] = f[i]
        BY <3>7, <4>8, <4>9, Zenon
      <4>6. g[old + 1] = {a}
        BY <3>8, <4>1, <4>8, <4>9, Zenon
      <4> HIDE DEF f, g
      <4>7. g = Append(f, g[old + 1])
        BY <3>2, <4>3, <4>5, AppendExtends
      <4> QED
        BY <4>4, <4>6, <4>7
    <3>11. \A x \in Controls!Logged : x # o => Controls!Log'[x] = Controls!Log[x]
      <4>1. \A x \in Controls!Logged : x # o => ~(a.op = x.op /\ a.kind = x.kind)
        BY DEF Controls!Logged, o
      <4> QED
        BY <2>6, <4>1 DEF Controls!Log
    <3>12. Controls!Log' = [Controls!Log EXCEPT ![o] = Append(@, {a})]
      BY <3>1, <3>10, <3>11 DEF Controls!Log
    <3>13. Controls!Log'[o] # Controls!Log[o]
      <4>1. a.rev \in DOMAIN Controls!Log'[o] /\ a.rev \notin DOMAIN Controls!Log[o]
        BY <3>2, <3>4, <3>9
      <4> QED
        BY <4>1
    <3>14. {a} \in {{b} : b \in Controls!Artifacts}
      OBVIOUS
    <3> QED
      BY <3>1, <3>12, <3>13, <3>14 DEF Controls!Promised!Next, Controls!Promised!Append1
  <2> QED
    BY <2>7, <2>8
<1> QED
  BY <1>1, <1>2

(* Policies and provider decisions are logs that only grow at their end.   *)
THEOREM ImplementsSignedLog ==
  ASSUME Controls!OperatorAuthAssumption
  PROVE  Controls!Spec => SignedLogImplemented
<1>1. Controls!Init => Controls!Promised!Init
  <2> SUFFICES ASSUME Controls!Init PROVE Controls!Promised!Init
    OBVIOUS
  <2>1. \A op, kinds : Controls!Latest(op, kinds) = 0
    BY LatestNow DEF Controls!Init, Controls!RowsOf
  <2>2. Controls!Log = [o \in Controls!Logged |-> << >>]
    BY <2>1 DEF Controls!Log
  <2> QED
    BY <2>2 DEF Controls!Promised!Init
<1>2. OperatorAuthInv /\ OperatorAuthInv' /\ [Controls!Next]_(Controls!vars) => [Controls!Promised!Next]_(Controls!Log)
  BY LogGrows
<1> QED
  BY <1>1, <1>2, OperatorAuthInvariant, PTL DEF Controls!Spec,
      Controls!SignedLogImplemented, Controls!Promised!Spec, SignedLogImplemented

----------------------------------------------------------------------------
(* Snapshots and restores: whatever command fails, what was committed is   *)
(* in the files, in the staged copy or in the backup of what a restore     *)
(* replaced.                                                               *)

(* docker compose ps answers, and report-api is not between two starts     *)
(* when a script lists what runs.                                          *)
Listable == ~BetweenStarts /\ ~PsFails

Replacing == {"install wal", "install shm", "exit"}

FilesInv ==
  /\ disk \in Scripts!Files /\ stage \in Scripts!Files /\ archives \subseteq Scripts!Files
  /\ acked \subseteq Scripts!Tx
  /\ service \in {"stopped", "restarting", "running"}
  /\ service = "running" => disk.has = Scripts!Names
  /\ step = "stop" => listed \/ service = "stopped"
  /\ step \in Scripts!Touches \union {"exit"} => service = "stopped"
  /\ Scripts!CommittedIsKept
  /\ Scripts!ReplacedIsKept
  /\ step \in Replacing => \A t \in acked : \E b \in backups : t \in Scripts!Contents(b) /\ ~Scripts!Mixed(b)

----------------------------------------------------------------------------
(* The files.                                                              *)

(* FiniteSets has one Cardinality, whichever module takes it.               *)
LEMMA ScriptsCardinality == \A S : Scripts!Cardinality(S) = Cardinality(S)
  BY Zenon DEF Scripts!Cardinality, Cardinality

(* Opening and closing a database keep what it holds.                      *)
LEMMA OpenedHolds ==
  ASSUME NEW f \in Scripts!Files
  PROVE  /\ Scripts!Opened(f) \in Scripts!Files /\ Scripts!Opened(f).has = Scripts!Names
         /\ Scripts!Contents(Scripts!Opened(f)) = Scripts!Contents(f)
         /\ ~Scripts!Mixed(f) => ~Scripts!Mixed(Scripts!Opened(f))
<1>1. CASE "wal" \in f.has
  BY <1>1 DEF Scripts!Opened, Scripts!Files, Scripts!Names, Scripts!Contents,
      Scripts!Mixed
<1>2. CASE "wal" \notin f.has
  <2>1. /\ Scripts!Opened(f).has = Scripts!Names /\ Scripts!Opened(f).main = f.main
        /\ Scripts!Opened(f).base = f.main /\ Scripts!Opened(f).wal = {}
    BY <1>2 DEF Scripts!Opened
  <2>2. Scripts!Opened(f) \in Scripts!Files
    BY <1>2 DEF Scripts!Opened, Scripts!Files
  <2> QED  BY <1>2, <2>1, <2>2 DEF Scripts!Names, Scripts!Contents, Scripts!Mixed
<1> QED  BY <1>1, <1>2

LEMMA ClosedHolds ==
  ASSUME NEW f \in Scripts!Files
  PROVE  /\ Scripts!Closed(f) \in Scripts!Files
         /\ Scripts!Contents(Scripts!Closed(f)) = Scripts!Contents(f)
         /\ ~Scripts!Mixed(f) => ~Scripts!Mixed(Scripts!Closed(f))
<1>1. CASE Scripts!Mixed(f)
  BY <1>1 DEF Scripts!Closed
<1>2. CASE ~Scripts!Mixed(f)
  <2>1. Scripts!Contents(f) \subseteq Scripts!Tx
    BY DEF Scripts!Contents, Scripts!Files
  <2>2. /\ Scripts!Closed(f) = [has |-> {"main"}, main |-> Scripts!Contents(f), base |-> {}, wal |-> {}]
    BY <1>2 DEF Scripts!Closed, Scripts!Nothing
  <2> QED  BY <2>1, <2>2 DEF Scripts!Files, Scripts!Names, Scripts!Contents, Scripts!Mixed
<1> QED  BY <1>1, <1>2

LEMMA WithTyped ==
  ASSUME NEW f \in Scripts!Files, NEW g \in Scripts!Files, NEW names \in SUBSET Scripts!Names
  PROVE  Scripts!With(f, names, g) \in Scripts!Files
BY DEF Scripts!With, Scripts!Files

LEMMA NothingTyped == Scripts!Nothing \in Scripts!Files
BY DEF Scripts!Nothing, Scripts!Files

(* A committed transaction is kept as long as the files hold what they     *)
(* held.                                                                   *)
LEMMA KeptGoesOn ==
  ASSUME FilesInv, acked' = acked, backups \subseteq backups',
         Scripts!Contents(disk) \subseteq Scripts!Contents(disk'),
         ~Scripts!Mixed(disk) => ~Scripts!Mixed(disk')
  PROVE  Scripts!CommittedIsKept'
BY DEF FilesInv, Scripts!CommittedIsKept, Scripts!Contents, Scripts!Mixed

LEMMA FilesInit ==
  ASSUME Scripts!FilesAssumption
  PROVE  Scripts!Init => FilesInv
<1> SUFFICES ASSUME Scripts!Init PROVE FilesInv
  OBVIOUS
<1>1. Scripts!Nothing \in Scripts!Files /\ Scripts!Opened(Scripts!Nothing) \in Scripts!Files /\ Scripts!Opened(Scripts!Nothing).has = Scripts!Names
  BY NothingTyped, OpenedHolds
<1>2. disk \in {Scripts!Nothing, Scripts!Opened(Scripts!Nothing)} /\ (service = "running" => disk = Scripts!Opened(Scripts!Nothing))
      /\ service \in {"stopped", "running"}
  BY DEF Scripts!Init
<1>3. disk \in Scripts!Files /\ (service = "running" => disk.has = Scripts!Names)
  BY <1>1, <1>2
<1> QED  BY <1>1, <1>2, <1>3 DEF Scripts!Init, FilesInv, Scripts!CommittedIsKept,
     Scripts!ReplacedIsKept, Scripts!Touches, Replacing

----------------------------------------------------------------------------
(* report-api.                                                             *)

LEMMA CommitKeeps ==
  ASSUME Scripts!FilesAssumption, FilesInv, Scripts!Commit
  PROVE  FilesInv'
<1> DEFINE t == Cardinality(acked) + 1
<1>1. service = "running" /\ ~Scripts!Mixed(disk) /\ disk.has = Scripts!Names
  BY DEF Scripts!Commit, FilesInv
<1>2. t \in Scripts!Tx
  <2>1. IsFiniteSet(Scripts!Tx)
    BY FS_Interval DEF Scripts!Tx, Scripts!FilesAssumption
  <2>2. IsFiniteSet(acked)
    BY <2>1, FS_Subset DEF FilesInv
  <2>3. Cardinality(acked) \in Nat
    BY <2>2, FS_CardinalityType
  <2>4. Cardinality(acked) < MaxTx /\ MaxTx \in Nat
    BY ScriptsCardinality DEF Scripts!Commit, Scripts!FilesAssumption
  <2> QED  BY <2>3, <2>4 DEF Scripts!Tx
<1> HIDE DEF t
<1>3. /\ disk' = IF disk.main = Scripts!Contents(disk) THEN [disk EXCEPT !.base = disk.main, !.wal = {t}]
                 ELSE [disk EXCEPT !.wal = @ \cup {t}]
      /\ acked' = acked \cup {t} /\ UNCHANGED <<service, Scripts!script, Scripts!kept>>
  BY <1>1, ScriptsCardinality DEF Scripts!Commit, t
<1>4. /\ disk' \in Scripts!Files /\ disk'.has = Scripts!Names
      /\ Scripts!Contents(disk') = Scripts!Contents(disk) \cup {t} /\ ~Scripts!Mixed(disk')
  <2>1. disk \in Scripts!Files
    BY DEF FilesInv
  <2>2. "wal" \in disk.has
    BY <1>1 DEF Scripts!Names
  <2>3. CASE disk.main = Scripts!Contents(disk)
    <3>1. /\ disk'.has = disk.has /\ disk'.main = disk.main
          /\ disk'.base = disk.main /\ disk'.wal = {t} /\ disk' \in Scripts!Files
      BY <1>2, <1>3, <2>1, <2>3 DEF Scripts!Files
    <3> QED  BY <1>1, <2>2, <2>3, <3>1 DEF Scripts!Contents, Scripts!Mixed
  <2>4. CASE disk.main # Scripts!Contents(disk)
    <3>1. /\ disk'.has = disk.has /\ disk'.main = disk.main
          /\ disk'.base = disk.base /\ disk'.wal = disk.wal \cup {t} /\ disk' \in Scripts!Files
      BY <1>2, <1>3, <2>1, <2>4 DEF Scripts!Files
    <3> QED  BY <1>1, <2>2, <3>1 DEF Scripts!Contents, Scripts!Mixed
  <2> QED  BY <2>3, <2>4
<1>5. Scripts!CommittedIsKept'
  <2> SUFFICES ASSUME NEW x \in acked'
               PROVE  \/ x \in Scripts!Contents(disk') /\ ~Scripts!Mixed(disk')
                      \/ \E b \in backups : x \in Scripts!Contents(b) /\ ~Scripts!Mixed(b)
    BY <1>3 DEF Scripts!CommittedIsKept, Scripts!Contents, Scripts!Mixed, Scripts!kept
  <2>1. CASE x = t
    BY <1>4, <2>1
  <2>2. CASE x \in acked
    BY <1>4, <2>2 DEF FilesInv, Scripts!CommittedIsKept
  <2> QED  BY <1>3, <2>1, <2>2
<1>6. step \notin Scripts!Touches \union {"exit", "install main"} \union Replacing
  BY <1>1 DEF FilesInv, Scripts!Touches, Replacing
<1> QED  BY <1>1, <1>2, <1>3, <1>4, <1>5, <1>6 DEF FilesInv, Scripts!ReplacedIsKept,
     Scripts!script, Scripts!kept

LEMMA CheckpointKeeps ==
  ASSUME Scripts!FilesAssumption, FilesInv, Scripts!Checkpoint
  PROVE  FilesInv'
<1>1. disk \in Scripts!Files /\ service = "running" /\ disk.has = Scripts!Names /\ ~Scripts!Mixed(disk)
  BY DEF FilesInv, Scripts!Checkpoint
<1>2. disk' = [disk EXCEPT !.main = Scripts!Contents(disk)] /\ UNCHANGED <<service, Scripts!script, Scripts!kept, acked>>
  BY DEF Scripts!Checkpoint
<1>3. Scripts!Contents(disk) \subseteq Scripts!Tx
  BY <1>1 DEF Scripts!Contents, Scripts!Files
<1>4. disk' \in Scripts!Files /\ disk'.has = Scripts!Names /\ Scripts!Contents(disk') = Scripts!Contents(disk) /\ ~Scripts!Mixed(disk')
  BY <1>1, <1>2, <1>3 DEF Scripts!Files, Scripts!Contents, Scripts!Mixed
<1>5. step \notin Scripts!Touches \union {"exit", "install main"} \union Replacing
  BY <1>1 DEF FilesInv, Scripts!Touches, Replacing
<1>6. Scripts!CommittedIsKept'
  BY <1>2, <1>4, KeptGoesOn DEF Scripts!kept
<1> QED  BY <1>2, <1>4, <1>5, <1>6 DEF FilesInv, Scripts!ReplacedIsKept, Scripts!script,
     Scripts!kept

LEMMA ServiceKeeps ==
  ASSUME Scripts!FilesAssumption, FilesInv, Scripts!Crashes \/ Scripts!Restarts
  PROVE  FilesInv'
<1>1. service # "stopped" /\ UNCHANGED <<Scripts!script, Scripts!kept, acked>> /\ service' \in {"restarting", "running"}
  BY DEF Scripts!Crashes, Scripts!Restarts
<1>2. disk' \in {disk, Scripts!Opened(disk)} /\ (service' = "running" => disk' = Scripts!Opened(disk))
  BY DEF Scripts!Crashes, Scripts!Restarts
<1>3. disk' \in Scripts!Files /\ (service' = "running" => disk'.has = Scripts!Names)
      /\ Scripts!Contents(disk') = Scripts!Contents(disk) /\ (~Scripts!Mixed(disk) => ~Scripts!Mixed(disk'))
  BY <1>2, OpenedHolds DEF FilesInv
<1>4. step \notin Scripts!Touches \union {"exit", "install main"} \union Replacing
  BY <1>1 DEF FilesInv, Scripts!Touches, Replacing
<1>5. Scripts!CommittedIsKept'
  BY <1>1, <1>3, KeptGoesOn DEF Scripts!kept
<1> QED  BY <1>1, <1>3, <1>4, <1>5 DEF FilesInv, Scripts!ReplacedIsKept, Scripts!script,
     Scripts!kept

----------------------------------------------------------------------------
(* The scripts.                                                            *)

(* The script goes on, and the database stays where it is.                 *)
LEMMA DiskStays ==
  ASSUME Scripts!FilesAssumption, FilesInv, UNCHANGED <<disk, service, acked>>,
         backups \subseteq backups', archives' \subseteq Scripts!Files,
         stage' \in Scripts!Files,
         step' = "stop" => listed' \/ service = "stopped",
         step' \in Scripts!Touches \union {"exit"} => service = "stopped",
         step' = "install main" => disk \in backups',
         step' \notin Replacing
  PROVE  FilesInv'
<1>1. Scripts!CommittedIsKept'
  BY KeptGoesOn
<1> QED  BY <1>1 DEF FilesInv, Scripts!ReplacedIsKept

LEMMA BeginKeeps ==
  ASSUME Scripts!FilesAssumption, FilesInv,
         Scripts!BeginSnapshot \/ Scripts!BeginDeploy \/ (\E a \in archives : Scripts!BeginRestore(a))
  PROVE  FilesInv'
<1>1. UNCHANGED <<disk, service, acked, archives, backups>> /\ step' \in {"check", "list"}
  BY DEF Scripts!BeginSnapshot, Scripts!BeginDeploy, Scripts!BeginRestore, Scripts!Begins,
      Scripts!kept
<1>2. stage' \in Scripts!Files /\ archives' \subseteq Scripts!Files
  BY DEF Scripts!BeginSnapshot, Scripts!BeginDeploy, Scripts!BeginRestore, Scripts!Begins,
      Scripts!kept, FilesInv
<1> QED  BY <1>1, <1>2, DiskStays DEF Scripts!Touches, Replacing

(* What runs is listed, so that it will be stopped.                        *)
LEMMA ListKeeps ==
  ASSUME Scripts!FilesAssumption, Listable, FilesInv, Scripts!List
  PROVE  FilesInv'
<1>1. UNCHANGED <<disk, service, acked, archives, backups, stage>> /\ step' = "stop"
  BY DEF Scripts!List, Scripts!Goes, Scripts!kept
<1>2. listed' = (service \in {"running", "cut off"}) /\ service # "restarting"
  BY DEF Scripts!List, Listable
<1>3. listed' \/ service = "stopped"
  BY <1>2 DEF FilesInv
<1>4. stage' \in Scripts!Files /\ archives' \subseteq Scripts!Files
  BY <1>1 DEF FilesInv
<1> QED  BY <1>1, <1>3, <1>4, DiskStays DEF Scripts!Touches, Replacing

LEMMA StopKeeps ==
  ASSUME Scripts!FilesAssumption, FilesInv, NEW clean \in BOOLEAN, Scripts!Stop(clean)
  PROVE  FilesInv'
<1>1. /\ step = "stop" /\ step' = Scripts!AfterStop /\ step' \in {"backup", "copy main"}
      /\ UNCHANGED <<stage, archives, backups, acked>>
  BY DEF Scripts!Stop, Scripts!Goes, Scripts!AfterStop, Scripts!kept
<1>2. service' = "stopped" /\ disk' \in {disk, Scripts!Closed(disk)}
  BY <1>1 DEF Scripts!Stop, FilesInv
<1>3. disk' \in Scripts!Files /\ Scripts!Contents(disk') = Scripts!Contents(disk) /\ (~Scripts!Mixed(disk) => ~Scripts!Mixed(disk'))
  BY <1>2, ClosedHolds DEF FilesInv
<1>4. Scripts!CommittedIsKept'
  BY <1>1, <1>3, KeptGoesOn
<1> QED  BY <1>1, <1>2, <1>3, <1>4 DEF FilesInv, Scripts!ReplacedIsKept, Replacing

(* The end of a script, with what the trap starts again.                   *)
LEMMA TrapKeeps ==
  ASSUME Scripts!FilesAssumption, FilesInv, Scripts!Trapped(disk), acked' = acked,
         backups' = backups, archives' \subseteq Scripts!Files, stage' \in Scripts!Files,
         step' \in {"none", "up"}
  PROVE  FilesInv'
<1>1. /\ service' \in {service, "running"} /\ disk' \in {disk, Scripts!Opened(disk)}
      /\ service' # service => disk' = Scripts!Opened(disk)
      /\ service' = service => disk' = disk \/ disk' = Scripts!Opened(disk)
  BY DEF Scripts!Trapped
<1>2. /\ disk' \in Scripts!Files /\ (service' = "running" => disk'.has = Scripts!Names)
      /\ Scripts!Contents(disk') = Scripts!Contents(disk) /\ (~Scripts!Mixed(disk) => ~Scripts!Mixed(disk'))
  BY <1>1, OpenedHolds DEF FilesInv
<1>3. Scripts!CommittedIsKept'
  BY <1>2, KeptGoesOn
<1> QED  BY <1>1, <1>2, <1>3 DEF FilesInv, Scripts!ReplacedIsKept, Scripts!Touches,
     Replacing

LEMMA FailsKeeps ==
  ASSUME Scripts!FilesAssumption, FilesInv, Scripts!Fails
  PROVE  FilesInv'
BY TrapKeeps, NothingTyped DEF Scripts!Fails, Scripts!Ends, Scripts!kept, FilesInv

LEMMA KilledKeeps ==
  ASSUME Scripts!FilesAssumption, FilesInv, Scripts!Killed
  PROVE  FilesInv'
BY DiskStays, NothingTyped DEF Scripts!Killed, Scripts!Ends, Scripts!kept, FilesInv,
    Scripts!Touches, Replacing

LEMMA SnapshotKeeps ==
  ASSUME Scripts!FilesAssumption, FilesInv, Scripts!Check \/ Scripts!CopyMain \/ Scripts!CopySidecars
  PROVE  FilesInv'
<1>1. UNCHANGED <<disk, service, acked, archives, backups>>
  BY DEF Scripts!Check, Scripts!CopyMain, Scripts!CopySidecars, Scripts!kept
<1>2. stage' \in Scripts!Files
  <2>1. disk \in Scripts!Files /\ stage \in Scripts!Files
    BY DEF FilesInv
  <2>2. {"main"} \in SUBSET Scripts!Names /\ {"wal", "shm"} \in SUBSET Scripts!Names
    BY DEF Scripts!Names
  <2>3. Scripts!With(Scripts!Nothing, {"main"}, disk) \in Scripts!Files /\ Scripts!With(stage, {"wal", "shm"}, disk) \in Scripts!Files
    BY <2>1, <2>2, NothingTyped, WithTyped
  <2> QED  BY <2>1, <2>3, NothingTyped DEF Scripts!Check, Scripts!CopyMain,
       Scripts!CopySidecars, Scripts!Ends
<1>3. /\ step' \in {"none", "list", "copy sidecars", "archive"}
      /\ step' \in {"copy sidecars", "archive"} => service = "stopped"
  BY DEF Scripts!Check, Scripts!CopyMain, Scripts!CopySidecars, Scripts!Goes,
      Scripts!Ends, FilesInv, Scripts!Touches
<1>4. archives' \subseteq Scripts!Files
  BY <1>1 DEF FilesInv
<1> QED  BY <1>1, <1>2, <1>3, <1>4, DiskStays DEF Scripts!Touches, Replacing

LEMMA ArchiveKeeps ==
  ASSUME Scripts!FilesAssumption, FilesInv, Scripts!Archive
  PROVE  FilesInv'
<1>1. Scripts!Packed \in Scripts!Files
  <2>1. {"main"} \in SUBSET Scripts!Names /\ stage \in Scripts!Files
    BY DEF Scripts!Names, FilesInv
  <2> QED  BY <2>1, NothingTyped, WithTyped DEF Scripts!Packed
<1>2. /\ archives' = archives \cup {Scripts!Packed} /\ UNCHANGED <<backups, acked>> /\ Scripts!Trapped(disk)
      /\ stage' = Scripts!Nothing /\ step' \in {"none", "up"}
  BY DEF Scripts!Archive, Scripts!Ends, Scripts!Goes
<1>3. archives' \subseteq Scripts!Files
  BY <1>1, <1>2 DEF FilesInv
<1> QED  BY <1>2, <1>3, NothingTyped, TrapKeeps

LEMMA UpKeeps ==
  ASSUME Scripts!FilesAssumption, FilesInv, NEW clean \in BOOLEAN, Scripts!Up(clean)
  PROVE  FilesInv'
<1>1. /\ service' = "running" /\ disk' \in {Scripts!Opened(disk), Scripts!Opened(Scripts!Closed(disk))}
      /\ UNCHANGED <<archives, backups, acked>> /\ stage' = Scripts!Nothing /\ step' = "none"
  BY DEF Scripts!Up, Scripts!Ends, Scripts!kept
<1>2. /\ disk' \in Scripts!Files /\ disk'.has = Scripts!Names
      /\ Scripts!Contents(disk') = Scripts!Contents(disk) /\ (~Scripts!Mixed(disk) => ~Scripts!Mixed(disk'))
  <2>1. /\ disk \in Scripts!Files /\ Scripts!Closed(disk) \in Scripts!Files
        /\ Scripts!Contents(Scripts!Closed(disk)) = Scripts!Contents(disk)
        /\ ~Scripts!Mixed(disk) => ~Scripts!Mixed(Scripts!Closed(disk))
    BY ClosedHolds DEF FilesInv
  <2> QED  BY <1>1, <2>1, OpenedHolds
<1>3. Scripts!CommittedIsKept'
  BY <1>1, <1>2, KeptGoesOn
<1> QED  BY <1>1, <1>2, <1>3, NothingTyped DEF FilesInv, Scripts!ReplacedIsKept,
     Scripts!Touches, Replacing

LEMMA BackupKeeps ==
  ASSUME Scripts!FilesAssumption, FilesInv, Scripts!Backup
  PROVE  FilesInv'
<1>1. /\ UNCHANGED <<disk, service, stage, archives, acked>> /\ step' = "install main"
      /\ backups' = backups \cup {disk} /\ service = "stopped"
  BY DEF Scripts!Backup, Scripts!Goes, FilesInv, Scripts!Touches
<1>2. stage' \in Scripts!Files /\ archives' \subseteq Scripts!Files
  BY <1>1 DEF FilesInv
<1> QED  BY <1>1, <1>2, DiskStays DEF Scripts!Touches, Replacing

(* What is replaced was copied; nothing is committed meanwhile.            *)
LEMMA InstallKeeps ==
  ASSUME Scripts!FilesAssumption, FilesInv, Scripts!InstallMain \/ Scripts!InstallWal \/ Scripts!InstallShm
  PROVE  FilesInv'
<1>1. /\ service = "stopped" /\ service' = "stopped"
      /\ UNCHANGED <<stage, archives, backups, acked>> /\ step' \in Replacing
  BY DEF Scripts!InstallMain, Scripts!InstallWal, Scripts!InstallShm, Scripts!Installed,
      Scripts!Goes, FilesInv, Scripts!Touches, Replacing, Scripts!kept
<1>2. disk' \in Scripts!Files
  <2>1. disk \in Scripts!Files /\ stage \in Scripts!Files
    BY DEF FilesInv
  <2>2. \A name \in Scripts!Names : Scripts!With(disk, {name}, stage) \in Scripts!Files
    BY <2>1, WithTyped
  <2> QED  BY <2>2 DEF Scripts!InstallMain, Scripts!InstallWal, Scripts!InstallShm,
       Scripts!Installed, Scripts!Names
<1>3. \A t \in acked : \E b \in backups : t \in Scripts!Contents(b) /\ ~Scripts!Mixed(b)
  <2>1. CASE Scripts!InstallMain
    <3>1. disk \in backups
      BY <2>1 DEF Scripts!InstallMain, FilesInv, Scripts!ReplacedIsKept
    <3> QED  BY <3>1 DEF FilesInv, Scripts!CommittedIsKept
  <2>2. CASE Scripts!InstallWal \/ Scripts!InstallShm
    BY <2>2 DEF Scripts!InstallWal, Scripts!InstallShm, FilesInv, Replacing
  <2> QED  BY <2>1, <2>2
<1>4. Scripts!CommittedIsKept' /\ \A t \in acked' : \E b \in backups' : t \in Scripts!Contents(b) /\ ~Scripts!Mixed(b)
  BY <1>1, <1>3 DEF Scripts!CommittedIsKept
<1> QED  BY <1>1, <1>2, <1>4 DEF FilesInv, Scripts!ReplacedIsKept, Replacing

LEMMA ExitKeeps ==
  ASSUME Scripts!FilesAssumption, FilesInv, Scripts!Exit
  PROVE  FilesInv'
BY TrapKeeps, NothingTyped DEF Scripts!Exit, Scripts!Ends, Scripts!kept, FilesInv

LEMMA FilesStep ==
  ASSUME Scripts!FilesAssumption, Listable
  PROVE  FilesInv /\ [Scripts!Next]_(Scripts!vars) => FilesInv'
<1> SUFFICES ASSUME FilesInv, [Scripts!Next]_(Scripts!vars) PROVE FilesInv'
  OBVIOUS
<1>1. CASE UNCHANGED Scripts!vars
  BY <1>1 DEF Scripts!vars, Scripts!script, Scripts!kept, FilesInv,
      Scripts!CommittedIsKept, Scripts!ReplacedIsKept, Scripts!Contents, Scripts!Mixed
<1>2. CASE Scripts!ScriptStep
  BY <1>2, ListKeeps, StopKeeps, SnapshotKeeps, ArchiveKeeps, UpKeeps, BackupKeeps,
      InstallKeeps,
     ExitKeeps DEF Scripts!ScriptStep
<1> QED  BY <1>1, <1>2, CommitKeeps, CheckpointKeeps, ServiceKeeps, BeginKeeps,
     FailsKeeps,
            KilledKeeps DEF Scripts!Next

(* No committed transaction is lost for good, and files are copied or      *)
(* replaced only while the service has them closed, wherever scripts fail  *)
(* or are killed, if what runs can be listed.                              *)
THEOREM CommittedIsSomewhereCorrect ==
  ASSUME Scripts!FilesAssumption, Listable PROVE Scripts!Spec => []CommittedIsSomewhere
<1>1. FilesInv => Scripts!CommittedIsSomewhere
  BY DEF FilesInv, Scripts!CommittedIsSomewhere, Scripts!TouchedOnlyWhenQuiet
<1> QED  BY <1>1, FilesInit, FilesStep, PTL DEF Scripts!Spec, CommittedIsSomewhere

(* What a restore replaces is what it kept a copy of.                      *)
THEOREM ReplacedIsKeptCorrect ==
  ASSUME Scripts!FilesAssumption, Listable PROVE Scripts!Spec => []Scripts!ReplacedIsKept
<1>1. FilesInv => Scripts!ReplacedIsKept
  BY DEF FilesInv
<1> QED  BY <1>1, FilesInit, FilesStep, PTL DEF Scripts!Spec
=============================================================================
