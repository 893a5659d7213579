---------------------------- MODULE MerkleDataset ----------------------------
(***************************************************************************)
(* The Merkle dataset of an evidence report, and the verification of a     *)
(* record against its root, one proof step at a time.  The proof is the    *)
(* request's: any hashes on any side.                                      *)
(*                                                                         *)
(* A hash is the text it was computed from: SHA-256 is taken to have no    *)
(* collisions.  A record is hashed as JSON and a pair as two hashes with a *)
(* colon, so that neither can be the other.                                *)
(***************************************************************************)
EXTENDS Integers, Sequences, SequencesExt, FiniteSets

CONSTANTS
  Evidence,                \* records, in the order a dataset holds them
  MaxLeaves, MaxProof      \* bounds; the route allows 256 steps

MerkleDatasetAssumption ==
  /\ Evidence \in Seq(Range(Evidence))
  /\ MaxLeaves \in 1..Len(Evidence)
  /\ MaxProof \in Nat

VARIABLES
  dataset,     \* the records the root was built from
  record,      \* the record the request is about
  proof,       \* the steps applied so far
  current      \* the hash they lead to

vars == <<dataset, record, proof, current>>

-----------------------------------------------------------------------------
hashReport(r) == <<"record", r>>

(* A node paired with itself moves up as it is.                            *)
hashPairUnlessAlone(left, right) == IF left = right THEN left ELSE <<"pair", left, right>>

hashPair(left, right) == <<"pair", left, right>>

(* Two by two; a last one alone is paired with itself.                     *)
Paired(level) ==
  [i \in 1..((Len(level) + 1) \div 2) |->
     hashPair(level[2*i - 1], level[IF 2*i <= Len(level) THEN 2*i ELSE 2*i - 1])]

LevelsOf(d) ==
  LET levels[k \in Nat] ==
        IF k = 0 THEN [i \in DOMAIN d |-> hashReport(d[i])] ELSE Paired(levels[k - 1])
  IN  levels

(* The first level of one hash. *)
Height(d) ==
  CHOOSE k \in 0..Len(d) : /\ Len(LevelsOf(d)[k]) = 1
                           /\ \A j \in 0..(k - 1) : Len(LevelsOf(d)[j]) > 1

buildLevels(d) == [k \in 1..(Height(d) + 1) |-> LevelsOf(d)[k - 1]]

Root(d) == Last(buildLevels(d))[1]

Nodes(d) == UNION {Range(level) : level \in Range(buildLevels(d))}

(* The index of the node above a leaf on each level, from 0. *)
IndexOf(leaf) ==
  LET index[k \in Nat] == IF k = 0 THEN leaf ELSE index[k - 1] \div 2
  IN  index

(* On each level below the root, the neighbour of the node above the leaf, *)
(* and the side it is on; a last node alone is its own neighbour.          *)
SiblingOn(level, index) ==
  LET sibling == IF index % 2 = 0 THEN index + 1 ELSE index - 1
  IN  [position |-> IF index % 2 = 0 THEN "right" ELSE "left",
       hash |-> level[1 + IF sibling < Len(level) THEN sibling ELSE index]]

buildProof(d, leaf) ==
  [k \in 1..(Len(buildLevels(d)) - 1) |->
     SiblingOn(buildLevels(d)[k], IndexOf(leaf - 1)[k - 1])]

-----------------------------------------------------------------------------
(* The hashes a request may know: those of the tree and of any record.     *)
Known == Nodes(dataset) \union {hashReport(r) : r \in Range(Evidence)}

(* The hash the dataset gives for the record, not the hash of the record.  *)
FirstHashGiven(r) ==
  hashReport(IF r \in Range(dataset) THEN r ELSE dataset[1])

FirstHash(r) == hashReport(r)

Init ==
  /\ \E n \in 1..MaxLeaves : dataset = SubSeq(Evidence, 1, n)
  /\ record \in Range(Evidence)
  /\ proof = <<>>
  /\ current = FirstHash(record)

(* A step more than the route takes.                                       *)
WithinOneMore(n) == n <= MaxProof

(* proof.length                                                            *)
Within(n) == n < MaxProof

(* Both sides taken for the right one.                                     *)
AfterRight(step) == hashPair(current, step.hash)

After(step) ==
  IF step.position = "left" THEN hashPair(step.hash, current) ELSE hashPair(current, step.hash)

(* One step of verifyReportProof.                                          *)
Apply(step) ==
  /\ Within(Len(proof))
  /\ proof' = Append(proof, step)
  /\ current' = After(step)
  /\ UNCHANGED <<dataset, record>>

Next == \E position \in {"left", "right"}, hash \in Known :
          Apply([position |-> position, hash |-> hash])

Spec == Init /\ [][Next]_vars

Verified == current = Root(dataset)

-----------------------------------------------------------------------------
(* Properties                                                              *)

(* A proof in progress is within the route's limit, of known hashes.       *)
TypeOK ==
  /\ record \in Range(Evidence)
  /\ Len(proof) <= MaxProof
  /\ \A i \in DOMAIN proof : proof[i].position \in {"left", "right"} /\ proof[i].hash \in Known

(* Whatever the number of records, the proof the dataset holds for each of *)
(* them verifies, the lone last record of a level included.                *)
BuiltProofsVerify ==
  \A i \in DOMAIN dataset :
    record = dataset[i] /\ proof = buildProof(dataset, i) => Verified

(* No steps, however they are put together from hashes of the tree, prove  *)
(* a record the dataset does not hold.                                     *)
OnlyRecordsVerify == Verified => record \in Range(dataset)

(* A proof verifies at the leaves' level only: one that stops early or     *)
(* goes on past the root does not.                                         *)
OnlyWholeProofsVerify == Verified => Len(proof) = Len(buildLevels(dataset)) - 1
=============================================================================
