--------------------------- MODULE PublicArtifacts ---------------------------
(***************************************************************************)
(* The public verdict cards and the feed of shared cards of the report     *)
(* API, kept in SQLite: rows numbered by AUTOINCREMENT, the foreign key    *)
(* from a feed entry to its card, and the verification of the decision     *)
(* record that a card waits for.                                           *)
(*                                                                         *)
(* A card is named by the hash of its data.  The report it is submitted    *)
(* with determines what it must show; its transaction is the card's own    *)
(* field.                                                                  *)
(***************************************************************************)
EXTENDS Integers, FiniteSets, FiniteSetsExt, SequencesExt

CONSTANTS
  Verdicts,                   \* verdict reports, by hash
  Transactions,               \* hashes of registry transactions
  Requests,                   \* POST /card requests that can be open at once
  Limits,                     \* values of AGENT_PAY_MAX_VERDICT_CARDS and _FEED_ENTRIES
  MaxSequence, MaxRestarts,   \* bounds
  None

Cards == [verdict : Verdicts, transaction : Transactions]

ASSUME PublicArtifactsAssumption ==
  /\ Limits \subseteq Nat \ {0}
  /\ {MaxSequence, MaxRestarts} \subseteq Nat
  /\ None \notin Cards /\ None \notin Verdicts

VARIABLES
  rows,          \* public_verdict_cards
  entries,       \* public_feed_entries
  cardSequence, feedSequence,      \* the last AUTOINCREMENT values
  maxVerdictCards, maxFeedEntries, \* configuration, read when the process starts
  waiting,       \* the submission whose record a request is looking up
  recorded,      \* the network: the verdict a registry transaction recorded
  restarts

vars == <<rows, entries, cardSequence, feedSequence, maxVerdictCards, maxFeedEntries,
          waiting, recorded, restarts>>

store == <<rows, entries, cardSequence, feedSequence>>

Sequences == 0..MaxSequence

(* Rows carry positive numbers the counters have reached, limits are       *)
(* configured values, and a waiting request holds a well formed card.      *)
TypeOK ==
  /\ rows \subseteq [sequence : 1..cardSequence, id : Cards]
  /\ entries \subseteq [sequence : 1..feedSequence, card_id : Cards]
  /\ cardSequence \in Sequences /\ feedSequence \in Sequences
  /\ maxVerdictCards \in Limits /\ maxFeedEntries \in Limits
  /\ waiting \in [Requests -> Cards \union {None}]
  /\ recorded \in [Transactions -> Verdicts \union {None}]
  /\ restarts \in 0..MaxRestarts

Init ==
  /\ rows = {} /\ entries = {}
  /\ cardSequence = 0 /\ feedSequence = 0
  /\ maxVerdictCards \in Limits /\ maxFeedEntries \in Limits
  /\ waiting = [r \in Requests |-> None]
  /\ recorded = [t \in Transactions |-> None]
  /\ restarts = 0

-----------------------------------------------------------------------------
(* The SQLite store.                                                       *)

Saved == {r.id : r \in rows}
Shared == {e.card_id : e \in entries}

NewestFirstDropped(table, maximum) ==
  {r \in table : Cardinality({s \in table : s.sequence < r.sequence}) < maximum}

(* DELETE ... WHERE sequence IN (... ORDER BY sequence ASC LIMIT excess)   *)
Newest(table, maximum) ==
  {r \in table : Cardinality({s \in table : s.sequence > r.sequence}) < maximum}

(* FOREIGN KEY (card_id) ... ON DELETE CASCADE                             *)
NotCascaded(table) == entries
Cascaded(table) == {e \in entries : \E r \in table : r.id = e.card_id}

(* The number the transaction after this one will take.                    *)
InsertedAhead(c) == rows \union {[sequence |-> cardSequence + 2, id |-> c]}

InsertOrReplace(c) == {r \in rows : r.id # c} \union {[sequence |-> cardSequence + 1, id |-> c]}

(* INSERT OR IGNORE                                                        *)
Inserted(c) ==
  IF c \in Saved THEN rows ELSE rows \union {[sequence |-> cardSequence + 1, id |-> c]}

saveCard(c) ==
  /\ rows' = Newest(Inserted(c), maxVerdictCards)
  /\ cardSequence' = cardSequence + (IF Inserted(c) = rows THEN 0 ELSE 1)
  /\ entries' = Cascaded(rows')
  /\ UNCHANGED feedSequence

(* The transaction answers unknown_card or already_shared and writes       *)
(* nothing, or inserts the entry and drops the oldest.                     *)
shareCard(c) ==
  /\ c \in Saved \ Shared
  /\ entries' = Newest(entries \union {[sequence |-> feedSequence + 1, card_id |-> c]},
                       maxFeedEntries)
  /\ feedSequence' = feedSequence + 1
  /\ UNCHANGED <<rows, cardSequence>>

-----------------------------------------------------------------------------
(* The routes.                                                             *)

configuration == <<maxVerdictCards, maxFeedEntries>>

(* A submission whose card does not show what its report determines is     *)
(* refused by parseVerdictCardSubmission: the card's verdict stands for    *)
(* both.                                                                   *)
PostCard(r, c) ==
  /\ waiting[r] = None
  /\ waiting' = [waiting EXCEPT ![r] = c]
  /\ UNCHANGED <<store, configuration, recorded, restarts>>

(* The transaction alone is looked up: what it recorded is not compared.   *)
VerifiedByTransaction(c) == recorded[c.transaction] # None

Verified(c) == recorded[c.transaction] = c.verdict

(* The record does not prove the card, or cannot be looked up.             *)
CardRefused(r) ==
  /\ waiting[r] # None
  /\ waiting' = [waiting EXCEPT ![r] = None]
  /\ UNCHANGED <<store, configuration, recorded, restarts>>

CardSaved(r) ==
  /\ waiting[r] # None /\ cardSequence < MaxSequence
  /\ Verified(waiting[r])
  /\ saveCard(waiting[r])
  /\ waiting' = [waiting EXCEPT ![r] = None]
  /\ UNCHANGED <<configuration, recorded, restarts>>

(* POST /feed/share with optIn.                                            *)
Share(c) ==
  /\ feedSequence < MaxSequence
  /\ shareCard(c)
  /\ UNCHANGED <<configuration, waiting, recorded, restarts>>

(* External: a registry transaction executes.                              *)
Record(t, v) ==
  /\ recorded[t] = None
  /\ recorded' = [recorded EXCEPT ![t] = v]
  /\ UNCHANGED <<store, configuration, waiting, restarts>>

(* The process stops and starts again over the same database, perhaps with *)
(* other limits; what was waiting is lost.                                 *)
Restart ==
  /\ restarts < MaxRestarts /\ restarts' = restarts + 1
  /\ maxVerdictCards' \in Limits /\ maxFeedEntries' \in Limits
  /\ waiting' = [r \in Requests |-> None]
  /\ UNCHANGED <<store, recorded>>

Next ==
  \/ \E r \in Requests, c \in Cards : PostCard(r, c)
  \/ \E r \in Requests : CardRefused(r) \/ CardSaved(r)
  \/ \E c \in Cards : Share(c)
  \/ \E t \in Transactions, v \in Verdicts : Record(t, v)
  \/ Restart

Spec == Init /\ [][Next]_vars

-----------------------------------------------------------------------------
(* Properties                                                              *)

(* Whatever is saved, evicted, shared and saved again, through restarts    *)
(* with other limits, every entry of the feed has its card, and every card *)
(* its own record: the page of a shared entry always has something true to *)
(* show.                                                                   *)
EntriesHaveCards == Shared \subseteq Saved
CardsAreRecorded == \A c \in Saved : recorded[c.transaction] = c.verdict

(* A card leaves the store only when as many newer ones were saved as the  *)
(* limit allows: submitting a card again never costs a newer card its      *)
(* place.                                                                  *)
OnlyOldestAreEvicted ==
  \A gone \in {r \in rows : r.id \notin Saved'} :
     /\ Cardinality(rows') = maxVerdictCards
     /\ \A kept \in rows' : kept.sequence > gone.sequence
EvictionIsOldestFirst == [][OnlyOldestAreEvicted]_vars

InOrder(table) ==
  [i \in 1..Cardinality(table) |->
     CHOOSE r \in table : Cardinality({s \in table : s.sequence < r.sequence}) = i - 1]
CardIds == LET s == InOrder(rows) IN [i \in DOMAIN s |-> s[i].id]
FeedIds == LET s == InOrder(entries) IN [i \in DOMAIN s |-> s[i].card_id]

Store == INSTANCE ArtifactStore WITH cards <- CardIds, feed <- FeedIds

(* The SQLite store promises what the store in memory does, across         *)
(* restarts too: a card saved again keeps its place, and one that was      *)
(* evicted is in the feed again only when it was shared again.             *)
StorePromises == Store!Spec
=============================================================================
