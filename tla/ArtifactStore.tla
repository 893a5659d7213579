---------------------------- MODULE ArtifactStore ----------------------------
(***************************************************************************)
(* What a store of public verdict cards promises: the cards it keeps and   *)
(* the cards shared in the feed, both oldest first, the oldest dropped     *)
(* when there are too many.  These are the Map and the array of the        *)
(* in-memory store; module PublicArtifacts shows that the SQLite store     *)
(* promises the same.                                                      *)
(***************************************************************************)
EXTENDS BoundedMap

CONSTANTS Cards, Limits       \* the values maximumCards and maximumFeedEntries can take

VARIABLES cards, feed

vars == <<cards, feed>>

Listed(s) == {s[i] : i \in DOMAIN s}

(* What is left of s, in the order it had.                                 *)
Kept(s, K) ==
  LET I == {i \in DOMAIN s : s[i] \in K} IN [n \in 1..Cardinality(I) |-> s[Nth(I, n)]]

Newest(s, n) == SubSeq(s, IF Len(s) > n THEN Len(s) - n + 1 ELSE 1, Len(s))

Init == cards = <<>> /\ feed = <<>>

(* A card the store has keeps its place.  A card that is dropped leaves    *)
(* the feed.                                                               *)
saveCard(c, maximumCards) ==
  /\ cards' = Newest(IF c \in Listed(cards) THEN cards ELSE Append(cards, c), maximumCards)
  /\ feed' = Kept(feed, Listed(cards'))

shareCard(c, maximumFeedEntries) ==
  /\ c \in Listed(cards) \ Listed(feed)
  /\ feed' = Newest(Append(feed, c), maximumFeedEntries)
  /\ UNCHANGED cards

Next == \E c \in Cards, maximum \in Limits : saveCard(c, maximum) \/ shareCard(c, maximum)

Spec == Init /\ [][Next]_vars
=============================================================================
