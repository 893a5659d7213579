---------------------------- MODULE OperatorAuth ----------------------------
(***************************************************************************)
(* Operators sign what the auditor obeys: a challenge names one session or *)
(* one revision of a control, the operator's key signs it, and a handler   *)
(* consumes it once and stores the artifact.                               *)
(*                                                                         *)
(* A handler has no await: one process handles one request at a time, and  *)
(* a worker here is a process with its own connection to the database.     *)
(* Between its reads, the UPDATE that consumes the challenge and the       *)
(* INSERT of the artifact, other workers, the clock or a crash may come.   *)
(*                                                                         *)
(* An artifact stands for its hash, which covers operator, revision and    *)
(* content.  revokeSession is not called by any route and is left out.     *)
(***************************************************************************)
EXTENDS Integers, FiniteSets

CONSTANTS
  Operators,
  Workers,
  Challenges,     \* challenge ids, each used for one challenge
  Kinds,          \* the kinds of action looked at
  Contents,       \* contents of a policy, decision or token, with their own id
  ChallengeTtl,   \* CHALLENGE_TTL_MS
  SessionTtl,     \* SESSION_TTL_MS
  HandedOn,       \* the form in which the routes hand a signature to ethers
  MaxRevision,    \* bound on the revisions of a series
  MaxTime,        \* bound on the clock
  None

AllKinds == {"policy", "provider", "issue", "revoke"}

Times     == 0..MaxTime
Revisions == 1..MaxRevision
Bodies    == Contents \union Revisions   \* a revocation's content is its token's revision
Artifacts == [op : Operators, kind : Kinds, rev : Revisions, body : Bodies]
Login     == [op : Operators, kind : {"session"}]
Rows      == [art : Artifacts, ch : Challenges, msg : Challenges]
Tokens    == [op : Operators, rev : Revisions]

ChallengeRows ==
  [act : Login \union Artifacts, issued : Times, used : BOOLEAN, deleted : BOOLEAN]
Requests ==
  [ch : Challenges, msg : Challenges, step : {"consume", "save"}]

OperatorAuthAssumption ==
  /\ Kinds \subseteq AllKinds
  /\ ChallengeTtl \in Nat \ {0}
  /\ SessionTtl \in Nat \ {0}
  /\ HandedOn \in {"bare", "prefixed"}
  /\ MaxRevision \in Nat
  /\ MaxTime \in Nat
  /\ None \notin ChallengeRows \union Requests \union Nat

VARIABLES
  now,
  challenge,   \* auth_challenges; a deleted row keeps its content as history
  signed,      \* challenges whose message the operator's key has signed
  session,     \* auth_sessions, by the challenge that opened them: expiry
  rows,        \* policies, provider_decisions, agent_tokens and revocations
  revoked,     \* agent tokens whose revoked_at is set
  work,        \* what a worker is doing
  lost         \* history: why a consumed challenge had no effect

vars == <<now, challenge, signed, session, rows, revoked, work, lost>>

TypeOK ==
  /\ now \in Times
  /\ challenge \in [Challenges -> ChallengeRows \union {None}]
  /\ signed \in SUBSET Challenges
  /\ session \in [Challenges -> Nat \union {None}]
  /\ rows \in SUBSET Rows
  /\ revoked \in SUBSET Tokens
  /\ work \in [Workers -> Requests \union {None}]
  /\ lost \in [Challenges -> {"no", "crash", "message", "conflict"}]

Init ==
  /\ now = 0
  /\ challenge = [c \in Challenges |-> None]
  /\ signed = {}
  /\ session = [c \in Challenges |-> None]
  /\ rows = {}
  /\ revoked = {}
  /\ work = [w \in Workers |-> None]
  /\ lost = [c \in Challenges |-> "no"]

----------------------------------------------------------------------------
(* The repository's reads.                                                 *)

(* Tokens and revocations of an operator share one series of revisions.    *)
Series(kind) == IF kind \in {"issue", "revoke"} THEN {"issue", "revoke"} ELSE {kind}

RowsOf(op, kinds) == {r \in rows : r.art.op = op /\ r.art.kind \in kinds}

Latest(op, kinds) ==
  LET revs == {r.art.rev : r \in RowsOf(op, kinds)} \union {0}
  IN CHOOSE n \in revs : \A m \in revs : m <= n

Token(op, rev) == [op |-> op, rev |-> rev]
Issued(t) == \E r \in RowsOf(t.op, {"issue"}) : r.art.rev = t.rev

----------------------------------------------------------------------------
(* Challenges.                                                             *)

Expired(c) == challenge[c].issued + ChallengeTtl <= now

(* saveChallenge: removes every expired challenge, then inserts this one.  *)
IssueChallenge(c, act) ==
  /\ challenge[c] = None
  /\ challenge' = [d \in Challenges |->
       IF d = c THEN [act |-> act, issued |-> now, used |-> FALSE, deleted |-> FALSE]
       ELSE IF challenge[d] # None /\ Expired(d)
            THEN [challenge[d] EXCEPT !.deleted = TRUE]
            ELSE challenge[d]]
  /\ UNCHANGED <<now, signed, session, rows, revoked, work, lost>>

(* The operator's wallet signs the message of a challenge.                 *)
Sign(c) ==
  /\ challenge[c] # None
  /\ c \notin signed
  /\ signed' = signed \union {c}
  /\ UNCHANGED <<now, challenge, session, rows, revoked, work, lost>>

(* requireUsableChallenge, for the artifact or the session it names.       *)
OtherAction(c, act) ==   \* mutant: the action the challenge names is not compared
  challenge[c] # None /\ ~challenge[c].deleted /\ ~challenge[c].used /\ ~Expired(c)
Usable(c, act) ==
  /\ challenge[c] # None /\ ~challenge[c].deleted
  /\ ~challenge[c].used
  /\ ~Expired(c)
  /\ challenge[c].act = act

(* verifyMessage of ethers takes a signature only with its 0x.             *)
Unverified(c, form) == TRUE   \* mutant: the signature is not verified
VerifySignature(c, form) == c \in signed /\ form = "prefixed"

(* consumeChallenge: one UPDATE, which checks the row again.               *)
ConsumesTwice(c) == ~challenge[c].deleted /\ ~Expired(c)   \* mutant: without used_at IS NULL
Consumable(c) == ~challenge[c].deleted /\ ~challenge[c].used /\ ~Expired(c)

Consume(w) ==
  LET c == work[w].ch IN
  /\ work[w] # None /\ work[w].step = "consume"
  /\ Consumable(c)
  /\ challenge' = [challenge EXCEPT ![c].used = TRUE]
  /\ work' = [work EXCEPT ![w].step = "save"]
  /\ UNCHANGED <<now, signed, session, rows, revoked, lost>>

(* Another worker consumed it, or it expired, since it was read.           *)
Replayed(w) ==
  /\ work[w] # None /\ work[w].step = "consume"
  /\ ~Consumable(work[w].ch)
  /\ work' = [work EXCEPT ![w] = None]
  /\ UNCHANGED <<now, challenge, signed, session, rows, revoked, lost>>

----------------------------------------------------------------------------
(* Sessions: the signature is handed on as the client sent it.             *)

BeginSession(w, c, op) ==
  /\ work[w] = None
  /\ Usable(c, [op |-> op, kind |-> "session"])
  /\ VerifySignature(c, "prefixed")
  /\ work' = [work EXCEPT ![w] = [ch |-> c, msg |-> c, step |-> "consume"]]
  /\ UNCHANGED <<now, challenge, signed, session, rows, revoked, lost>>

SaveSession(w) ==
  LET c == work[w].ch IN
  /\ work[w] # None /\ work[w].step = "save"
  /\ challenge[c].act.kind = "session"
  /\ session' = [session EXCEPT ![c] = now + SessionTtl]
  /\ work' = [work EXCEPT ![w] = None]
  /\ UNCHANGED <<now, challenge, signed, rows, revoked, lost>>

(* authenticateCredential for a session's bearer token or cookie.          *)
OpenSession(s, op) ==
  /\ session[s] # None /\ session[s] > now
  /\ challenge[s].act.op = op

----------------------------------------------------------------------------
(* Signed controls.                                                        *)

(* What a handler reads before it verifies the signature: the revision     *)
(* follows the latest one, and a revocation names a live token.            *)
OwnRevision(a) == a.rev = Latest(a.op, {a.kind}) + 1   \* mutant: a series for each kind
AnyNewer(a) == a.rev > Latest(a.op, Series(a.kind))    \* mutant: revisions may be skipped
NextRevision(a) == a.rev = Latest(a.op, Series(a.kind)) + 1
RevocableToken(a) ==
  a.kind = "revoke" => Issued(Token(a.op, a.body)) /\ Token(a.op, a.body) \notin revoked

(* m is the message an artifact of this kind is stored with.               *)
BeginAction(w, s, c, a, m) ==
  /\ work[w] = None
  /\ OpenSession(s, a.op)
  /\ RevocableToken(a)
  /\ NextRevision(a)
  /\ Usable(c, a)
  /\ VerifySignature(c, HandedOn)
  /\ a.kind \in {"issue", "revoke"} => m = c
  /\ work' = [work EXCEPT ![w] = [ch |-> c, msg |-> m, step |-> "consume"]]
  /\ UNCHANGED <<now, challenge, signed, session, rows, revoked, lost>>

Saving(w) ==
  /\ work[w] # None /\ work[w].step = "save"
  /\ challenge[work[w].ch].act.kind # "session"

EndsUnknown(w, why) ==     \* mutant: a reason of its own
  /\ work' = [work EXCEPT ![w] = None]
  /\ lost' = [lost EXCEPT ![work[w].ch] = "error"]
Ends(w, why) ==
  /\ work' = [work EXCEPT ![w] = None]
  /\ lost' = [lost EXCEPT ![work[w].ch] = why]

(* requireSignatureMessage comes after the challenge was consumed.         *)
AnyMessage(w) == TRUE      \* mutant: the message is not compared
SameMessage(w) == work[w].msg = work[w].ch

MessageRefused(w) ==
  /\ Saving(w)
  /\ ~SameMessage(w)
  /\ Ends(w, "message")
  /\ UNCHANGED <<now, challenge, signed, session, rows, revoked>>

(* The primary key and the revision of each table are unique: policies are *)
(* kept by id and revision, decisions by id, revocations by token; a       *)
(* token's id is drawn afresh, and again when its row is refused.          *)
SameKey(a, b) ==
  \/ a.kind = "policy" /\ a.body = b.body /\ a.rev = b.rev
  \/ a.kind = "provider" /\ a.body = b.body
  \/ a.kind = "revoke" /\ a.op = b.op /\ a.body = b.body

SharedIds(a) ==               \* mutant: policies and decisions share their ids
  /\ \A r \in RowsOf(a.op, {a.kind}) : r.art.rev # a.rev
  /\ \A r \in rows : r.art.body # a.body
NoUniqueRevision(a) == TRUE   \* mutant: no UNIQUE(operator_key, revision)
Fits(a) ==
  /\ \A r \in RowsOf(a.op, {a.kind}) : r.art.rev # a.rev
  /\ ~\E r \in rows : r.art.kind = a.kind /\ SameKey(r.art, a)

(* revokeAgentToken reads token and revision again in its transaction.     *)
StillRevocable(a) ==
  a.kind = "revoke" => RevocableToken(a) /\ NextRevision(a)

RevocationOnly(a) == UNCHANGED revoked   \* mutant: revoked_at is not set
MarkRevoked(a) ==
  revoked' = IF a.kind = "revoke" THEN revoked \union {Token(a.op, a.body)} ELSE revoked

Stored(row) == rows \union {row}

SaveArtifact(w) ==
  LET a == challenge[work[w].ch].act IN
  /\ Saving(w)
  /\ SameMessage(w)
  /\ Fits(a) /\ StillRevocable(a)
  /\ rows' = Stored([art |-> a, ch |-> work[w].ch, msg |-> work[w].msg])
  /\ MarkRevoked(a)
  /\ work' = [work EXCEPT ![w] = None]
  /\ UNCHANGED <<now, challenge, signed, session, lost>>

ArtifactConflict(w) ==
  LET a == challenge[work[w].ch].act IN
  /\ Saving(w)
  /\ SameMessage(w)
  /\ ~(Fits(a) /\ StillRevocable(a))
  /\ Ends(w, "conflict")
  /\ UNCHANGED <<now, challenge, signed, session, rows, revoked>>

----------------------------------------------------------------------------
Tick ==
  /\ now < MaxTime
  /\ now' = now + 1
  /\ UNCHANGED <<challenge, signed, session, rows, revoked, work, lost>>

(* The process exits and starts again.                                     *)
Crash(w) ==
  /\ work[w] # None
  /\ IF work[w].step = "save"
     THEN Ends(w, "crash")
     ELSE work' = [work EXCEPT ![w] = None] /\ UNCHANGED lost
  /\ UNCHANGED <<now, challenge, signed, session, rows, revoked>>

(* What operators ask a challenge for; a challenge for another operator's  *)
(* artifact, or for a revision its hash does not cover, fits no request.   *)
Asked == Login \union {a \in Artifacts :
                         (a.kind = "revoke") <=> (a.body \in Revisions)}

Next ==
  \/ \E c \in Challenges : (\E act \in Asked : IssueChallenge(c, act)) \/ Sign(c)
  \/ \E w \in Workers :
       \/ Consume(w) \/ Replayed(w) \/ SaveSession(w)
       \/ MessageRefused(w) \/ SaveArtifact(w) \/ ArtifactConflict(w) \/ Crash(w)
       \/ \E c \in Challenges, op \in Operators : BeginSession(w, c, op)
       \/ \E s, c, m \in Challenges, a \in Artifacts : BeginAction(w, s, c, a, m)
  \/ Tick

Spec == Init /\ [][Next]_vars

----------------------------------------------------------------------------
(* Properties.                                                             *)

HasEffect(c) == session[c] # None \/ \E r \in rows : r.ch = c
Pending(c) == \E w \in Workers : work[w] # None /\ work[w].ch = c /\ work[w].step = "save"

(* A signature is good for one effect: two workers that both found the     *)
(* challenge usable do not both open a session or store an artifact.       *)
ChallengeSpentOnce ==
  /\ \A r, s \in rows : r.ch = s.ch => r = s
  /\ \A r \in rows : session[r.ch] = None
  /\ \A c \in Challenges : HasEffect(c) => ~Pending(c) /\ lost[c] = "no"

(* What is stored is what the operator signed: the stored message belongs  *)
(* to the consumed challenge, its key signed it, it names this artifact.   *)
StoredIsSigned ==
  \A r \in rows :
    /\ r.msg = r.ch
    /\ r.ch \in signed
    /\ challenge[r.ch].used
    /\ challenge[r.ch].act = r.art

(* Someone else's row or token took the place of artifact a.               *)
Superseded(c) ==
  LET a == challenge[c].act IN
  \E r \in rows :
    /\ r.ch # c
    /\ \/ r.art.op = a.op /\ r.art.kind \in Series(a.kind) /\ r.art.rev >= a.rev
       \/ r.art.kind = a.kind /\ SameKey(r.art, a)

(* A consumed challenge without effect is lost for a reason: a crash, an   *)
(* artifact stored with another message, or a row that came first.         *)
LostForAReason ==
  \A c \in Challenges :
    challenge[c] # None /\ challenge[c].used /\ ~HasEffect(c) /\ ~Pending(c) =>
      \/ lost[c] \in {"crash", "message"}
      \/ lost[c] = "conflict" /\ Superseded(c)

(* A token is refused exactly when a signed revocation of it is stored,    *)
(* and no token is revoked twice.                                          *)
RevocationsMatch ==
  \A op \in Operators, rev \in Revisions :
    LET revocations == {r \in RowsOf(op, {"revoke"}) : r.art.body = rev} IN
    /\ Cardinality(revocations) <= 1
    /\ (revocations # {}) <=> Token(op, rev) \in revoked
    /\ revocations # {} => Issued(Token(op, rev))

(* A signature has one effect, of what was signed, whichever workers race, *)
(* or none for a reason, and a token is refused exactly when its signed    *)
(* revocation is stored.                                                   *)
SignaturesAreSpentOnce ==
  ChallengeSpentOnce /\ StoredIsSigned /\ LostForAReason /\ RevocationsMatch

(* The revisions of policies and provider decisions, and of tokens alone   *)
(* and revocations alone, are unique; those of a series have no gaps.      *)
RevisionsSequential ==
  \A op \in Operators, kind \in Kinds :
    /\ \A r, s \in RowsOf(op, {kind}) : r.art.rev = s.art.rev => r = s
    /\ {r.art.rev : r \in RowsOf(op, Series(kind))} = 1..Latest(op, Series(kind))

(* "Signed revision must increment by exactly one" (routes.ts:617), also   *)
(* where tokens and their revocations share the series.                    *)
SeriesRevisionsUnique ==
  \A op \in Operators, kind \in Kinds :
    \A r, s \in RowsOf(op, Series(kind)) : r.art.rev = s.art.rev => r = s

(* An artifact its operator signed, and that is the next of its series, is *)
(* accepted by some worker ("stores sequential signed policy revisions").  *)
SignedIsAccepted ==
  \A s, c \in Challenges, a \in Artifacts :
    (OpenSession(s, a.op) /\ Usable(c, a) /\ c \in signed /\ NextRevision(a))
      => VerifySignature(c, HandedOn)

(* Policies and provider decisions implement the log of SignedLog.         *)
Logged == [op : Operators, kind : Kinds \intersect {"policy", "provider"}]
EntriesAt(o, n) == {r.art : r \in {x \in RowsOf(o.op, {o.kind}) : x.art.rev = n}}
Log == [o \in Logged |-> [n \in 1..Latest(o.op, {o.kind}) |-> EntriesAt(o, n)]]
Promised == INSTANCE SignedLog WITH Owners <- Logged, Entries <- {{a} : a \in Artifacts}, log <- Log
SignedLogImplemented == Promised!Spec
============================================================================
