--------------------------- MODULE Clients_proofs ---------------------------
(***************************************************************************)
(* What the clients guarantee, for any attempts, tabs and commands: the    *)
(* checked call of the MCP bridge, the audit page, the rules of operators, *)
(* and the command line.                                                   *)
(***************************************************************************)
EXTENDS MCClients, FiniteSetTheorems, SequenceTheorems, TLAPS

Stages == {"unstarted", "asking", "checking", "signing", "paying", "polling", "observing",
           "returned", "failed"}
Calls == [stage : Stages, key : Keys \cup {None}, terms : Terms \cup {None},
          check : Answers \cup {None}, hash : Authorizations \cup {None}, polls : Nat]

Typed ==
  /\ call \in [Attempts -> Calls]
  /\ checks \in [Keys -> Answers \cup {None}]
  /\ \A a \in Attempts :
       /\ call[a].stage \in {"asking", "checking"} => call[a].key \in Keys
       /\ call[a].stage = "checking" => call[a].terms \in Terms

(* The stages an attempt can be in once it has signed, or has given up. *)
Late == {"paying", "polling", "observing", "returned", "failed"}

Approved(a) ==
  /\ call[a].check # None
  /\ call[a].check.verdict = "pay"
  /\ call[a].check.auth = Intent(a)
  /\ call[a].check.decided = Intent(a)
  /\ call[a].check.bound = call[a].terms

(* Whoever has signed was told to pay exactly that, and has not moved on   *)
(* to other terms since.                                                   *)
ApprovedInv ==
  /\ \A a \in Attempts : call[a].stage = "signing" => Approved(a)
  /\ \A s \in signed : /\ s.auth.nonce \in Attempts
                       /\ s.auth = Intent(s.auth.nonce)
                       /\ call[s.auth.nonce].stage \in Late
                       /\ Approved(s.auth.nonce)
  /\ \A auth \in chain : \E s \in signed : s.auth = auth

(* Who observes has found its own authorization executed. *)
SettledInv ==
  \A a \in Attempts :
    /\ call[a].stage = "observing" => Intent(a) \in chain \cap settled
    /\ call[a].stage = "returned" => Intent(a) \in chain \cap settled \cap receipts

IInv == Typed /\ ApprovedInv /\ SettledInv
-----------------------------------------------------------------------------
(* What normalizes is one of the terms. *)
LEMMA NormalizedIsTerms ==
  ASSUME NEW offer \in Offers, NormalizedTerms(offer) # None
  PROVE  NormalizedTerms(offer) \in Terms
<1> DEFINE compatible == {i \in DOMAIN offer : offer[i] # Foreign}
<1> DEFINE i == CHOOSE j \in compatible : TRUE
<1>1. Cardinality(compatible) = 1
  BY DEF NormalizedTerms
<1>2. compatible # {}
  BY <1>1, FS_EmptySet
<1>3. i \in compatible
  BY <1>2
<1>4. PICK n \in 0..2 : offer \in [1..n -> Acceptances]
  BY DEF Offers
<1>5. offer[i] \in Acceptances /\ offer[i] # Foreign
  BY <1>3, <1>4
<1>6. offer[i] # Malformed /\ NormalizedTerms(offer) = offer[i]
  BY <1>1 DEF NormalizedTerms
<1> QED
  BY <1>5, <1>6 DEF Acceptances

LEMMA IntentIsAuthorization ==
  ASSUME NEW a \in Attempts, call[a].terms \in Terms
  PROVE  Intent(a) \in Authorizations
BY DEF Intent, Authorizations

(* An attempt that steps to another well-formed record keeps the types.    *)
LEMMA StepTyped ==
  ASSUME Typed, NEW a \in Attempts, NEW next \in Calls, call' = [call EXCEPT ![a] = next],
         checks' \in [Keys -> Answers \cup {None}],
         next.stage \in {"asking", "checking"} => next.key \in Keys,
         next.stage = "checking" => next.terms \in Terms
  PROVE  Typed'
<1>1. call' \in [Attempts -> Calls]
  BY DEF Typed
<1>2. \A b \in Attempts : call'[b] = IF b = a THEN next ELSE call[b]
  BY DEF Typed
<1> QED
  BY <1>1, <1>2 DEF Typed

LEMMA InitIInv == Init => IInv
BY DEF Init, IInv, Typed, ApprovedInv, SettledInv, Calls, Stages, Keys, Unstarted

(* An answer to a check moves its attempt alone, and to signing only when  *)
(* the answer approves what the attempt is about to sign.                  *)
LEMMA ConsiderIInv ==
  ASSUME IInv, NEW a \in Attempts, call[a].stage = "checking",
         NEW answer \in Answers, Consider(a, answer),
         checks' \in [Keys -> Answers \cup {None}],
         UNCHANGED <<settled, receipts, signed, chain>>
  PROVE  IInv'
<1> USE DEF IInv
<1>1. answer # None
  BY NoneAssumption
<1>2. CASE Binds(a, answer) /\ answer.verdict = "pay"
  <2>1. call' = [call EXCEPT ![a].stage = "signing", ![a].check = answer]
    BY <1>2 DEF Consider
  <2>2. Typed'
    <3> DEFINE next == [call[a] EXCEPT !.stage = "signing", !.check = answer]
    <3>1. next \in Calls /\ next.stage = "signing"
      BY DEF Typed, Calls, Stages
    <3>2. call' = [call EXCEPT ![a] = next]
      BY <2>1
    <3> HIDE DEF next
    <3> QED
      BY <3>1, <3>2, StepTyped
  <2>3. \A b \in Attempts : Intent(b)' = Intent(b)
    BY <2>1 DEF Typed, Calls, Stages, Intent
  <2>4. Approved(a)'
    BY <1>1, <1>2, <2>1 DEF Approved, Binds, Typed, Calls, Stages, Intent
  <2>5. \A b \in Attempts : b # a => call'[b] = call[b]
    BY <2>1 DEF Typed
  <2>6. \A s \in signed : s.auth.nonce # a
    BY DEF ApprovedInv, Late
  <2>7. ApprovedInv'
    BY <2>3, <2>4, <2>5, <2>6 DEF ApprovedInv, Approved
  <2>8. call'[a].stage = "signing"
    BY <2>1 DEF Typed, Calls, Stages
  <2>9. SettledInv'
    BY <2>3, <2>5, <2>8 DEF SettledInv
  <2> QED
    BY <2>2, <2>7, <2>9
<1>3. CASE ~(Binds(a, answer) /\ answer.verdict = "pay")
  <2>1. call' = [call EXCEPT ![a].stage = "failed"]
    BY <1>3 DEF Consider, Goes
  <2>2. Typed'
    BY <2>1 DEF Typed, Calls, Stages
  <2>3. \A b \in Attempts : b # a => call'[b] = call[b]
    BY <2>1 DEF Typed
  <2>4. \A b \in Attempts : Intent(b)' = Intent(b)
    BY <2>1 DEF Typed, Calls, Stages, Intent
  <2>5. \A s \in signed : s.auth.nonce # a
    BY DEF ApprovedInv, Late
  <2>6. call'[a].stage = "failed"
    BY <2>1 DEF Typed, Calls, Stages
  <2>7. ApprovedInv'
    BY <2>3, <2>4, <2>5, <2>6 DEF ApprovedInv, Approved
  <2>8. SettledInv'
    BY <2>3, <2>4, <2>6 DEF SettledInv
  <2> QED
    BY <2>2, <2>7, <2>8
<1> QED
  BY <1>2, <1>3

(* An attempt that moves on without new terms or a new answer, neither to  *)
(* checking nor to signing, keeps what it was told.                        *)
LEMMA MovesOn ==
  ASSUME IInv, NEW a \in Attempts, NEW stage \in {"polling", "observing", "returned", "failed"},
         call' \in [Attempts -> Calls],
         \A b \in Attempts : b # a => call'[b] = call[b],
         call'[a].stage = stage, call'[a].terms = call[a].terms,
         call'[a].check = call[a].check,
         checks' \in [Keys -> Answers \cup {None}],
         signed' = signed, chain' = chain,
         settled \subseteq settled', receipts \subseteq receipts',
         stage = "observing" => Intent(a) \in chain \cap settled',
         stage = "returned" => Intent(a) \in chain \cap settled' \cap receipts'
  PROVE  IInv'
<1> USE DEF IInv
<1>1. Typed'
  BY DEF Typed
<1>2. \A b \in Attempts : Intent(b)' = Intent(b) /\ (Approved(b)' <=> Approved(b))
  BY DEF Intent, Approved
<1>3. ApprovedInv'
  BY <1>2 DEF ApprovedInv, Late
<1>4. SettledInv'
  BY <1>2 DEF SettledInv
<1> QED
  BY <1>1, <1>3, <1>4

LEMMA GoesOn ==
  ASSUME IInv, NEW a \in Attempts, NEW stage \in {"returned", "failed"}, Goes(a, stage),
         checks' \in [Keys -> Answers \cup {None}], signed' = signed, chain' = chain,
         settled \subseteq settled', receipts \subseteq receipts',
         stage = "returned" => Intent(a) \in chain \cap settled' \cap receipts'
  PROVE  IInv'
<1>1. /\ call' \in [Attempts -> Calls]
      /\ \A b \in Attempts : b # a => call'[b] = call[b]
      /\ call'[a].stage = stage /\ call'[a].terms = call[a].terms
      /\ call'[a].check = call[a].check
  BY DEF IInv, Typed, Calls, Stages, Goes
<1> QED
  BY <1>1, MovesOn

(* Every step of an attempt, of AgentPay, of a failing request and of the  *)
(* chain keeps the invariant.                                              *)
LEMMA NextIInv == IInv /\ [Next]_vars => IInv'
<1> SUFFICES ASSUME IInv, [Next]_vars PROVE IInv'
  OBVIOUS
<1> USE DEF IInv
<1>1. ASSUME NEW a \in Attempts, NEW key \in Keys, Start(a, key) PROVE IInv'
  <2>1. call[a].stage = "unstarted" /\ call' = [call EXCEPT ![a].stage = "asking", ![a].key = key]
    BY <1>1 DEF Start, Unstarted
  <2>7. UNCHANGED <<checks, settled, receipts, signed, chain>>
    BY <1>1 DEF Start
  <2>2. Typed'
    <3> DEFINE next == [call[a] EXCEPT !.stage = "asking", !.key = key]
    <3>1. next \in Calls /\ next.stage = "asking" /\ next.key = key
      BY DEF Typed, Calls, Stages
    <3>2. call' = [call EXCEPT ![a] = next]
      BY <2>1
    <3> HIDE DEF next
    <3>3. checks' \in [Keys -> Answers \cup {None}]
      BY <2>7 DEF Typed
    <3> QED
      BY <3>1, <3>2, <3>3, StepTyped
  <2>3. /\ \A b \in Attempts : Intent(b)' = Intent(b)
        /\ \A b \in Attempts : b # a => call'[b] = call[b]
        /\ call'[a].stage = "asking"
    BY <2>1 DEF Intent, Typed, Calls, Stages
  <2>4. \A s \in signed : s.auth.nonce # a
    BY <2>1 DEF ApprovedInv, Late
  <2>5. ApprovedInv'
    BY <2>3, <2>4, <2>7 DEF ApprovedInv, Approved
  <2>6. SettledInv'
    BY <2>3, <2>7 DEF SettledInv
  <2> QED
    BY <2>2, <2>5, <2>6
<1>2. ASSUME NEW a \in Attempts, NEW offer \in Offers, Challenged(a, offer) PROVE IInv'
  <2>1. CASE NormalizedTerms(offer) = None
    BY <1>2, <2>1, GoesOn DEF Challenged, Typed
  <2>2. CASE NormalizedTerms(offer) # None
    <3>1. /\ call[a].stage = "asking"
          /\ call' = [call EXCEPT ![a].stage = "checking", ![a].terms = NormalizedTerms(offer)]
      BY <1>2, <2>2 DEF Challenged
    <3>2. Typed'
      <4> DEFINE next == [call[a] EXCEPT !.stage = "checking", !.terms = NormalizedTerms(offer)]
      <4>1. NormalizedTerms(offer) \in Terms
        BY <2>2, NormalizedIsTerms
      <4>2. next \in Calls /\ next.stage = "checking" /\ next.terms = NormalizedTerms(offer)
            /\ next.key = call[a].key
        BY <4>1 DEF Typed, Calls, Stages
      <4>3. call' = [call EXCEPT ![a] = next]
        BY <3>1
      <4>4. next.key \in Keys
        BY <3>1, <4>2 DEF Typed
      <4>5. checks' = checks
        BY <1>2, <2>2 DEF Challenged
      <4> HIDE DEF next
      <4> QED
        BY <4>1, <4>2, <4>3, <4>4, <4>5, StepTyped DEF Typed
    <3>3. /\ \A b \in Attempts : b # a => call'[b] = call[b]
          /\ call'[a].stage = "checking"
      BY <3>1 DEF Typed, Calls, Stages
    <3>4. \A s \in signed : s.auth.nonce # a
      BY <3>1 DEF ApprovedInv, Late
    <3>5. UNCHANGED <<settled, receipts, signed, chain>>
      BY <1>2 DEF Challenged
    <3>6. \A b \in Attempts : b # a => Intent(b)' = Intent(b)
      BY <3>3 DEF Intent
    <3>7. ApprovedInv'
      BY <3>3, <3>4, <3>5, <3>6 DEF ApprovedInv, Approved
    <3>8. SettledInv'
      BY <3>3, <3>5, <3>6 DEF SettledInv
    <3> QED
      BY <3>2, <3>7, <3>8
  <2> QED
    BY <2>1, <2>2
<1>3. ASSUME NEW a \in Attempts, NEW verdict \in Verdicts, Check(a, verdict) PROVE IInv'
  <2> DEFINE key == call[a].key
             fresh == checks[key] = None
             record == IF fresh THEN Answer(Intent(a), verdict) ELSE checks[key]
  <2>1. /\ call[a].stage = "checking"
        /\ checks' = [checks EXCEPT ![key] = record]
        /\ IF record.auth = Intent(a) THEN Consider(a, record) ELSE Goes(a, "failed")
        /\ UNCHANGED <<settled, receipts, signed, chain>>
    BY <1>3 DEF Check
  <2>2. Answer(Intent(a), verdict) \in Answers
    BY <2>1, IntentIsAuthorization DEF Typed, Answer, Answers, Intent, Authorizations
  <2>3. checks' \in [Keys -> Answers \cup {None}]
    BY <2>1, <2>2 DEF Typed
  <2>4. CASE record.auth = Intent(a)
    <3>1. Consider(a, record)
      BY <2>1, <2>4
    <3>2. record \in Answers
      BY <2>1, <2>2 DEF Typed
    <3> QED
      BY <2>1, <2>3, <3>1, <3>2, ConsiderIInv
  <2>5. CASE record.auth # Intent(a)
    BY <2>1, <2>3, <2>5, GoesOn
  <2> QED
    BY <2>4, <2>5
<1>4. ASSUME NEW a \in Attempts, Sign(a) PROVE IInv'
  <2>1. /\ call[a].stage = "signing" /\ call' = [call EXCEPT ![a].stage = "paying"]
        /\ signed' = signed \cup {[key |-> call[a].key, auth |-> Intent(a)]}
    BY <1>4 DEF Sign, Goes
  <2>2. Typed'
    BY <1>4, <2>1 DEF Sign, Typed, Calls, Stages
  <2>3. /\ \A b \in Attempts : b # a => call'[b] = call[b]
        /\ call'[a].stage = "paying"
        /\ \A b \in Attempts : Intent(b)' = Intent(b) /\ (Approved(b)' <=> Approved(b))
    BY <2>1 DEF Typed, Calls, Stages, Intent, Approved
  <2>4. Intent(a).nonce = a /\ Approved(a)
    BY <2>1 DEF Intent, ApprovedInv
  <2>5. ApprovedInv'
    BY <1>4, <2>1, <2>3, <2>4 DEF Sign, ApprovedInv, Late
  <2>6. SettledInv'
    BY <1>4, <2>3 DEF Sign, SettledInv
  <2> QED
    BY <2>2, <2>5, <2>6
<1>5. ASSUME NEW a \in Attempts, NEW hash \in Authorizations \cup {None}, Paid(a, hash) PROVE IInv'
  <2>1. CASE hash = None
    BY <1>5, <2>1, GoesOn DEF Paid, Typed
  <2>2. CASE hash # None
    <3>1. call' = [call EXCEPT ![a].stage = "polling", ![a].hash = hash]
      BY <1>5, <2>2 DEF Paid
    <3>2. /\ call' \in [Attempts -> Calls]
          /\ \A b \in Attempts : b # a => call'[b] = call[b]
          /\ call'[a].stage = "polling" /\ call'[a].terms = call[a].terms
          /\ call'[a].check = call[a].check
      <4> DEFINE next == [call[a] EXCEPT !.stage = "polling", !.hash = hash]
      <4>1. /\ next \in Calls /\ next.stage = "polling" /\ next.terms = call[a].terms
            /\ next.check = call[a].check
        BY DEF Typed, Calls, Stages
      <4>2. call' = [call EXCEPT ![a] = next]
        BY <3>1
      <4> HIDE DEF next
      <4> QED
        BY <4>1, <4>2 DEF Typed
    <3> QED
      BY <1>5, <3>2, MovesOn DEF Paid, Typed
  <2> QED
    BY <2>1, <2>2
<1>6. ASSUME NEW a \in Attempts, Poll(a) PROVE IInv'
  <2> DEFINE verdict == SettlementVerdict(a, call[a].hash)
             stage == IF verdict = "match" THEN "observing"
                      ELSE IF verdict = "mismatch" \/ call[a].polls + 1 = MaxPolls THEN "failed"
                      ELSE "polling"
  <2>1. /\ call' = [call EXCEPT ![a].polls = @ + 1, ![a].stage = stage]
        /\ settled' = IF verdict = "match" THEN settled \cup {Intent(a)} ELSE settled
    BY <1>6 DEF Poll
  <2>2. stage \in {"observing", "failed", "polling"} /\ (stage = "observing" => verdict = "match")
    OBVIOUS
  <2>3. verdict = "match" => Intent(a) \in chain
    BY DEF SettlementVerdict
  <2>4. /\ call' \in [Attempts -> Calls]
        /\ \A b \in Attempts : b # a => call'[b] = call[b]
        /\ call'[a].stage = stage /\ call'[a].terms = call[a].terms
        /\ call'[a].check = call[a].check
    <3> HIDE DEF stage
    <3>1. stage \in Stages
      BY <2>2 DEF Stages
    <3>2. call[a] \in Calls /\ call[a].polls + 1 \in Nat
      BY DEF Typed, Calls
    <3>3. call'[a] = [call[a] EXCEPT !.polls = @ + 1, !.stage = stage]
      BY <2>1 DEF Typed
    <3>4. call'[a] \in Calls /\ call'[a].stage = stage /\ call'[a].terms = call[a].terms
          /\ call'[a].check = call[a].check
      BY <3>1, <3>2, <3>3 DEF Calls
    <3>5. \A b \in Attempts : b # a => call'[b] = call[b]
      BY <2>1 DEF Typed
    <3>6. call' \in [Attempts -> Calls]
      BY <2>1, <3>4, <3>5 DEF Typed
    <3> QED
      BY <3>4, <3>5, <3>6
  <2> HIDE DEF stage
  <2> QED
    BY <1>6, <2>1, <2>2, <2>3, <2>4, MovesOn DEF Poll, Typed
<1>7. ASSUME NEW a \in Attempts, Observe(a) PROVE IInv'
  BY <1>7, GoesOn DEF Observe, Typed, SettledInv
<1>8. ASSUME NEW a \in Attempts, RequestFails(a) PROVE IInv'
  BY <1>8, GoesOn DEF RequestFails, Typed
<1>9. ASSUME NEW a \in Attempts, AnswerLost(a) PROVE IInv'
  <2>1. checks' \in [Keys -> Answers \cup {None}]
    <3>1. CASE UNCHANGED checks
      BY <3>1 DEF Typed
    <3>2. CASE call[a].stage = "checking" /\ \E verdict \in Verdicts :
                 checks' = [checks EXCEPT ![call[a].key] = Answer(Intent(a), verdict)]
      <4>1. \A verdict \in Verdicts : Answer(Intent(a), verdict) \in Answers
        BY <3>2, IntentIsAuthorization DEF Typed, Answer, Answers, Intent, Authorizations
      <4> QED
        BY <3>2, <4>1 DEF Typed
    <3> QED
      BY <1>9, <3>1, <3>2 DEF AnswerLost
  <2> QED
    BY <1>9, <2>1, GoesOn DEF AnswerLost
<1>10. ASSUME NEW a \in Attempts, NEW auth \in Authorizations, NEW digest \in Authorizations,
              NEW decided \in Authorizations, NEW bound \in Terms,
              FalseCheck(a, auth, digest, decided, bound)
       PROVE IInv'
  <2> DEFINE answer == [auth |-> auth, digest |-> digest, bound |-> bound,
                        decided |-> decided, verdict |-> "pay"]
  <2>1. answer \in Answers
    BY DEF Answers, Verdicts
  <2> QED
    BY <1>10, <2>1, ConsiderIInv DEF FalseCheck, Typed
<1>11. ASSUME NEW auth \in Authorizations, Execute(auth) PROVE IInv'
  BY <1>11 DEF Execute, Typed, ApprovedInv, Approved, SettledInv, Intent
<1>12. CASE UNCHANGED vars
  BY <1>12 DEF vars, Typed, ApprovedInv, Approved, SettledInv, Intent
<1> QED
  BY <1>1, <1>2, <1>3, <1>4, <1>5, <1>6, <1>7, <1>8, <1>9, <1>10, <1>11, <1>12 DEF Next,
      Step

LEMMA SpecIInv == Spec => []IInv
BY InitIInv, NextIInv, PTL DEF Spec
-----------------------------------------------------------------------------
(* Whatever is charged was approved: the attempt that drew its nonce was   *)
(* told to pay this very authorization (verifyCheckBinding before          *)
(* signAuthorizationIntent), however false the answers were.               *)
THEOREM ChargesWereApproved == Spec => []ChargedWasApproved
<1>1. IInv => ChargedWasApproved
  <2> SUFFICES ASSUME IInv, NEW auth \in chain
               PROVE  /\ call[auth.nonce].check # None
                      /\ call[auth.nonce].check.verdict = "pay"
                      /\ call[auth.nonce].check.auth = auth
                      /\ call[auth.nonce].check.decided = auth
                      /\ call[auth.nonce].check.bound = auth.terms
    BY DEF ChargedWasApproved
  <2>1. auth = Intent(auth.nonce) /\ Approved(auth.nonce)
    BY DEF IInv, ApprovedInv
  <2>2. auth.terms = call[auth.nonce].terms
    BY <2>1 DEF Intent
  <2> QED
    BY <2>1, <2>2 DEF Approved
<1> QED
  BY <1>1, SpecIInv, PTL

(* A response is returned only for an authorization that was executed,     *)
(* found settled, and has its receipt, whatever transaction was named.     *)
THEOREM ResponsesAreSettled == Spec => []ReturnedIsSettled
<1>1. IInv => ReturnedIsSettled
  BY DEF IInv, SettledInv, ReturnedIsSettled
<1> QED
  BY <1>1, SpecIInv, PTL

-----------------------------------------------------------------------------
(* While no answer was false, whoever signs, and whoever has signed, did   *)
(* so for the check on record under its key; a check is never replaced.    *)
OnRecord(key, auth) == key \in Keys /\ checks[key] # None /\ checks[key].auth = auth

KeyInv ==
  /\ lies \in Nat
  /\ \A s \in signed : s = [key |-> s.key, auth |-> s.auth]
  /\ lies = 0 =>
       /\ \A s \in signed : OnRecord(s.key, s.auth)
       /\ \A a \in Attempts : call[a].stage = "signing" => OnRecord(call[a].key, Intent(a))

LEMMA InitKeyInv == Init => KeyInv
BY DEF Init, KeyInv, Unstarted

(* A step that signs nothing, replaces no check and sends to signing only  *)
(* an attempt that is on record keeps the invariant.                       *)
LEMMA KeepsRecord ==
  ASSUME Typed, KeyInv, NEW a \in Attempts,
         \A b \in Attempts : b # a => call'[b] = call[b],
         call'[a].stage = "signing" => OnRecord(call[a].key, Intent(a))',
         \A k \in Keys : checks[k] # None => checks'[k] = checks[k],
         signed' = signed, lies' = lies
  PROVE  KeyInv'
<1>1. \A k, auth : OnRecord(k, auth) => OnRecord(k, auth)'
  BY DEF OnRecord
<1>2. ASSUME NEW b \in Attempts, b # a, call'[b].stage = "signing", lies = 0
      PROVE  OnRecord(call[b].key, Intent(b))'
  <2>1. OnRecord(call[b].key, Intent(b)) /\ call'[b] = call[b]
    BY <1>2 DEF KeyInv
  <2> QED
    BY <1>1, <2>1 DEF OnRecord, Intent
<1> QED
  BY <1>1, <1>2 DEF KeyInv

LEMMA KeyStep == Typed /\ KeyInv /\ [Next]_vars => KeyInv'
<1> SUFFICES ASSUME Typed, KeyInv, [Next]_vars PROVE KeyInv'
  OBVIOUS
(* An attempt that goes anywhere but to signing, and signs nothing. *)
<1>1. ASSUME NEW a \in Attempts, NEW next, next.stage # "signing",
             call' = [call EXCEPT ![a] = next],
             \A k \in Keys : checks[k] # None => checks'[k] = checks[k],
             signed' = signed, lies' = lies
      PROVE  KeyInv'
  <2>1. call'[a].stage # "signing" /\ \A b \in Attempts : b # a => call'[b] = call[b]
    BY <1>1 DEF Typed
  <2> QED
    BY <1>1, <2>1, KeepsRecord
<1>2. ASSUME NEW a \in Attempts, NEW stage \in Stages \ {"signing"}, Goes(a, stage),
             \A k \in Keys : checks[k] # None => checks'[k] = checks[k],
             signed' = signed, lies' = lies
      PROVE  KeyInv'
  <2> DEFINE next == [call[a] EXCEPT !.stage = stage]
  <2>1. next.stage # "signing" /\ call' = [call EXCEPT ![a] = next]
    BY <1>2 DEF Goes, Typed, Calls
  <2> HIDE DEF next
  <2> QED
    BY <1>1, <1>2, <2>1
<1>3. ASSUME NEW a \in Attempts, NEW key \in Keys, Start(a, key) PROVE KeyInv'
  <2> DEFINE next == [call[a] EXCEPT !.stage = "asking", !.key = key]
  <2>1. next.stage # "signing" /\ call' = [call EXCEPT ![a] = next]
    BY <1>3 DEF Start, Typed, Calls
  <2> HIDE DEF next
  <2> QED
    BY <1>1, <1>3, <2>1 DEF Start
<1>4. ASSUME NEW a \in Attempts, NEW offer \in Offers, Challenged(a, offer) PROVE KeyInv'
  <2>1. CASE NormalizedTerms(offer) = None
    BY <1>2, <1>4, <2>1 DEF Challenged, Stages
  <2>2. CASE NormalizedTerms(offer) # None
    <3> DEFINE next == [call[a] EXCEPT !.stage = "checking", !.terms = NormalizedTerms(offer)]
    <3>1. next.stage # "signing"
      BY DEF Typed, Calls
    <3>2. call' = [call EXCEPT ![a].stage = "checking", ![a].terms = NormalizedTerms(offer)]
      BY <1>4, <2>2 DEF Challenged
    <3>3. call' = [call EXCEPT ![a] = next]
      BY <3>2
    <3> HIDE DEF next
    <3> QED
      BY <1>1, <1>4, <3>1, <3>3 DEF Challenged
  <2> QED
    BY <2>1, <2>2
<1>5. ASSUME NEW a \in Attempts, NEW verdict \in Verdicts, Check(a, verdict) PROVE KeyInv'
  <2> DEFINE key == call[a].key
             record == IF checks[key] = None THEN Answer(Intent(a), verdict) ELSE checks[key]
  <2>1. /\ checks' = [checks EXCEPT ![key] = record]
        /\ key \in Keys /\ key = call[a].key
        /\ IF record.auth = Intent(a) THEN Consider(a, record) ELSE Goes(a, "failed")
        /\ signed' = signed /\ lies' = lies
    BY <1>5 DEF Check, Typed
  <2>2. \A k \in Keys : checks[k] # None => checks'[k] = checks[k]
    BY <2>1 DEF Typed
  <2>3. record # None
    <3>1. Answer(Intent(a), verdict) \in Answers
      BY <1>5, IntentIsAuthorization DEF Check, Typed, Answer, Answers, Intent,
          Authorizations
    <3> QED
      BY <3>1, NoneAssumption
  <2> HIDE DEF key, record
  <2>4. CASE Goes(a, "failed")
    BY <1>2, <2>1, <2>2, <2>4 DEF Stages
  <2>5. CASE record.auth = Intent(a) /\ call' = [call EXCEPT ![a].stage = "signing", ![a].check = record]
    <3> DEFINE next == [call[a] EXCEPT !.stage = "signing", !.check = record]
    <3>1. next.key = key /\ next.terms = call[a].terms
      BY <2>1 DEF Typed, Calls
    <3>2. call'[a] = next /\ \A b \in Attempts : b # a => call'[b] = call[b]
      BY <2>5 DEF Typed
    <3>3. checks'[key] = record
      BY <2>1 DEF Typed
    <3> HIDE DEF next
    <3>4. OnRecord(call[a].key, Intent(a))'
      BY <2>1, <2>3, <2>5, <3>1, <3>2, <3>3 DEF OnRecord, Intent
    <3> QED
      BY <2>1, <2>2, <3>2, <3>4, KeepsRecord
  <2> QED
    BY <2>1, <2>4, <2>5 DEF Consider
<1>6. ASSUME NEW a \in Attempts, Sign(a) PROVE KeyInv'
  <2> DEFINE s == [key |-> call[a].key, auth |-> Intent(a)]
  <2>1. /\ signed' = signed \cup {s} /\ checks' = checks /\ lies' = lies
        /\ call[a].stage = "signing"
        /\ \A b \in Attempts : b # a => call'[b] = call[b]
        /\ call'[a].stage = "paying"
    BY <1>6 DEF Sign, Goes, Typed, Calls
  <2>2. lies = 0 => OnRecord(s.key, s.auth)
    BY <2>1 DEF KeyInv
  <2>3. \A k, auth : OnRecord(k, auth)' <=> OnRecord(k, auth)
    BY <2>1 DEF OnRecord
  <2>4. \A b \in Attempts : b # a => Intent(b)' = Intent(b)
    BY <2>1 DEF Intent
  <2>5. ASSUME NEW b \in Attempts, call'[b].stage = "signing", lies = 0
        PROVE  OnRecord(call[b].key, Intent(b))'
    <3>1. b # a /\ call'[b] = call[b] /\ OnRecord(call[b].key, Intent(b))
      BY <2>1, <2>5 DEF KeyInv
    <3> QED
      BY <2>1, <2>4, <3>1 DEF OnRecord
  <2>6. \A u \in signed' : lies = 0 => OnRecord(u.key, u.auth)'
    BY <2>1, <2>2, <2>3 DEF KeyInv
  <2> QED
    BY <2>1, <2>5, <2>6 DEF KeyInv
<1>7. ASSUME NEW a \in Attempts, NEW hash \in Authorizations \cup {None}, Paid(a, hash) PROVE KeyInv'
  <2>1. CASE hash = None
    BY <1>2, <1>7, <2>1 DEF Paid, Stages
  <2>2. CASE hash # None
    <3> DEFINE next == [call[a] EXCEPT !.stage = "polling", !.hash = hash]
    <3>1. next.stage # "signing"
      BY DEF Typed, Calls
    <3>2. call' = [call EXCEPT ![a].stage = "polling", ![a].hash = hash]
      BY <1>7, <2>2 DEF Paid
    <3>3. call' = [call EXCEPT ![a] = next]
      BY <3>2
    <3> HIDE DEF next
    <3> QED
      BY <1>1, <1>7, <3>1, <3>3 DEF Paid
  <2> QED
    BY <2>1, <2>2
<1>8. ASSUME NEW a \in Attempts, Poll(a) PROVE KeyInv'
  <2> DEFINE verdict == SettlementVerdict(a, call[a].hash)
             stage == IF verdict = "match" THEN "observing"
                      ELSE IF verdict = "mismatch" \/ call[a].polls + 1 = MaxPolls THEN "failed"
                      ELSE "polling"
             next == [call[a] EXCEPT !.polls = @ + 1, !.stage = stage]
  <2>1. call' = [call EXCEPT ![a].polls = @ + 1, ![a].stage = stage]
    BY <1>8 DEF Poll
  <2>2. stage # "signing"
    OBVIOUS
  <2> HIDE DEF stage
  <2>3. next.stage # "signing" /\ call' = [call EXCEPT ![a] = next]
    BY <2>1, <2>2 DEF Typed, Calls
  <2> HIDE DEF next
  <2> QED
    BY <1>1, <1>8, <2>3 DEF Poll
<1>9. ASSUME NEW a \in Attempts, Observe(a) \/ RequestFails(a) PROVE KeyInv'
  <2>1. PICK stage \in {"returned", "failed"} : Goes(a, stage)
    BY <1>9 DEF Observe, RequestFails
  <2> QED
    BY <1>2, <1>9, <2>1 DEF Observe, RequestFails, Stages
<1>10. ASSUME NEW a \in Attempts, AnswerLost(a) PROVE KeyInv'
  <2>1. \A k \in Keys : checks[k] # None => checks'[k] = checks[k]
    BY <1>10 DEF AnswerLost, Typed
  <2> QED
    BY <1>2, <1>10, <2>1 DEF AnswerLost, Stages
<1>11. ASSUME NEW a \in Attempts, NEW auth \in Authorizations, NEW digest \in Authorizations,
              NEW decided \in Authorizations, NEW bound \in Terms,
              FalseCheck(a, auth, digest, decided, bound)
       PROVE  KeyInv'
  BY <1>11 DEF FalseCheck, KeyInv
<1>12. ASSUME NEW auth \in Authorizations, Execute(auth) PROVE KeyInv'
  BY <1>12 DEF Execute, KeyInv, OnRecord, Intent
<1>13. CASE UNCHANGED vars
  BY <1>13 DEF vars, KeyInv, OnRecord, Intent
<1> QED
  BY <1>3, <1>4, <1>5, <1>6, <1>7, <1>8, <1>9, <1>10, <1>11, <1>12, <1>13 DEF Next, Step

(* As long as AgentPay's answers are true, one authorization is signed per *)
(* idempotency key, however many attempts run under it, at once or one     *)
(* after the other, and whatever answers are lost.                         *)
THEOREM RetriesPayOnce == Spec => []OnePaymentPerTrueKey
<1>1. IInv /\ KeyInv => OnePaymentPerTrueKey
  <2> SUFFICES ASSUME IInv, KeyInv, lies = 0, NEW k \in Keys
               PROVE  Cardinality({s \in signed : s.key = k}) <= 1
    BY DEF OnePaymentPerTrueKey
  <2> DEFINE under == {s \in signed : s.key = k}
  <2>1. \A s, u \in under : s = u
    <3>1. \A s \in under : s = [key |-> k, auth |-> checks[k].auth]
      BY DEF KeyInv, OnRecord
    <3> QED
      BY <3>1
  <2>2. CASE under = {}
    BY <2>2, FS_EmptySet
  <2>3. CASE under # {}
    <3>1. PICK s \in under : TRUE
      BY <2>3
    <3>2. under = {s}
      BY <2>1, <3>1
    <3>3. Cardinality({s}) = 1
      BY FS_Singleton
    <3>4. Cardinality(under) = 1
      BY <3>2, <3>3
    <3> QED
      BY <3>4
  <2> QED
    BY <2>2, <2>3
<1> QED
  BY <1>1, SpecIInv, InitKeyInv, KeyStep, PTL DEF Spec, IInv

----------------------------------------------------------------------------
(* The audit page: the wallet signs what a check of this page approved,    *)
(* however late an answer comes, and a page that signed out goes quiet.    *)

Paying == {"sign", "pay", "settle", "poll"}

(* A check is asked for under a key of the page and for terms it has read; *)
(* the wallet is asked only for the terms of a check that says pay.        *)
AskedAsApproved(t) ==
         /\ t.op = "check" => t.of \in PageKeys /\ t.charge \in Charges
         /\ t.op = "sign" => /\ t.of \in PageKeys /\ db[t.of] # None
                             /\ db[t.of].verdict = "pay" /\ db[t.of].charge = t.charge

(* A check that says pay is of an authorization for its own terms, and no  *)
(* other check says pay to the same nonce.                                 *)
Pays(k) == db[k] # None /\ db[k].verdict = "pay"
PaysOnce ==
  /\ \A k \in PageKeys : Pays(k) => db[k].auth # None /\ db[k].auth.charge = db[k].charge
  /\ \A j, k \in PageKeys : Pays(j) /\ Pays(k) /\ db[j].auth.nonce = db[k].auth.nonce => j = k

AuditInv ==
  /\ page \in BOOLEAN /\ text \in Rechecking!Authorizations \cup {None}
  /\ probe.of \in Charges \cup {None}
  /\ pageCheck.of \in PageKeys \cup {None} /\ (pageCheck.of # None => db[pageCheck.of] # None)
  /\ receipt \in Rechecking!ReceiptStates
  /\ tasks \subseteq Rechecking!Tasks /\ \A t \in tasks : AskedAsApproved(t)
  /\ db \in [PageKeys -> Rechecking!Decisions \cup {None}] /\ PaysOnce
  /\ \A s \in sent : /\ s \in [check : PageKeys, accepted : Charges]
                     /\ Pays(s.check) /\ db[s.check].charge = s.accepted
  /\ Rechecking!SignedOutIsQuiet

----------------------------------------------------------------------------
(* Tasks.                                                                  *)

LEMMA TaskTyped ==
  ASSUME NEW op \in Rechecking!Ops, NEW of \in PageKeys \cup {None}, Rechecking!BoundsAssumption
  PROVE  /\ Rechecking!Task(op, of) \in Rechecking!Tasks
         /\ Rechecking!Task(op, of).op = op /\ Rechecking!Task(op, of).of = of
BY DEF Rechecking!Task, Rechecking!Tasks, Rechecking!BoundsAssumption

LEMMA StaleAreQuiet ==
  ASSUME AuditInv
  PROVE  \A u \in Rechecking!Stale : u \in Rechecking!Tasks /\ AskedAsApproved(u) /\ ~u.live
<1> SUFFICES ASSUME NEW t \in tasks
             PROVE  LET u == [t EXCEPT !.live = FALSE] IN u \in Rechecking!Tasks /\ AskedAsApproved(u) /\ ~u.live
  BY DEF Rechecking!Stale
<1> DEFINE u == [t EXCEPT !.live = FALSE]
<1>1. t \in Rechecking!Tasks /\ AskedAsApproved(t)
  BY DEF AuditInv
<1>2. u \in Rechecking!Tasks /\ ~u.live /\ u.op = t.op /\ u.of = t.of /\ u.charge = t.charge
  BY <1>1 DEF Rechecking!Tasks
<1> HIDE DEF u
<1>3. AskedAsApproved(u)
  BY <1>1, <1>2 DEF AskedAsApproved
<1> QED  BY <1>2, <1>3 DEF u

LEMMA AuditInit ==
  ASSUME Rechecking!BoundsAssumption
  PROVE  Rechecking!Init => AuditInv
<1> SUFFICES ASSUME Rechecking!Init PROVE AuditInv
  OBVIOUS
<1>1. \A k \in PageKeys : db[k] = None
  BY DEF Rechecking!Init
<1> QED  BY <1>1 DEF Rechecking!Init, AuditInv, Rechecking!Idle, PaysOnce, Pays,
     Rechecking!SignedOutIsQuiet, Rechecking!NoReceipt, Rechecking!ReceiptStates,
     Rechecking!Status

(* A step that makes no decision, starts what the page has approved, sends *)
(* what the wallet was asked for and is quiet after a sign-out.            *)
Harmless ==
  /\ UNCHANGED db
  /\ page' \in BOOLEAN /\ text' \in Rechecking!Authorizations \cup {None}
  /\ probe'.of \in Charges \cup {None}
  /\ pageCheck'.of \in PageKeys \cup {None} /\ (pageCheck'.of # None => db[pageCheck'.of] # None)
  /\ receipt' \in Rechecking!ReceiptStates
  /\ tasks' \subseteq Rechecking!Tasks /\ \A u \in tasks' : AskedAsApproved(u)
  /\ \A s \in sent' \ sent : \E t \in tasks : t.op = "sign" /\ s = [check |-> t.of, accepted |-> t.charge]
  /\ ~page' => payment' = "idle" /\ \A u \in tasks' : ~(u.op \in Paying /\ u.live)

LEMMA HarmlessKeeps ==
  ASSUME Rechecking!BoundsAssumption, AuditInv, Harmless
  PROVE  AuditInv'
<1> USE DEF AuditInv, Harmless
<1>1. PaysOnce'
  BY DEF PaysOnce, Pays
<1>2. ASSUME NEW s \in sent'
      PROVE  /\ s \in [check : PageKeys, accepted : Charges]
             /\ Pays(s.check) /\ db[s.check].charge = s.accepted
  <2>1. CASE s \in sent
    BY <2>1
  <2>2. CASE s \notin sent
    <3>1. PICK t \in tasks : t.op = "sign" /\ s = [check |-> t.of, accepted |-> t.charge]
      BY <2>2
    <3>2. /\ t.of \in PageKeys /\ db[t.of] # None
          /\ db[t.of].verdict = "pay" /\ db[t.of].charge = t.charge
      BY <3>1 DEF AskedAsApproved
    <3>3. db[t.of] \in Rechecking!Decisions
      BY <3>2
    <3>4. t.charge \in Charges
      BY <3>2, <3>3 DEF Rechecking!Decisions
    <3> QED  BY <3>1, <3>2, <3>4 DEF Pays
  <2> QED  BY <2>1, <2>2
<1>3. Rechecking!SignedOutIsQuiet'
  BY DEF Rechecking!SignedOutIsQuiet, Paying
<1>4. \A u \in tasks' : AskedAsApproved(u)'
  BY DEF AskedAsApproved
<1>5. \A s \in sent' : s \in [check : PageKeys, accepted : Charges]
                       /\ Pays(s.check)' /\ db'[s.check].charge = s.accepted
  BY <1>2 DEF Pays
<1> QED  BY <1>1, <1>3, <1>4, <1>5

(* Requests that end, or become one of which nothing has to be known.      *)
LEMMA TasksGoOn ==
  ASSUME Rechecking!BoundsAssumption, AuditInv, NEW started,
         \A u \in started : u \in Rechecking!Tasks /\ u.op \notin {"check", "sign"},
         \A u \in started : ~page' => ~(u.op \in Paying /\ u.live),
         tasks' \subseteq tasks \cup Rechecking!Stale \cup started,
         UNCHANGED <<db, sent, page>>, ~page => payment' = "idle",
         text' \in Rechecking!Authorizations \cup {None},
         probe'.of \in Charges \cup {None},
         pageCheck'.of \in {pageCheck.of, None}, receipt' \in Rechecking!ReceiptStates
  PROVE  AuditInv'
<1>1. \A u \in started : AskedAsApproved(u)
  BY DEF AskedAsApproved
<1>2. Harmless
  BY <1>1, StaleAreQuiet DEF Harmless, AuditInv, Rechecking!SignedOutIsQuiet, Paying
<1> QED  BY <1>2, HarmlessKeeps

LEMMA NothingStarts ==
  ASSUME Rechecking!BoundsAssumption, AuditInv,
         tasks' \subseteq tasks \cup Rechecking!Stale,
         UNCHANGED <<db, sent, page>>, ~page => payment' = "idle",
         text' \in Rechecking!Authorizations \cup {None},
         probe'.of \in Charges \cup {None},
         pageCheck'.of \in {pageCheck.of, None}, receipt' \in Rechecking!ReceiptStates
  PROVE  AuditInv'
<1>2. Harmless
  BY StaleAreQuiet DEF Harmless, AuditInv, Rechecking!SignedOutIsQuiet, Paying
<1> QED  BY <1>2, HarmlessKeeps

(* One request starts, or takes the place of another.                      *)
LEMMA OneStarts ==
  ASSUME Rechecking!BoundsAssumption, AuditInv, NEW u \in Rechecking!Tasks, u.op \notin {"check", "sign"},
         ~page => ~(u.op \in Paying /\ u.live),
         tasks' \subseteq tasks \cup Rechecking!Stale \cup {u},
         UNCHANGED <<db, sent, page>>, ~page => payment' = "idle",
         text' \in Rechecking!Authorizations \cup {None},
         probe'.of \in Charges \cup {None},
         pageCheck'.of \in {pageCheck.of, None}, receipt' \in Rechecking!ReceiptStates
  PROVE  AuditInv'
<1>1. AskedAsApproved(u)
  BY DEF AskedAsApproved
<1>2. Harmless
  BY <1>1, StaleAreQuiet DEF Harmless, AuditInv, Rechecking!SignedOutIsQuiet, Paying
<1> QED  BY <1>2, HarmlessKeeps

(* The page, where a step leaves it alone.                                 *)
LEMMA Quiet == ASSUME AuditInv PROVE
  /\ ~page => payment = "idle"
  /\ text \in Rechecking!Authorizations \cup {None} /\ probe.of \in Charges \cup {None}
  /\ receipt \in Rechecking!ReceiptStates
  /\ \A t \in tasks : t \in Rechecking!Tasks /\ (~page => ~(t.op \in Paying /\ t.live))
BY DEF AuditInv, Rechecking!SignedOutIsQuiet, Paying

----------------------------------------------------------------------------
(* What the visitor does.                                                  *)

LEMMA SessionKeeps ==
  ASSUME Rechecking!BoundsAssumption, AuditInv, Rechecking!SetToken \/ Rechecking!SignOut
  PROVE  AuditInv'
<1>1. CASE Rechecking!SetToken
  <2>1. Harmless
    BY <1>1 DEF Rechecking!SetToken, Harmless, AuditInv, Rechecking!server
  <2> QED  BY <2>1, HarmlessKeeps
<1>2. CASE Rechecking!SignOut
  <2>1. tasks' = Rechecking!Stale /\ payment' = "idle" /\ UNCHANGED <<db, sent>>
        /\ page' = FALSE /\ text' = None /\ probe' = Rechecking!Idle /\ pageCheck' = Rechecking!Idle /\ receipt' = Rechecking!NoReceipt
    BY <1>2 DEF Rechecking!SignOut, Rechecking!server
  <2>2. Rechecking!Idle.of = None /\ Rechecking!NoReceipt \in Rechecking!ReceiptStates
    BY DEF Rechecking!Idle, Rechecking!NoReceipt, Rechecking!ReceiptStates,
        Rechecking!Status
  <2>3. Harmless
    BY <2>1, <2>2, StaleAreQuiet DEF Harmless
  <2> QED  BY <2>3, HarmlessKeeps
<1> QED  BY <1>1, <1>2

LEMMA DraftKeeps ==
  ASSUME Rechecking!BoundsAssumption, AuditInv,
         \/ \E a \in Rechecking!Authorizations \cup {None} : Rechecking!EditAuthorization(a)
         \/ \E nonce \in Nonces : Rechecking!PreparePaymentDetails(nonce)
  PROVE  AuditInv'
<1>1. UNCHANGED <<db, sent, page, tasks, probe, pageCheck, receipt>> /\ (~page => payment' = "idle")
  BY Quiet DEF Rechecking!EditAuthorization, Rechecking!PreparePaymentDetails,
      Rechecking!server
<1>2. text' \in Rechecking!Authorizations \cup {None}
  <2>1. ASSUME NEW nonce \in Nonces, Rechecking!PreparePaymentDetails(nonce)
        PROVE  text' \in Rechecking!Authorizations
    <3>1. probe.of \in Charges
      BY <2>1, Quiet DEF Rechecking!PreparePaymentDetails
    <3> QED  BY <2>1, <3>1 DEF Rechecking!PreparePaymentDetails, Rechecking!Authorizations
  <2> QED  BY <2>1 DEF Rechecking!EditAuthorization
<1> QED  BY <1>1, <1>2, Quiet, NothingStarts

LEMMA RunProbeKeeps ==
  ASSUME Rechecking!BoundsAssumption, AuditInv, Rechecking!RunProbe
  PROVE  AuditInv'
<1> DEFINE u == Rechecking!Task("probe", None)
<1>1. u \in Rechecking!Tasks /\ u.op = "probe"
  BY TaskTyped DEF Rechecking!Ops
<1>2. /\ tasks' \subseteq Rechecking!Stale \cup {u} /\ UNCHANGED <<db, sent, page>> /\ page
      /\ text' = None /\ probe' = Rechecking!Running /\ pageCheck' = Rechecking!Idle /\ receipt' = Rechecking!NoReceipt
  BY DEF Rechecking!RunProbe, Rechecking!BeginsAlone, Rechecking!server
<1>3. Rechecking!Running.of = None /\ Rechecking!Idle.of = None /\ Rechecking!NoReceipt \in Rechecking!ReceiptStates
  BY DEF Rechecking!Running, Rechecking!Idle, Rechecking!NoReceipt,
      Rechecking!ReceiptStates, Rechecking!Status
<1> HIDE DEF u
<1> QED  BY <1>1, <1>2, <1>3, OneStarts

(* A check is asked for with the terms and the authorization on the page.  *)
LEMMA SubmitKeeps ==
  ASSUME Rechecking!BoundsAssumption, AuditInv, NEW k \in PageKeys, Rechecking!RunCheck(k) \/ Rechecking!Recheck(k)
  PROVE  AuditInv'
<1> DEFINE u == [Rechecking!Task("check", k) EXCEPT !.auth = text, !.charge = probe.of]
<1>1. /\ tasks' \subseteq tasks \cup Rechecking!Stale \cup {u} /\ UNCHANGED <<db, sent, page, text, probe>>
      /\ page /\ pageCheck' = Rechecking!Running /\ probe.of \in Charges /\ receipt' \in {receipt, Rechecking!NoReceipt}
  BY Quiet DEF Rechecking!RunCheck, Rechecking!Recheck, Rechecking!Submits,
      Rechecking!Begins, Rechecking!BeginsAlone, Rechecking!server
<1>2. Rechecking!Task("check", k) \in Rechecking!Tasks /\ Rechecking!Task("check", k).op = "check" /\ Rechecking!Task("check", k).of = k
  BY TaskTyped DEF Rechecking!Ops
<1>3. u \in Rechecking!Tasks /\ u.op = "check" /\ u.of = k /\ u.charge = probe.of
  BY <1>1, <1>2, Quiet DEF Rechecking!Tasks
<1> HIDE DEF u
<1>4. AskedAsApproved(u)
  BY <1>1, <1>3 DEF AskedAsApproved
<1>5. Rechecking!Running.of = None /\ Rechecking!NoReceipt \in Rechecking!ReceiptStates
  BY DEF Rechecking!Running, Rechecking!NoReceipt, Rechecking!ReceiptStates,
      Rechecking!Status
<1>6. Harmless
  BY <1>1, <1>3, <1>4, <1>5, StaleAreQuiet DEF Harmless, AuditInv
<1> QED  BY <1>6, HarmlessKeeps

(* The wallet is asked for the terms of the check, or nothing starts.      *)
LEMMA PayWithWalletKeeps ==
  ASSUME Rechecking!BoundsAssumption, AuditInv, Rechecking!PayWithWallet
  PROVE  AuditInv'
<1> DEFINE u == [Rechecking!Task("sign", pageCheck.of) EXCEPT !.charge = probe.of]
<1>1. UNCHANGED <<db, sent, page, text, probe, pageCheck>> /\ page /\ Rechecking!Decision = "pay"
      /\ receipt' \in Rechecking!ReceiptStates
  BY DEF Rechecking!PayWithWallet, Rechecking!server, Rechecking!NoReceipt,
      Rechecking!ReceiptStates, Rechecking!Status
<1>2. pageCheck.of \in PageKeys /\ db[pageCheck.of] # None
  BY <1>1 DEF AuditInv, Rechecking!Decision, Rechecking!BoundsAssumption,
      Rechecking!Verdicts
<1>3. CASE Rechecking!CheckedChallenge(pageCheck.of)
  <2>1. tasks' \subseteq Rechecking!Stale \cup {u}
    BY <1>3 DEF Rechecking!PayWithWallet, Rechecking!BeginsAlone
  <2>2. /\ Rechecking!Task("sign", pageCheck.of) \in Rechecking!Tasks /\ Rechecking!Task("sign", pageCheck.of).op = "sign"
        /\ Rechecking!Task("sign", pageCheck.of).of = pageCheck.of
    BY <1>2, TaskTyped DEF Rechecking!Ops
  <2>3. u \in Rechecking!Tasks /\ u.op = "sign" /\ u.of = pageCheck.of /\ u.charge = probe.of
    BY <2>2, Quiet DEF Rechecking!Tasks
  <2> HIDE DEF u
  <2>4. AskedAsApproved(u)
    BY <1>2, <1>3, <2>3 DEF AskedAsApproved, Rechecking!CheckedChallenge
  <2>5. Harmless
    BY <1>1, <2>1, <2>3, <2>4, StaleAreQuiet DEF Harmless, AuditInv
  <2> QED  BY <2>5, HarmlessKeeps
<1>4. CASE ~Rechecking!CheckedChallenge(pageCheck.of)
  <2>1. tasks' = Rechecking!Stale
    BY <1>4 DEF Rechecking!PayWithWallet
  <2> QED  BY <1>1, <2>1, Quiet, NothingStarts
<1> QED  BY <1>3, <1>4

LEMMA HandKeeps ==
  ASSUME Rechecking!BoundsAssumption, AuditInv,
         \/ \E hash \in Nonces : Rechecking!VerifySettlement(hash)
         \/ Rechecking!RecordObservation \/ Rechecking!RefreshReceipt
  PROVE  AuditInv'
<1>1. UNCHANGED <<db, sent, page, text, probe, pageCheck, payment, receipt>>
  BY DEF Rechecking!VerifySettlement, Rechecking!RecordObservation,
      Rechecking!RefreshReceipt, Rechecking!server, Rechecking!page
<1>2. ASSUME NEW hash \in Nonces, Rechecking!VerifySettlement(hash) PROVE AuditInv'
  <2> DEFINE u == [Rechecking!Task("verify", pageCheck.of) EXCEPT !.hash = hash]
  <2>1. tasks' = tasks \cup {u}
    BY <1>2 DEF Rechecking!VerifySettlement, Rechecking!Begins
  <2>2. Rechecking!Task("verify", pageCheck.of) \in Rechecking!Tasks /\ Rechecking!Task("verify", pageCheck.of).op = "verify"
    BY TaskTyped DEF Rechecking!Ops, AuditInv
  <2>3. u \in Rechecking!Tasks /\ u.op = "verify"
    BY <2>2 DEF Rechecking!Tasks
  <2> HIDE DEF u
  <2> QED  BY <1>1, <2>1, <2>3, Quiet, OneStarts DEF Paying
<1>3. CASE Rechecking!RecordObservation
  <2>1. tasks' = tasks \cup {Rechecking!Task("observe", pageCheck.of)}
    BY <1>3 DEF Rechecking!RecordObservation, Rechecking!Begins
  <2>2. Rechecking!Task("observe", pageCheck.of) \in Rechecking!Tasks /\ Rechecking!Task("observe", pageCheck.of).op = "observe"
    BY TaskTyped DEF Rechecking!Ops, AuditInv
  <2> QED  BY <1>1, <2>1, <2>2, Quiet, OneStarts DEF Paying
<1>4. CASE Rechecking!RefreshReceipt
  <2>1. tasks' = tasks \cup {Rechecking!Task("refresh", receipt.of)}
    BY <1>4 DEF Rechecking!RefreshReceipt, Rechecking!Begins
  <2>2. Rechecking!Task("refresh", receipt.of) \in Rechecking!Tasks /\ Rechecking!Task("refresh", receipt.of).op = "refresh"
    BY TaskTyped DEF Rechecking!Ops, AuditInv, Rechecking!ReceiptStates
  <2> QED  BY <1>1, <2>1, <2>2, Quiet, OneStarts DEF Paying
<1> QED  BY <1>2, <1>3, <1>4

----------------------------------------------------------------------------
(* What the answers do.                                                    *)

LEMMA ProbeKeeps ==
  ASSUME Rechecking!BoundsAssumption, AuditInv, NEW t \in tasks,
         (\E charge \in Charges \cup {None} : Rechecking!ProbeAnswered(t, charge)) \/ Rechecking!ProbeFailed(t)
  PROVE  AuditInv'
<1>1. /\ tasks' \subseteq tasks /\ UNCHANGED <<db, sent, page, text, pageCheck, payment, receipt>>
  BY DEF Rechecking!ProbeAnswered, Rechecking!ProbeFailed, Rechecking!Ends,
      Rechecking!server
<1>2. probe'.of \in Charges \cup {None}
  BY DEF Rechecking!ProbeAnswered, Rechecking!ProbeFailed, Rechecking!Shows,
      Rechecking!Failed
<1> QED  BY <1>1, <1>2, Quiet, NothingStarts

(* Requests that end without a decision.                                   *)
LEMMA EndKeeps ==
  ASSUME Rechecking!BoundsAssumption, AuditInv, NEW t \in tasks,
         \/ Rechecking!PaymentFails(t) \/ Rechecking!SettlementPollFails(t) \/ Rechecking!SettlementVerified(t)
         \/ Rechecking!VerificationFails(t) \/ Rechecking!ObservationFails(t) \/ Rechecking!ReceiptPollFails(t) \/ Rechecking!RefreshFails(t)
  PROVE  AuditInv'
<1>1. tasks' \subseteq tasks /\ UNCHANGED <<db, sent, page, text, probe, pageCheck>>
  BY DEF Rechecking!PaymentFails, Rechecking!SettlementPollFails,
      Rechecking!SettlementVerified, Rechecking!VerificationFails,
         Rechecking!ObservationFails, Rechecking!ReceiptPollFails,
         Rechecking!RefreshFails, Rechecking!Ends, Rechecking!server
<1>2. ~page => payment' = "idle"
  <2>1. CASE Rechecking!PaymentFails(t)
    BY <2>1, Quiet DEF Rechecking!PaymentFails, Paying
  <2>2. CASE UNCHANGED payment
    BY <2>2, Quiet
  <2> QED  BY <2>1, <2>2 DEF Rechecking!SettlementPollFails,
       Rechecking!SettlementVerified, Rechecking!VerificationFails,
                             Rechecking!ObservationFails, Rechecking!ReceiptPollFails,
                             Rechecking!RefreshFails
<1>3. receipt' \in Rechecking!ReceiptStates
  <2>1. receipt' \in {receipt, [receipt EXCEPT !.poll = "error"]}
    BY DEF Rechecking!PaymentFails, Rechecking!SettlementPollFails,
        Rechecking!SettlementVerified, Rechecking!VerificationFails,
           Rechecking!ObservationFails, Rechecking!ReceiptPollFails,
           Rechecking!RefreshFails
  <2>2. receipt \in Rechecking!ReceiptStates
    BY Quiet
  <2> QED  BY <2>1, <2>2 DEF Rechecking!ReceiptStates
<1> QED  BY <1>1, <1>2, <1>3, Quiet, NothingStarts

(* The wallet signs what it was asked for.                                 *)
LEMMA WalletSignsKeeps ==
  ASSUME Rechecking!BoundsAssumption, AuditInv, NEW t \in tasks, Rechecking!WalletSigns(t)
  PROVE  AuditInv'
<1> DEFINE u == [t EXCEPT !.op = "pay"]
<1>1. t \in Rechecking!Tasks /\ (~page => ~t.live)
  BY Quiet DEF Rechecking!WalletSigns, Paying
<1>2. u \in Rechecking!Tasks /\ u.op = "pay" /\ u.live = t.live
  BY <1>1 DEF Rechecking!Tasks, Rechecking!Ops
<1>3. /\ tasks' \subseteq tasks \cup {u} /\ t.op = "sign"
      /\ sent' = sent \cup {[check |-> t.of, accepted |-> t.charge]}
      /\ UNCHANGED <<db, page, text, probe, pageCheck, payment, receipt>>
  BY DEF Rechecking!WalletSigns, Rechecking!Becomes, Rechecking!page, Rechecking!server
<1> HIDE DEF u
<1>4. AskedAsApproved(u)
  BY <1>2 DEF AskedAsApproved
<1>5. Harmless
  BY <1>1, <1>2, <1>3, <1>4, Quiet DEF Harmless, AuditInv
<1> QED  BY <1>5, HarmlessKeeps

LEMMA PaidKeeps ==
  ASSUME Rechecking!BoundsAssumption, AuditInv, NEW t \in tasks, NEW hash \in Nonces, Rechecking!Paid(t, hash)
  PROVE  AuditInv'
<1> DEFINE u == [t EXCEPT !.op = "settle", !.hash = hash, !.n = 1]
<1>1. t \in Rechecking!Tasks /\ t.op = "pay" /\ (~page => ~t.live)
  BY Quiet DEF Rechecking!Paid, Paying
<1>2. u \in Rechecking!Tasks /\ u.op = "settle" /\ u.live = t.live
  <2>1. 1 \in 0..MaxPagePolls /\ "settle" \in Rechecking!Ops
    BY DEF Rechecking!BoundsAssumption, Rechecking!Ops
  <2> QED  BY <1>1, <2>1 DEF Rechecking!Tasks
<1>3. UNCHANGED <<db, sent, page, text, probe, pageCheck, receipt>>
  BY DEF Rechecking!Paid, Rechecking!server
<1>4. CASE t.live
  <2>1. tasks' \subseteq tasks \cup {u} /\ page
    BY <1>1, <1>4 DEF Rechecking!Paid, Rechecking!Becomes
  <2> HIDE DEF u
  <2> QED  BY <1>2, <1>3, <2>1, Quiet, OneStarts
<1>5. CASE ~t.live
  <2>1. tasks' \subseteq tasks /\ UNCHANGED payment
    BY <1>5 DEF Rechecking!Paid, Rechecking!Ends
  <2> QED  BY <1>3, <2>1, Quiet, NothingStarts
<1> QED  BY <1>4, <1>5

LEMMA SettlementPolledKeeps ==
  ASSUME Rechecking!BoundsAssumption, AuditInv, NEW t \in tasks, Rechecking!SettlementPolled(t)
  PROVE  AuditInv'
<1> DEFINE u == [t EXCEPT !.n = t.n + 1]
           w == Rechecking!Task("observe", t.of)
           last == Rechecking!Verdict(t.of, t.hash) # "pending" \/ t.n = MaxPagePolls
<1>1. t \in Rechecking!Tasks /\ t.op = "settle" /\ (~page => ~t.live)
  BY Quiet DEF Rechecking!SettlementPolled, Paying
<1>2. UNCHANGED <<db, sent, page, text, probe, pageCheck, receipt, payment>>
  BY DEF Rechecking!SettlementPolled
<1>3. CASE ~t.live
  <2>1. tasks' \subseteq tasks
    BY <1>3 DEF Rechecking!SettlementPolled, Rechecking!Ends
  <2> QED  BY <1>2, <2>1, Quiet, NothingStarts
<1>4. CASE t.live /\ ~last
  <2>1. tasks' \subseteq tasks \cup {u} /\ page
    BY <1>1, <1>4 DEF Rechecking!SettlementPolled, Rechecking!Becomes
  <2>2. u \in Rechecking!Tasks /\ u.op = "settle"
    BY <1>1, <1>4 DEF Rechecking!Tasks, Rechecking!BoundsAssumption
  <2> HIDE DEF u
  <2> QED  BY <1>2, <2>1, <2>2, Quiet, OneStarts
<1>5. CASE t.live /\ last
  <2>1. tasks' \subseteq tasks \cup {w} /\ page
    BY <1>1, <1>5 DEF Rechecking!SettlementPolled, Rechecking!Becomes, Rechecking!Ends
  <2>2. w \in Rechecking!Tasks /\ w.op = "observe"
    BY <1>1, TaskTyped DEF Rechecking!Tasks, Rechecking!Ops
  <2> HIDE DEF w
  <2> QED  BY <1>2, <2>1, <2>2, Quiet, OneStarts
<1> QED  BY <1>3, <1>4, <1>5

(* The loop on a receipt starts only while the visitor is signed in.       *)
LEMMA PollingKeeps ==
  ASSUME Rechecking!BoundsAssumption, AuditInv, NEW t \in tasks, Rechecking!ObservationRecorded(t) \/ Rechecking!ReceiptRefreshed(t)
  PROVE  AuditInv'
<1> DEFINE u == [Rechecking!Task("poll", t.of) EXCEPT !.n = 1]
<1>1. t \in Rechecking!Tasks
  BY Quiet
<1>2. Rechecking!Task("poll", t.of) \in Rechecking!Tasks /\ Rechecking!Task("poll", t.of).op = "poll"
  BY <1>1, TaskTyped DEF Rechecking!Tasks, Rechecking!Ops
<1>3. u \in Rechecking!Tasks /\ u.op = "poll"
  BY <1>2 DEF Rechecking!Tasks, Rechecking!BoundsAssumption
<1>4. UNCHANGED <<db, sent, page, text, probe, pageCheck, payment>> /\ Rechecking!StartsPolling(t, t.of)
  BY DEF Rechecking!ObservationRecorded, Rechecking!ReceiptRefreshed, Rechecking!server
<1>5. receipt' \in Rechecking!ReceiptStates
  BY <1>1, <1>4 DEF Rechecking!StartsPolling, Rechecking!ReceiptStates, Rechecking!Status,
      Rechecking!Tasks
<1>6. tasks' \subseteq Rechecking!Stale \/ (page /\ tasks' \subseteq Rechecking!Stale \cup {u})
  BY <1>4 DEF Rechecking!StartsPolling, Rechecking!Stale
<1> HIDE DEF u
<1>7. CASE tasks' \subseteq Rechecking!Stale
  BY <1>4, <1>5, <1>7, Quiet, NothingStarts
<1>8. CASE page /\ tasks' \subseteq Rechecking!Stale \cup {u}
  BY <1>3, <1>4, <1>5, <1>8, Quiet, OneStarts
<1> QED  BY <1>6, <1>7, <1>8

LEMMA ReceiptPolledKeeps ==
  ASSUME Rechecking!BoundsAssumption, AuditInv, NEW t \in tasks, Rechecking!ReceiptPolled(t)
  PROVE  AuditInv'
<1> DEFINE u == [t EXCEPT !.n = t.n + 1]
<1>1. t \in Rechecking!Tasks /\ t.op = "poll" /\ (~page => ~t.live)
  BY Quiet DEF Rechecking!ReceiptPolled, Paying
<1>2. UNCHANGED <<db, sent, page, text, probe, pageCheck, payment>>
  BY DEF Rechecking!ReceiptPolled, Rechecking!server
<1>3. receipt' \in Rechecking!ReceiptStates
  BY <1>1, Quiet DEF Rechecking!ReceiptPolled, Rechecking!ReceiptStates,
      Rechecking!Status, Rechecking!Tasks
<1>4. CASE t.live /\ t.of \notin anchored /\ t.n < MaxPagePolls /\ page
  <2>1. tasks' \subseteq tasks \cup {u}
    BY <1>4 DEF Rechecking!ReceiptPolled, Rechecking!Becomes
  <2>2. u \in Rechecking!Tasks /\ u.op = "poll"
    BY <1>1, <1>4 DEF Rechecking!Tasks, Rechecking!BoundsAssumption
  <2> HIDE DEF u
  <2> QED  BY <1>2, <1>3, <1>4, <2>1, <2>2, Quiet, OneStarts
<1>5. CASE ~(t.live /\ t.of \notin anchored /\ t.n < MaxPagePolls /\ page)
  <2>1. tasks' \subseteq tasks
    BY <1>5 DEF Rechecking!ReceiptPolled, Rechecking!Ends
  <2> QED  BY <1>2, <1>3, <2>1, Quiet, NothingStarts
<1> QED  BY <1>4, <1>5

----------------------------------------------------------------------------
(* A decision is made once, for the terms and the nonce that were asked.   *)

LEMMA CheckedKeeps ==
  ASSUME Rechecking!BoundsAssumption, AuditInv, NEW t \in tasks, t.op = "check", NEW verdict \in Rechecking!Verdicts,
         Rechecking!Checked(t, verdict),
         tasks' \subseteq tasks, UNCHANGED <<page, text, probe, payment, receipt, sent>>,
         pageCheck'.of \in {t.of, pageCheck.of, None}
  PROVE  AuditInv'
<1> DEFINE k == t.of
           new == [auth |-> t.auth, charge |-> t.charge, verdict |-> verdict]
<1>1. t \in Rechecking!Tasks /\ k \in PageKeys /\ t.charge \in Charges
  BY DEF AuditInv, AskedAsApproved
<1>2. new \in Rechecking!Decisions /\ new.auth = t.auth /\ new.charge = t.charge /\ new.verdict = verdict
  BY <1>1 DEF Rechecking!Decisions, Rechecking!Tasks
<1>3. new # None
  BY <1>2 DEF Rechecking!BoundsAssumption
<1>4. db' = [db EXCEPT ![k] = new]
  BY DEF Rechecking!Checked
<1>5. db[k] # None => db[k] \in Rechecking!Decisions /\ db[k].auth = new.auth
                      /\ db[k].charge = new.charge /\ db[k].verdict = new.verdict
  BY <1>1, <1>2 DEF Rechecking!Checked, Rechecking!Conflict, AuditInv
<1>6. db[k] = None /\ new.verdict = "pay" => Rechecking!MayPay(new.auth, new.charge)
  BY <1>2 DEF Rechecking!Checked
<1> HIDE DEF new, k
<1>7. \A j \in PageKeys : db'[j] = IF j = k THEN new ELSE db[j]
  BY <1>1, <1>4 DEF AuditInv
<1>8. db' \in [PageKeys -> Rechecking!Decisions \cup {None}]
  BY <1>2, <1>4 DEF AuditInv
(* What is known of a check stays known.                                   *)
<1>9. \A j \in PageKeys : db[j] # None => /\ db'[j] # None /\ db'[j].auth = db[j].auth
                                          /\ db'[j].charge = db[j].charge
                                          /\ db'[j].verdict = db[j].verdict
  BY <1>3, <1>5, <1>7
<1>10. PaysOnce'
  <2>1. \A j \in PageKeys : Pays(j)' => db'[j].auth # None /\ db'[j].auth.charge = db'[j].charge
    <3> SUFFICES ASSUME NEW j \in PageKeys, db'[j] # None, db'[j].verdict = "pay"
                 PROVE  db'[j].auth # None /\ db'[j].auth.charge = db'[j].charge
      BY DEF Pays
    <3>1. CASE db[j] # None
      BY <1>9, <3>1 DEF AuditInv, PaysOnce, Pays
    <3>2. CASE db[j] = None
      <4>1. j = k /\ db'[j] = new
        BY <1>7, <3>2
      <4> QED  BY <1>6, <3>2, <4>1 DEF Rechecking!MayPay
    <3> QED  BY <3>1, <3>2
  <2>2. ASSUME NEW i \in PageKeys, NEW j \in PageKeys, db[i] # None, db'[i].verdict = "pay",
               db[j] = None, db'[j] # None, db'[j].verdict = "pay"
        PROVE  db'[i].auth.nonce # db'[j].auth.nonce
    <3>1. j = k /\ db'[j] = new
      BY <1>7, <2>2
    <3>2. db[i].verdict = "pay" /\ db'[i].auth = db[i].auth
      BY <1>9, <2>2
    <3> QED  BY <1>6, <2>2, <3>1, <3>2 DEF Rechecking!MayPay
  <2>3. ASSUME NEW i \in PageKeys, NEW j \in PageKeys, db'[i] # None, db'[i].verdict = "pay",
               db'[j] # None, db'[j].verdict = "pay",
               db'[i].auth.nonce = db'[j].auth.nonce
        PROVE  i = j
    <3>1. CASE db[i] # None /\ db[j] # None
      BY <1>9, <2>3, <3>1 DEF AuditInv, PaysOnce, Pays
    <3>2. CASE db[i] = None /\ db[j] = None
      BY <1>7, <2>3, <3>2
    <3>3. CASE (db[i] = None) # (db[j] = None)
      BY <2>2, <2>3, <3>3
    <3> QED  BY <3>1, <3>2, <3>3
  <2> QED  BY <2>1, <2>3 DEF PaysOnce, Pays
<1>11. \A u \in tasks' : AskedAsApproved(u)'
  <2> SUFFICES ASSUME NEW u \in tasks PROVE AskedAsApproved(u)'
    OBVIOUS
  <2>1. AskedAsApproved(u)
    BY DEF AuditInv
  <2> QED  BY <1>9, <2>1 DEF AskedAsApproved
<1>12. ASSUME NEW s \in sent
       PROVE  /\ s \in [check : PageKeys, accepted : Charges]
              /\ Pays(s.check)' /\ db'[s.check].charge = s.accepted
  <2>1. /\ s \in [check : PageKeys, accepted : Charges]
        /\ Pays(s.check) /\ db[s.check].charge = s.accepted
    BY DEF AuditInv
  <2>2. s.check \in PageKeys
    BY <2>1
  <2> QED  BY <1>9, <2>1, <2>2 DEF Pays
<1>13. pageCheck'.of \in PageKeys \cup {None} /\ (pageCheck'.of # None => db'[pageCheck'.of] # None)
  BY <1>1, <1>3, <1>7, <1>9 DEF AuditInv, k
<1>14. Rechecking!SignedOutIsQuiet'
  BY DEF AuditInv, Rechecking!SignedOutIsQuiet
<1> QED  BY <1>8, <1>10, <1>11, <1>12, <1>13, <1>14 DEF AuditInv

LEMMA CheckKeeps ==
  ASSUME Rechecking!BoundsAssumption, AuditInv, NEW t \in tasks,
         (\E verdict \in Rechecking!Verdicts : Rechecking!CheckAnswered(t, verdict)) \/ Rechecking!CheckFailed(t)
  PROVE  AuditInv'
<1>1. /\ t.op = "check" /\ tasks' \subseteq tasks
      /\ UNCHANGED <<page, text, probe, payment, receipt, sent>>
      /\ pageCheck' \in {Rechecking!Shows(t.of), Rechecking!Failed}
  BY DEF Rechecking!CheckAnswered, Rechecking!CheckFailed, Rechecking!Ends
<1>2. Rechecking!Shows(t.of).of = t.of /\ Rechecking!Failed.of = None
  BY DEF Rechecking!Shows, Rechecking!Failed
<1>3. ASSUME NEW verdict \in Rechecking!Verdicts, Rechecking!Checked(t, verdict) PROVE AuditInv'
  BY <1>1, <1>2, <1>3, CheckedKeeps
<1>4. CASE UNCHANGED db /\ pageCheck' = Rechecking!Failed
  BY <1>1, <1>2, <1>4, Quiet, NothingStarts
<1> QED  BY <1>3, <1>4 DEF Rechecking!CheckAnswered, Rechecking!CheckFailed

(* The chain and the anchors are not the page's.                           *)
LEMMA WorldKeeps ==
  ASSUME AuditInv, (\E s \in sent : Rechecking!Execute(s)) \/ \E k \in PageKeys : Rechecking!Anchor(k)
  PROVE  AuditInv'
<1>1. UNCHANGED <<Rechecking!page, tasks, db, sent>>
  BY DEF Rechecking!Execute, Rechecking!Anchor
<1> QED  BY <1>1 DEF Rechecking!page, AuditInv, AskedAsApproved, PaysOnce, Pays,
     Rechecking!SignedOutIsQuiet

LEMMA AuditStep ==
  ASSUME Rechecking!BoundsAssumption
  PROVE  AuditInv /\ [Rechecking!Next]_(Rechecking!vars) => AuditInv'
<1> SUFFICES ASSUME AuditInv, [Rechecking!Next]_(Rechecking!vars) PROVE AuditInv'
  OBVIOUS
<1>1. CASE UNCHANGED Rechecking!vars
  BY <1>1 DEF Rechecking!vars, Rechecking!page, Rechecking!server, AuditInv,
      AskedAsApproved, PaysOnce, Pays, Rechecking!SignedOutIsQuiet
<1>2. CASE Rechecking!Visitor
  BY <1>2, SessionKeeps, DraftKeeps, RunProbeKeeps, SubmitKeeps, PayWithWalletKeeps,
      HandKeeps
     DEF Rechecking!Visitor
<1>3. ASSUME NEW t \in tasks, Rechecking!Progress(t) PROVE AuditInv'
  BY <1>3, ProbeKeeps, EndKeeps, WalletSignsKeeps, PaidKeeps, SettlementPolledKeeps,
      PollingKeeps,
     ReceiptPolledKeeps, CheckKeeps DEF Rechecking!Progress
<1> QED  BY <1>1, <1>2, <1>3, WorldKeeps DEF Rechecking!Next

(* Whatever answers arrive late, the wallet's signature goes only to a     *)
(* service whose charge a check of the page approved, no nonce is signed   *)
(* for two checks, and nothing of a payment goes on after a sign-out.      *)
THEOREM OnlyApprovedIsSentCorrect ==
  ASSUME Rechecking!BoundsAssumption
  PROVE  Rechecking!Spec => []OnlyApprovedIsSent
<1>1. AuditInv => Rechecking!OnlyApprovedIsSent
  <2> SUFFICES ASSUME AuditInv PROVE Rechecking!ApprovedTermsAreSent
    BY DEF AuditInv, Rechecking!OnlyApprovedIsSent
  <2>1. ASSUME NEW s \in sent
        PROVE  /\ s \in [check : PageKeys, accepted : Charges] /\ Pays(s.check)
               /\ db[s.check].charge = s.accepted /\ db[s.check].auth.charge = s.accepted
    BY DEF AuditInv, PaysOnce
  <2>2. ASSUME NEW r \in sent, NEW s \in sent, db[r.check].auth.nonce = db[s.check].auth.nonce
        PROVE  r = s
    <3>1. r.check = s.check
      BY <2>1, <2>2 DEF AuditInv, PaysOnce
    <3>2. r.accepted = s.accepted
      BY <2>1, <3>1
    <3> QED  BY <2>1, <3>1, <3>2
  <2> QED  BY <2>1, <2>2 DEF Rechecking!ApprovedTermsAreSent, Pays
<1> QED  BY <1>1, AuditInit, AuditStep, PTL DEF Rechecking!Spec, OnlyApprovedIsSent

----------------------------------------------------------------------------
(* Rules of operators: what is stored was signed by its operator, and what *)
(* a tab composed amends the policy that is current when it is stored.     *)

(* What a tab composed amends the policy it had read; no revision was      *)
(* taken in the meantime that the series does not have.                    *)
DraftAmends ==
  \A c \in Rules!Clients : job[c] # None =>
    /\ job[c].rev <= Rules!Latest(job[c].op, job[c].series) + 1
    /\ /\ Rules!NextRevision(c)
       /\ c \in Tabs /\ job[c].series = "policy"
       => Rules!Amends(job[c], Rules!Current(job[c].op))

RulesInv ==
  /\ Rules!TypeOK
  /\ Rules!StoredIsOwn
  /\ Rules!RevisionsFollow
  /\ DraftAmends

----------------------------------------------------------------------------
(* The operators.                                                          *)

LEMMA NoPolicyIsPolicy ==
  ASSUME Rules!OperatorRulesAssumption
  PROVE  Rules!NoPolicy \in Rules!Policies
BY DEF Rules!OperatorRulesAssumption, Rules!NoPolicy, Rules!Policies, Rules!Caps

LEMMA CurrentIsPolicy ==
  ASSUME Rules!OperatorRulesAssumption, Rules!TypeOK, "policy" \in Series,
         NEW o \in Operators
  PROVE  Rules!Current(o) \in Rules!Policies
<1>1. CASE Rules!Latest(o, "policy") = 0
  BY <1>1, NoPolicyIsPolicy DEF Rules!Current
<1>2. CASE Rules!Latest(o, "policy") # 0
  <2>1. log[o]["policy"] \in Seq(Rules!Entries)
    BY DEF Rules!TypeOK
  <2>2. Rules!Latest(o, "policy") \in DOMAIN log[o]["policy"]
    BY <2>1, <1>2, LenProperties DEF Rules!Latest
  <2>3. log[o]["policy"][Rules!Latest(o, "policy")].body \in Rules!Body("policy")
    BY <2>2 DEF Rules!TypeOK
  <2> QED  BY <2>3, <1>2 DEF Rules!Current, Rules!Body
<1> QED  BY <1>1, <1>2

(* What a client composes is of the kind of its series.                    *)
LEMMA DraftsFit ==
  ASSUME Rules!OperatorRulesAssumption, Rules!TypeOK,
         NEW c \in Rules!Clients, NEW s \in Series, NEW a \in Assets,
         token[c] # None, chosen[c] # None,
         NEW draft \in Rules!Drafts(c, s, a)
  PROVE  /\ draft \in Rules!Body(s)
         /\ c \in Tabs /\ s = "policy" =>
              /\ draft.kept = Rules!Current(token[c]).kept
              /\ Rules!Current(token[c]).payers \subseteq draft.payers
              /\ \A b \in Assets : b # a => draft.caps[b] = Rules!Current(token[c]).caps[b]
              /\ draft.caps[a] >= Charge
<1>1. token[c] \in Operators /\ chosen[c] \in Operators
  BY DEF Rules!TypeOK
<1>2. CASE s = "policy" /\ c \in Tabs
  <2>1. c \notin Savers
    BY <1>2 DEF Rules!OperatorRulesAssumption
  <2>2. PICK cap \in Charge..MaxCap : draft = Rules!Amended(Rules!Current(token[c]), chosen[c], a, cap)
    BY <1>2, <2>1 DEF Rules!Drafts
  <2>3. Rules!Current(token[c]) \in Rules!Policies
    BY <1>1, <1>2, CurrentIsPolicy
  <2>4. cap \in Rules!Caps /\ cap >= Charge
    BY DEF Rules!OperatorRulesAssumption, Rules!Caps
  <2>5. draft \in Rules!Policies
    BY <2>2, <2>3, <2>4, <1>1 DEF Rules!Amended, Rules!Policies
  <2> QED  BY <1>2, <2>2, <2>3, <2>4, <2>5 DEF Rules!Amended, Rules!Policies, Rules!Body
<1>3. CASE s = "policy" /\ c \in Savers
  <2>1. c \notin Tabs
    BY <1>3 DEF Rules!OperatorRulesAssumption
  <2>2. PICK cap \in {0, MaxCap} :
          draft = [caps |-> [Rules!NoPolicy.caps EXCEPT ![a] = cap], payers |-> {chosen[c]}, kept |-> CliDefault]
    BY <1>3, <2>1 DEF Rules!Drafts
  <2>3. cap \in Rules!Caps
    BY DEF Rules!OperatorRulesAssumption, Rules!Caps
  <2>4. Rules!NoPolicy.caps \in [Assets -> Rules!Caps]
    BY NoPolicyIsPolicy DEF Rules!Policies
  <2>5. draft \in Rules!Policies
    BY <2>2, <2>3, <2>4, <1>1 DEF Rules!Policies, Rules!OperatorRulesAssumption
  <2> QED  BY <1>3, <2>1, <2>5 DEF Rules!Body
<1>4. CASE s = "provider"
  <2>1. draft \in [kind : {"pin", "deny"}, asset : {a}]
    BY <1>4 DEF Rules!Drafts
  <2> QED  BY <1>4, <2>1 DEF Rules!Body, Rules!Rules
<1>5. CASE s = "control"
  <2>1. draft \in Rules!Controls
    BY <1>5 DEF Rules!Drafts
  <2> QED  BY <1>5, <2>1 DEF Rules!Body
<1>6. s \in {"policy", "provider", "control"} /\ (c \in Tabs \/ c \in Savers)
  BY DEF Rules!OperatorRulesAssumption, Rules!AllSeries, Rules!Clients
<1> QED  BY <1>2, <1>3, <1>4, <1>5, <1>6

----------------------------------------------------------------------------
(* The invariant.                                                          *)

LEMMA RulesInit ==
  ASSUME Rules!OperatorRulesAssumption
  PROVE  Rules!Init => RulesInv
<1> SUFFICES ASSUME Rules!Init PROVE RulesInv
  OBVIOUS
<1>1. \A o \in Operators, s \in Series : log[o][s] = << >>
  BY DEF Rules!Init
<1>2. Rules!TypeOK
  <2>1. << >> \in Seq(Rules!Entries)
    OBVIOUS
  <2>2. log \in [Operators -> [Series -> Seq(Rules!Entries)]]
    BY <2>1 DEF Rules!Init
  <2> QED  BY <1>1, <2>2 DEF Rules!TypeOK, Rules!Init, Rules!OperatorRulesAssumption
<1>3. Rules!StoredIsOwn
  BY <1>1 DEF Rules!Init, Rules!StoredIsOwn, Rules!RulesAreSigned, Rules!KeyFitsToken,
      Rules!Clients
<1>4. Rules!RevisionsFollow
  BY <1>1 DEF Rules!RevisionsFollow
<1>5. DraftAmends
  BY DEF Rules!Init, DraftAmends
<1> QED  BY <1>2, <1>3, <1>4, <1>5 DEF RulesInv

(* Steps of the wallets and the sessions leave rules and saves alone.      *)
Sessions ==
  \/ \E t \in Tabs :
       \/ \E o \in Operators : Rules!SwitchAccount(t, o) \/ Rules!PasteToken(t, o)
       \/ Rules!Connect(t) \/ Rules!ConnectFails(t) \/ Rules!SignOut(t) \/ Rules!Connected(t)
  \/ \E c \in Savers, o, p \in Operators : Rules!StartCommand(c, o, p)

LEMMA SessionsKeep ==
  ASSUME Rules!OperatorRulesAssumption, RulesInv, Sessions
  PROVE  RulesInv' /\ UNCHANGED log
<1> USE DEF RulesInv
<1>1. UNCHANGED <<log, job>>
  BY DEF Sessions, Rules!SwitchAccount, Rules!PasteToken, Rules!Connect,
      Rules!ConnectFails, Rules!SignOut, Rules!Connected,
         Rules!StartCommand
<1> DEFINE JobTyped == /\ account' \in [Tabs -> Operators]
                       /\ token' \in [Rules!Clients -> Operators \union {None}]
                       /\ chosen' \in [Rules!Clients -> Operators \union {None}]
                       /\ login' \in [Tabs -> Operators \union {None}]
                       /\ switches' \in 0..MaxSwitch
<1>2. JobTyped
  <2> USE DEF Rules!TypeOK, Rules!Clients, Rules!EndsWalletSession
  <2>1. ASSUME NEW t \in Tabs, NEW o \in Operators, Rules!SwitchAccount(t, o) PROVE JobTyped
    BY <2>1 DEF Rules!SwitchAccount, Rules!OperatorRulesAssumption
  <2>2. ASSUME NEW t \in Tabs, NEW o \in Operators, Rules!PasteToken(t, o) PROVE JobTyped
    BY <2>2 DEF Rules!PasteToken
  <2>3. ASSUME NEW t \in Tabs, Rules!Connect(t) PROVE JobTyped
    BY <2>3 DEF Rules!Connect
  <2>4. ASSUME NEW t \in Tabs, Rules!ConnectFails(t) PROVE JobTyped
    BY <2>4 DEF Rules!ConnectFails
  <2>5. ASSUME NEW t \in Tabs, Rules!SignOut(t) PROVE JobTyped
    BY <2>5 DEF Rules!SignOut
  <2>6. ASSUME NEW t \in Tabs, Rules!Connected(t) PROVE JobTyped
    BY <2>6 DEF Rules!Connected
  <2>7. ASSUME NEW c \in Savers, NEW o \in Operators, NEW p \in Operators, Rules!StartCommand(c, o, p)
        PROVE  JobTyped
    BY <2>7 DEF Rules!StartCommand
  <2> QED  BY <2>1, <2>2, <2>3, <2>4, <2>5, <2>6, <2>7 DEF Sessions
<1>3. Rules!KeyFitsToken'
  <2> USE DEF Rules!TypeOK, Rules!Clients, Rules!EndsWalletSession, Rules!StoredIsOwn,
       Rules!KeyFitsToken
  <2>1. ASSUME NEW t \in Tabs, NEW o \in Operators, Rules!SwitchAccount(t, o) PROVE Rules!KeyFitsToken'
    BY <2>1 DEF Rules!SwitchAccount
  <2>2. ASSUME NEW t \in Tabs, NEW o \in Operators, Rules!PasteToken(t, o) PROVE Rules!KeyFitsToken'
    BY <2>2 DEF Rules!PasteToken
  <2>3. ASSUME NEW t \in Tabs, Rules!Connect(t) PROVE Rules!KeyFitsToken'
    BY <2>3 DEF Rules!Connect
  <2>4. ASSUME NEW t \in Tabs, Rules!ConnectFails(t) PROVE Rules!KeyFitsToken'
    BY <2>4 DEF Rules!ConnectFails
  <2>5. ASSUME NEW t \in Tabs, Rules!SignOut(t) PROVE Rules!KeyFitsToken'
    BY <2>5 DEF Rules!SignOut
  <2>6. ASSUME NEW t \in Tabs, Rules!Connected(t) PROVE Rules!KeyFitsToken'
    BY <2>6 DEF Rules!Connected
  <2>7. ASSUME NEW c \in Savers, NEW o \in Operators, NEW p \in Operators, Rules!StartCommand(c, o, p)
        PROVE  Rules!KeyFitsToken'
    BY <2>7 DEF Rules!StartCommand, Rules!OperatorRulesAssumption
  <2> QED  BY <2>1, <2>2, <2>3, <2>4, <2>5, <2>6, <2>7 DEF Sessions
<1>4. Rules!TypeOK'
  BY <1>1, <1>2 DEF Rules!TypeOK
<1>5. Rules!RulesAreSigned' /\ Rules!RevisionsFollow'
  BY <1>1 DEF Rules!StoredIsOwn, Rules!RulesAreSigned, Rules!RevisionsFollow
<1>6. DraftAmends'
  BY <1>1 DEF DraftAmends, Rules!Latest, Rules!Current, Rules!NextRevision
<1> QED  BY <1>1, <1>3, <1>4, <1>5, <1>6 DEF Rules!StoredIsOwn

(* What a save becomes while it stays the same save.                       *)
LEMMA JobKeeps ==
  ASSUME Rules!OperatorRulesAssumption, RulesInv,
         NEW c \in Rules!Clients, NEW new,
         new # None =>
           /\ new \in Rules!Jobs /\ new.body \in Rules!Body(new.series)
           /\ new.rev <= Rules!Latest(new.op, new.series) + 1
           /\ new.rev = Rules!Latest(new.op, new.series) + 1 /\ c \in Tabs /\ new.series = "policy"
              => Rules!Amends(new, Rules!Current(new.op)),
         job' = [job EXCEPT ![c] = new],
         UNCHANGED <<log, account, token, chosen, login, switches>>
  PROVE  RulesInv'
<1> USE DEF RulesInv
<1>1. \A d \in Rules!Clients : job'[d] = IF d = c THEN new ELSE job[d]
  BY DEF Rules!TypeOK
<1>2. Rules!TypeOK'
  <2>1. job' \in [Rules!Clients -> Rules!Jobs \union {None}]
    BY <1>1 DEF Rules!TypeOK
  <2>2. \A d \in Rules!Clients : job'[d] # None => job'[d].body \in Rules!Body(job'[d].series)
    BY <1>1 DEF Rules!TypeOK
  <2> QED  BY <2>1, <2>2 DEF Rules!TypeOK
<1>3. Rules!StoredIsOwn' /\ Rules!RevisionsFollow'
  BY DEF Rules!StoredIsOwn, Rules!RulesAreSigned, Rules!RevisionsFollow,
      Rules!KeyFitsToken
<1>4. DraftAmends'
  BY <1>1 DEF DraftAmends, Rules!Latest, Rules!Current, Rules!NextRevision
<1> QED  BY <1>2, <1>3, <1>4

LEMMA ReadKeeps ==
  ASSUME Rules!OperatorRulesAssumption, RulesInv,
         NEW c \in Rules!Clients, NEW s \in Series, NEW a \in Assets, Rules!Read(c, s, a)
  PROVE  RulesInv'
<1> USE DEF RulesInv
<1>1. PICK draft \in Rules!Drafts(c, s, a) :
        job' = [job EXCEPT ![c] = [step |-> "challenge", op |-> token[c], signer |-> chosen[c],
                  hand |-> chosen[c], series |-> s, rev |-> Rules!Latest(token[c], s) + 1,
                  body |-> draft, asset |-> a]]
  BY DEF Rules!Read
<1>2. token[c] \in Operators /\ chosen[c] \in Operators /\ token[c] # None /\ chosen[c] # None
  BY DEF Rules!Read, Rules!TypeOK
<1>3. /\ draft \in Rules!Body(s)
      /\ c \in Tabs /\ s = "policy" =>
           /\ draft.kept = Rules!Current(token[c]).kept
           /\ Rules!Current(token[c]).payers \subseteq draft.payers
           /\ \A b \in Assets : b # a => draft.caps[b] = Rules!Current(token[c]).caps[b]
           /\ draft.caps[a] >= Charge
  BY <1>2, DraftsFit
<1>4. log[token[c]][s] \in Seq(Rules!Entries)
  BY <1>2 DEF Rules!TypeOK
<1>5. Rules!Latest(token[c], s) + 1 \in 1..MaxRevision
  BY <1>4, LenProperties DEF Rules!Read, Rules!Latest, Rules!OperatorRulesAssumption
<1>6. draft \in Rules!Bodies
  BY <1>3 DEF Rules!Bodies
<1>7. UNCHANGED <<log, account, token, chosen, login, switches>>
  BY DEF Rules!Read
<1> DEFINE new == [step |-> "challenge", op |-> token[c], signer |-> chosen[c],
                   hand |-> chosen[c], series |-> s,
                   rev |-> Rules!Latest(token[c], s) + 1,
                   body |-> draft, asset |-> a]
<1>8. new \in Rules!Jobs
  BY <1>2, <1>5, <1>6 DEF Rules!Jobs, Rules!Steps
<1>9. /\ new.body = draft /\ new.op = token[c] /\ new.series = s /\ new.asset = a
      /\ new.rev = Rules!Latest(token[c], s) + 1
  OBVIOUS
<1>10. job' = [job EXCEPT ![c] = new]
  BY <1>1
<1> HIDE DEF new
<1>11. c \in Tabs /\ new.series = "policy" => Rules!Amends(new, Rules!Current(new.op))
  BY <1>3, <1>9 DEF Rules!Amends
<1>12. new.rev <= Rules!Latest(new.op, new.series) + 1
  BY <1>5, <1>9
<1> QED  BY <1>3, <1>7, <1>8, <1>9, <1>10, <1>11, <1>12, JobKeeps

(* A save goes on, or ends without a rule.                                 *)
LEMMA SaveGoesOn ==
  ASSUME Rules!OperatorRulesAssumption, RulesInv, NEW c \in Rules!Clients,
         Rules!Challenge(c) \/ Rules!Compare(c) \/ Rules!Sign(c) \/ Rules!Fails(c)
  PROVE  RulesInv' /\ UNCHANGED log
<1> USE DEF RulesInv
<1>1. job[c] # None /\ UNCHANGED <<log, account, token, chosen, login, switches>>
  BY DEF Rules!Challenge, Rules!Compare, Rules!Sign, Rules!Fails, Rules!Moves
<1>2. CASE Rules!Fails(c)
  BY <1>1, <1>2, JobKeeps DEF Rules!Fails
<1>3. CASE Rules!Challenge(c) \/ Rules!Compare(c) \/ Rules!Sign(c)
  <2>1. job[c] \in Rules!Jobs
    BY <1>1 DEF Rules!TypeOK
  <2>2. PICK step \in Rules!Steps, hand \in Operators :
          job' = [job EXCEPT ![c] = [job[c] EXCEPT !.step = step, !.hand = hand]]
    <3>1. CASE Rules!Challenge(c)
      <4>1. job' = [job EXCEPT ![c] = [job[c] EXCEPT !.step = "sign", !.hand = job[c].hand]]
        BY <3>1, <2>1 DEF Rules!Challenge, Rules!Moves, Rules!TypeOK, Rules!Jobs
      <4> QED  BY <4>1, <2>1 DEF Rules!Steps, Rules!Jobs
    <3>2. CASE Rules!Compare(c)
      <4>1. job' = [job EXCEPT ![c] = [job[c] EXCEPT !.step = "prompt", !.hand = job[c].hand]]
        BY <3>2, <2>1 DEF Rules!Compare, Rules!Moves, Rules!TypeOK, Rules!Jobs
      <4> QED  BY <4>1, <2>1 DEF Rules!Steps, Rules!Jobs
    <3>3. CASE Rules!Sign(c)
      <4> DEFINE hand == IF c \in Tabs THEN account[c] ELSE job[c].hand
      <4>1. hand \in Operators
        BY <2>1 DEF Rules!Jobs, Rules!TypeOK
      <4>2. job' = [job EXCEPT ![c] = [job[c] EXCEPT !.step = "post", !.hand = hand]]
        BY <3>3, <2>1 DEF Rules!Sign, Rules!TypeOK, Rules!Jobs
      <4> QED  BY <4>1, <4>2 DEF Rules!Steps
    <3> QED  BY <1>3, <3>1, <3>2, <3>3
  <2> DEFINE new == [job[c] EXCEPT !.step = step, !.hand = hand]
  <2>3. /\ new \in Rules!Jobs /\ new.body = job[c].body /\ new.op = job[c].op
        /\ new.series = job[c].series /\ new.asset = job[c].asset /\ new.rev = job[c].rev
    BY <2>1 DEF Rules!Jobs
  <2>4. job' = [job EXCEPT ![c] = new]
    BY <2>2
  <2> HIDE DEF new
  <2>5. new.body \in Rules!Body(new.series)
    BY <1>1, <2>3 DEF Rules!TypeOK
  <2>6. /\ new.rev <= Rules!Latest(new.op, new.series) + 1
        /\ new.rev = Rules!Latest(new.op, new.series) + 1 /\ c \in Tabs /\ new.series = "policy"
              => Rules!Amends(new, Rules!Current(new.op))
    BY <1>1, <2>3 DEF DraftAmends, Rules!NextRevision, Rules!Amends
  <2> QED  BY <1>1, <2>3, <2>4, <2>5, <2>6, JobKeeps
<1> QED  BY <1>1, <1>2, <1>3

----------------------------------------------------------------------------
(* A post appends what its client had composed.                            *)

LEMMA AcceptAppends ==
  ASSUME Rules!OperatorRulesAssumption, RulesInv, NEW c \in Rules!Clients, Rules!Post(c),
         NEW o \in Operators, NEW s \in Series
  PROVE  /\ job[c] \in Rules!Jobs /\ job[c] # None
         /\ Rules!Entry(c) \in Rules!Entries /\ Rules!Entry(c).body \in Rules!Body(job[c].series)
         /\ log'[o][s] = IF o = job[c].op /\ s = job[c].series
                         THEN Append(log[o][s], Rules!Entry(c)) ELSE log[o][s]
         /\ log' \in [Operators -> [Series -> Seq(Rules!Entries)]]
<1> USE DEF RulesInv
<1>1. job[c] \in Rules!Jobs /\ job[c] # None
  BY DEF Rules!Post, Rules!Accept, Rules!TypeOK
<1>2. Rules!Entry(c) \in Rules!Entries
  BY <1>1 DEF Rules!Entry, Rules!Entries, Rules!Jobs
<1>3. Rules!Entry(c).body \in Rules!Body(job[c].series)
  BY <1>1 DEF Rules!Entry, Rules!TypeOK
<1> HIDE DEF RulesInv
<1> DEFINE e == Rules!Entry(c)  op == job[c].op  sr == job[c].series
<1>4. op \in Operators /\ sr \in Series
  BY <1>1 DEF Rules!Jobs
<1>5. log \in [Operators -> [Series -> Seq(Rules!Entries)]]
  BY DEF RulesInv, Rules!TypeOK
<1>6. log' = [log EXCEPT ![op][sr] = Append(@, e)]
  BY DEF Rules!Post, Rules!Accept, Rules!Saved
<1>7. e \in Rules!Entries
  BY <1>2
<1> HIDE DEF e, op, sr
<1>8. log'[o][s] = IF o = op /\ s = sr THEN Append(log[o][s], e) ELSE log[o][s]
  BY <1>4, <1>5, <1>6
<1>9. Append(log[op][sr], e) \in Seq(Rules!Entries)
  BY <1>4, <1>5, <1>7
<1>10. log' \in [Operators -> [Series -> Seq(Rules!Entries)]]
  BY <1>4, <1>5, <1>6, <1>9
<1> QED  BY <1>1, <1>2, <1>3, <1>8, <1>10 DEF e, op, sr

LEMMA PostKeeps ==
  ASSUME Rules!OperatorRulesAssumption, RulesInv, NEW c \in Rules!Clients, Rules!Post(c)
  PROVE  RulesInv'
<1> DEFINE op == job[c].op  sr == job[c].series  e == Rules!Entry(c)
<1>1. /\ job[c] \in Rules!Jobs /\ job[c] # None /\ op \in Operators /\ sr \in Series
      /\ e \in Rules!Entries /\ e.body \in Rules!Body(sr)
      /\ e.signer = op /\ e.rev = Len(log[op][sr]) + 1
  <2>1. job[c] \in Rules!Jobs /\ job[c] # None
    BY DEF Rules!Post, Rules!Accept, RulesInv, Rules!TypeOK
  <2>2. op \in Operators /\ sr \in Series
    BY <2>1 DEF Rules!Jobs
  <2>3. e \in Rules!Entries /\ e.body \in Rules!Body(sr)
    BY <2>2, AcceptAppends
  <2>4. e.signer = op
    BY DEF Rules!Post, Rules!Accept, Rules!SignedBy, Rules!OwnArtifact
  <2>5. e.rev = Len(log[op][sr]) + 1
    BY DEF Rules!Post, Rules!Accept, Rules!NextRevision, Rules!Entry, Rules!Latest
  <2> QED  BY <2>1, <2>2, <2>3, <2>4, <2>5
<1>2. \A o \in Operators, s \in Series :
        log'[o][s] = IF o = op /\ s = sr THEN Append(log[o][s], e) ELSE log[o][s]
  BY AcceptAppends
<1>3. log' \in [Operators -> [Series -> Seq(Rules!Entries)]]
  BY <1>1, AcceptAppends
<1>4. /\ UNCHANGED <<account, token, chosen, login, switches>>
      /\ job' = [job EXCEPT ![c] = None]
  BY DEF Rules!Post, Rules!Accept
<1> HIDE DEF e, op, sr
<1>5. \A o \in Operators, s \in Series : log[o][s] \in Seq(Rules!Entries)
  BY DEF RulesInv, Rules!TypeOK
(* Where an entry of a series comes from.                                  *)
<1>6. ASSUME NEW o \in Operators, NEW s \in Series, NEW i \in DOMAIN log'[o][s]
      PROVE  \/ i \in DOMAIN log[o][s] /\ log'[o][s][i] = log[o][s][i]
             \/ o = op /\ s = sr /\ i = Len(log[o][s]) + 1 /\ log'[o][s][i] = e
  <2>1. CASE o = op /\ s = sr
    <3>1. log[o][s] \in Seq(Rules!Entries) /\ log'[o][s] = Append(log[o][s], e)
      BY <1>2, <1>5, <2>1
    <3>2. /\ Len(log'[o][s]) = Len(log[o][s]) + 1
          /\ \A j \in 1..Len(log[o][s]) : log'[o][s][j] = log[o][s][j]
          /\ log'[o][s][Len(log[o][s]) + 1] = e
      BY <1>1, <3>1, AppendProperties
    <3>3. DOMAIN log[o][s] = 1..Len(log[o][s]) /\ Len(log[o][s]) \in Nat
      BY <3>1, LenProperties
    <3>4. DOMAIN log'[o][s] = 1..Len(log[o][s]) + 1
      BY <1>3, <3>2, LenProperties
    <3>5. i \in 1..Len(log[o][s]) \/ i = Len(log[o][s]) + 1
      BY <3>3, <3>4
    <3> QED  BY <2>1, <3>2, <3>3, <3>5
  <2>2. CASE ~(o = op /\ s = sr)
    BY <1>2, <2>2
  <2> QED  BY <2>1, <2>2
<1>7. \A d \in Rules!Clients : job'[d] = IF d = c THEN None ELSE job[d]
  BY <1>4 DEF RulesInv, Rules!TypeOK
<1>8. Rules!TypeOK'
  <2>1. \A o \in Operators, s \in Series : \A i \in DOMAIN log'[o][s] : log'[o][s][i].body \in Rules!Body(s)
    <3>1. \A o \in Operators, s \in Series : \A i \in DOMAIN log[o][s] : log[o][s][i].body \in Rules!Body(s)
      BY DEF RulesInv, Rules!TypeOK
    <3> QED  BY <1>1, <1>6, <3>1
  <2>2. job' \in [Rules!Clients -> Rules!Jobs \union {None}]
    BY <1>4 DEF RulesInv, Rules!TypeOK
  <2>3. \A d \in Rules!Clients : job'[d] # None => job'[d].body \in Rules!Body(job'[d].series)
    BY <1>7 DEF RulesInv, Rules!TypeOK
  <2> QED  BY <1>3, <1>4, <2>1, <2>2, <2>3 DEF RulesInv, Rules!TypeOK
<1>9. Rules!StoredIsOwn'
  <2>1. Rules!RulesAreSigned'
    BY <1>1, <1>6 DEF RulesInv, Rules!StoredIsOwn, Rules!RulesAreSigned
  <2> QED  BY <1>4, <2>1 DEF RulesInv, Rules!StoredIsOwn, Rules!KeyFitsToken
<1>10. Rules!RevisionsFollow'
  BY <1>1, <1>6 DEF RulesInv, Rules!RevisionsFollow
<1>11. DraftAmends'
  <2> DEFINE LastBody(o) == IF Len(log'[o]["policy"]) = 0 THEN Rules!NoPolicy
                            ELSE log'[o]["policy"][Len(log'[o]["policy"])].body
  <2> SUFFICES ASSUME NEW d \in Rules!Clients, d # c, job[d] # None, job'[d] = job[d]
               PROVE  /\ job[d].rev <= Len(log'[job[d].op][job[d].series]) + 1
                      /\ /\ job[d].rev = Len(log'[job[d].op][job[d].series]) + 1
                         /\ d \in Tabs /\ job[d].series = "policy"
                         => Rules!Amends(job[d], LastBody(job[d].op))
    BY <1>7 DEF DraftAmends, Rules!NextRevision, Rules!Latest, Rules!Current
  <2>2. job[d] \in Rules!Jobs
    BY DEF RulesInv, Rules!TypeOK
  <2> DEFINE o == job[d].op  s == job[d].series
  <2>3. o \in Operators /\ s \in Series /\ job[d].rev \in Int
    BY <2>2 DEF Rules!Jobs
  <2>4. /\ job[d].rev <= Len(log[o][s]) + 1
        /\ job[d].rev = Len(log[o][s]) + 1 /\ d \in Tabs /\ s = "policy"
           => Rules!Amends(job[d], Rules!Current(o))
    BY DEF RulesInv, DraftAmends, Rules!NextRevision, Rules!Latest
  <2>5. CASE o = op /\ s = sr
    <3>1. Len(log'[o][s]) = Len(log[o][s]) + 1 /\ Len(log[o][s]) \in Nat
      <4>1. log[o][s] \in Seq(Rules!Entries) /\ log'[o][s] = Append(log[o][s], e)
        BY <1>2, <1>5, <2>3, <2>5
      <4> QED  BY <1>1, <4>1, AppendProperties, LenProperties
    <3> QED  BY <2>3, <2>4, <3>1
  <2>6. CASE ~(o = op /\ s = sr)
    <3>1. log'[o][s] = log[o][s]
      BY <1>2, <2>3, <2>6
    <3>2. s = "policy" => LastBody(o) = Rules!Current(o)
      BY <3>1 DEF Rules!Current, Rules!Latest
    <3> QED  BY <2>4, <3>1, <3>2
  <2> QED  BY <2>5, <2>6
<1> QED  BY <1>8, <1>9, <1>10, <1>11 DEF RulesInv

LEMMA RulesStep ==
  ASSUME Rules!OperatorRulesAssumption
  PROVE  RulesInv /\ [Rules!Next]_(Rules!vars) => RulesInv'
<1> SUFFICES ASSUME RulesInv, [Rules!Next]_(Rules!vars) PROVE RulesInv'
  OBVIOUS
<1>1. CASE UNCHANGED Rules!vars
  BY <1>1 DEF Rules!vars, RulesInv, Rules!TypeOK, Rules!StoredIsOwn, Rules!RulesAreSigned,
      Rules!KeyFitsToken, Rules!RevisionsFollow,
              DraftAmends, Rules!NextRevision, Rules!Latest, Rules!Current
<1>2. CASE Sessions
  BY <1>2, SessionsKeep
<1>3. ASSUME NEW c \in Rules!Clients,
             \/ \E s \in Series, a \in Assets : Rules!Read(c, s, a)
             \/ Rules!Challenge(c) \/ Rules!Compare(c) \/ Rules!Sign(c) \/ Rules!Fails(c) \/ Rules!Post(c)
      PROVE  RulesInv'
  BY <1>3, ReadKeeps, SaveGoesOn, PostKeeps
<1> QED  BY <1>1, <1>2, <1>3 DEF Rules!Next, Sessions

(* A wallet never signs, and a rule is never stored, for an operator other *)
(* than the one whose session it is.                                       *)
THEOREM StoredIsOwnCorrect ==
  ASSUME Rules!OperatorRulesAssumption
  PROVE  Rules!Spec => []StoredIsOwn
<1>1. RulesInv => Rules!StoredIsOwn
  BY DEF RulesInv
<1> QED  BY <1>1, RulesInit, RulesStep, PTL DEF Rules!Spec, StoredIsOwn

(* Revisions are counted without gap or repetition.                        *)
THEOREM RevisionsFollowCorrect ==
  ASSUME Rules!OperatorRulesAssumption
  PROVE  Rules!Spec => []Rules!RevisionsFollow
<1>1. RulesInv => Rules!RevisionsFollow
  BY DEF RulesInv
<1> QED  BY <1>1, RulesInit, RulesStep, PTL DEF Rules!Spec

(* What a tab saves differs from the revision before it by one limit.      *)
THEOREM SavesKeepTheRestCorrect ==
  ASSUME Rules!OperatorRulesAssumption
  PROVE  Rules!Spec => Rules!SavesKeepTheRest
<1> DEFINE Kept ==
      \A o \in Operators, s \in Series :
        \/ log'[o][s] = log[o][s]
        \/ \E e \in {log'[o][s][Rules!Latest(o, s) + 1]} :
             /\ log'[o][s] = Append(log[o][s], e)
             /\ s = "policy" /\ e.by \in Tabs => Rules!Amends(e, Rules!Current(o))
<1>1. RulesInv /\ [Rules!Next]_(Rules!vars) => [Kept]_(Rules!vars)
  <2> SUFFICES ASSUME RulesInv, Rules!Next PROVE Kept
    OBVIOUS
  <2>1. CASE UNCHANGED log
    BY <2>1
  <2>2. ASSUME NEW c \in Rules!Clients, Rules!Post(c)
        PROVE  Kept
    <3> SUFFICES ASSUME NEW o \in Operators, NEW s \in Series,
                        log'[o][s] # log[o][s]
                 PROVE  \E e \in {log'[o][s][Rules!Latest(o, s) + 1]} :
                          /\ log'[o][s] = Append(log[o][s], e)
                          /\ s = "policy" /\ e.by \in Tabs => Rules!Amends(e, Rules!Current(o))
      OBVIOUS
    <3>1. /\ o = job[c].op /\ s = job[c].series /\ job[c] # None
          /\ Rules!Entry(c) \in Rules!Entries /\ log'[o][s] = Append(log[o][s], Rules!Entry(c))
      <4>1. /\ job[c] # None /\ Rules!Entry(c) \in Rules!Entries
            /\ log'[o][s] = IF o = job[c].op /\ s = job[c].series
                            THEN Append(log[o][s], Rules!Entry(c)) ELSE log[o][s]
        BY <2>2, AcceptAppends
      <4> QED  BY <4>1
    <3>2. log[o][s] \in Seq(Rules!Entries)
      BY DEF RulesInv, Rules!TypeOK
    <3>3. log'[o][s][Rules!Latest(o, s) + 1] = Rules!Entry(c)
      <4>1. \A e \in Rules!Entries : Append(log[o][s], e)[Len(log[o][s]) + 1] = e
        BY <3>2, AppendProperties
      <4> QED  BY <3>1, <4>1 DEF Rules!Latest
    <3>4. s = "policy" /\ Rules!Entry(c).by \in Tabs => Rules!Amends(Rules!Entry(c), Rules!Current(o))
      BY <2>2, <3>1 DEF Rules!Post, Rules!Accept, Rules!Entry, RulesInv, DraftAmends,
          Rules!Amends
    <3> QED  BY <3>1, <3>3, <3>4
  <2>3. \A c \in Rules!Clients : Rules!Challenge(c) \/ Rules!Compare(c) \/ Rules!Sign(c) \/ Rules!Fails(c) => UNCHANGED log
    BY DEF Rules!Challenge, Rules!Compare, Rules!Sign, Rules!Fails, Rules!Moves
  <2>4. \A c \in Rules!Clients, s \in Series, a \in Assets : Rules!Read(c, s, a) => UNCHANGED log
    BY DEF Rules!Read
  <2>5. Sessions => UNCHANGED log
    BY DEF Sessions, Rules!SwitchAccount, Rules!PasteToken, Rules!Connect,
        Rules!ConnectFails, Rules!SignOut, Rules!Connected,
           Rules!StartCommand
  <2> QED  BY <2>1, <2>2, <2>3, <2>4, <2>5 DEF Rules!Next, Sessions
<1>2. RulesInv /\ [Rules!Next]_(Rules!vars) => [Kept]_(Rules!vars)
  BY <1>1
<1> QED  BY <1>2, RulesInit, RulesStep, PTL DEF Rules!Spec, Rules!SavesKeepTheRest

----------------------------------------------------------------------------
(* The command line: commands that run again agree on the check of a key,  *)
(* and an exit code tells what is on record.                               *)

(* What an exit code claims of the checks and settlements on record.       *)
IsTrueExit(e, made, known) ==
  /\ e.name = "check" /\ e.code # 4 =>
       /\ e.check \in DOMAIN made /\ made[e.check].file = e.about
       /\ e.code = Cli!paymentVerdictExitCode(made[e.check].verdict)
  /\ e.name = "verify-settlement" /\ e.code \in {0, 3} =>
       /\ e.check \in DOMAIN known
       /\ <<e.code, known[e.check]>> \in {<<0, "match">>, <<3, "mismatch">>}
  /\ e.name = "call" =>
       /\ e.code = 0 => e.paid /\ e.said = "match"
       /\ e.code \in {2, 3} => (e.paid <=> e.said \in Cli!Settlements)

(* The file, the check and the payment a command is about exist.           *)
RowFits(row, made) ==
  /\ row.name = "check" => row.about \in Files
  /\ row.name = "verify-settlement" => row.about \in DOMAIN made
  /\ row.step \in {"paid", "matched"} => row.name = "call"
  /\ row.step = "matched" => row.said = "match"

OneCheckPerKey ==
  \A i, j \in DOMAIN audited :
    audited[i].file = audited[j].file /\ audited[i].file \in KeyedFiles => i = j

CliInv ==
  /\ Cli!TypeOK
  /\ \A s \in Shells : cmd[s] # None => RowFits(cmd[s], audited)
  /\ OneCheckPerKey
  /\ \A e \in exits : IsTrueExit(e, audited, booked)

----------------------------------------------------------------------------
(* What a step makes of the row of one shell, and the exit it writes.      *)

LEMMA CliInit == ASSUME Cli!CliAssumption PROVE Cli!Init => CliInv
BY DEF Cli!CliAssumption, Cli!Init, CliInv, Cli!TypeOK, OneCheckPerKey

LEMMA RowGoes ==
  ASSUME Cli!CliAssumption, CliInv, NEW s \in Shells, NEW row \in Cli!Rows, RowFits(row, audited),
         cmd' = [cmd EXCEPT ![s] = row],
         UNCHANGED <<audited, booked, exits>>, controls' \in Nat, runs' \in 0..MaxRuns
  PROVE  CliInv'
<1> USE DEF CliInv
<1>1. \A t \in Shells : cmd'[t] = IF t = s THEN row ELSE cmd[t]
  BY DEF Cli!TypeOK
<1>2. Cli!TypeOK'
  BY DEF Cli!TypeOK
<1>3. \A t \in Shells : cmd'[t] # None => RowFits(cmd'[t], audited)
  BY <1>1
<1>4. OneCheckPerKey'
  BY DEF OneCheckPerKey
<1> QED  BY <1>2, <1>3, <1>4 DEF IsTrueExit, RowFits

LEMMA RowEnds ==
  ASSUME Cli!CliAssumption, CliInv, NEW s \in Shells,
         NEW e \in Cli!Exits, IsTrueExit(e, audited, booked),
         cmd' = [cmd EXCEPT ![s] = None], exits' = exits \union {e},
         UNCHANGED <<audited, booked>>, controls' \in Nat, runs' \in 0..MaxRuns
  PROVE  CliInv'
<1> USE DEF CliInv
<1>1. \A t \in Shells : cmd'[t] = IF t = s THEN None ELSE cmd[t]
  BY DEF Cli!TypeOK
<1>2. Cli!TypeOK'
  BY DEF Cli!TypeOK
<1>3. \A t \in Shells : cmd'[t] # None => RowFits(cmd'[t], audited)
  BY <1>1
<1>4. OneCheckPerKey'
  BY DEF OneCheckPerKey
<1> QED  BY <1>2, <1>3, <1>4 DEF IsTrueExit, RowFits

(* writeResult and writeError, for a command that is not a check.          *)
LEMMA ExitKeeps ==
  ASSUME Cli!CliAssumption, CliInv, NEW s \in Shells, cmd[s] # None,
         NEW code \in Cli!Codes,
         NEW said \in Cli!Verdicts \union Cli!Settlements \union Cli!Errors \union {"ok"},
         NEW check \in Nat \union {None}, NEW paid \in BOOLEAN,
         Cli!Exit(s, code, said, check, paid), UNCHANGED <<audited, booked>>,
         controls' \in Nat,
         IsTrueExit([name |-> cmd[s].name, about |-> cmd[s].about, code |-> code,
                     said |-> said, check |-> check, paid |-> paid], audited, booked)
  PROVE  CliInv'
<1> DEFINE e == [name |-> cmd[s].name, about |-> cmd[s].about, code |-> code,
                 said |-> said, check |-> check, paid |-> paid]
<1>1. cmd[s] \in Cli!Rows
  BY DEF CliInv, Cli!TypeOK
<1>2. e \in Cli!Exits
  BY <1>1 DEF Cli!Rows, Cli!Exits
<1>3. cmd' = [cmd EXCEPT ![s] = None] /\ exits' = exits \union {e} /\ runs' = runs
  BY DEF Cli!Exit
<1>4. IsTrueExit(e, audited, booked)
  OBVIOUS
<1>5. runs' \in 0..MaxRuns
  BY <1>3 DEF CliInv, Cli!TypeOK
<1> HIDE DEF e
<1> QED  BY <1>2, <1>3, <1>4, <1>5, RowEnds

LEMMA ErrsKeeps ==
  ASSUME Cli!CliAssumption, CliInv, NEW s \in Shells, cmd[s] # None,
         NEW why \in Cli!Errors, NEW paid \in BOOLEAN, Cli!Errs(s, why, paid)
  PROVE  CliInv'
<1>1. Cli!Exit(s, 4, why, None, paid) /\ UNCHANGED <<audited, booked, controls>>
  BY DEF Cli!Errs
<1>2. controls' \in Nat
  BY <1>1 DEF CliInv, Cli!TypeOK
<1>3. IsTrueExit([name |-> cmd[s].name, about |-> cmd[s].about, code |-> 4,
                  said |-> why, check |-> None, paid |-> paid], audited, booked)
  BY DEF IsTrueExit
<1> QED  BY <1>1, <1>2, <1>3, ExitKeeps DEF Cli!Codes

LEMMA GoesKeeps ==
  ASSUME Cli!CliAssumption, CliInv, NEW s \in Shells, cmd[s] # None,
         NEW step \in Cli!Steps, Cli!Goes(s, step), step # "matched",
         step = "paid" => cmd[s].name = "call"
  PROVE  CliInv'
<1>1. cmd[s] \in Cli!Rows /\ RowFits(cmd[s], audited)
  BY DEF CliInv, Cli!TypeOK
<1> DEFINE row == [cmd[s] EXCEPT !.step = step,
                                 !.given = IF step = "credential" THEN @ ELSE {}]
<1>2. cmd' = [cmd EXCEPT ![s] = row]
  BY <1>1 DEF Cli!Goes, CliInv, Cli!TypeOK, Cli!Rows
<1>3. /\ row \in Cli!Rows /\ row.name = cmd[s].name /\ row.about = cmd[s].about
      /\ row.step = step
  BY <1>1 DEF Cli!Rows
<1>4. RowFits(row, audited)
  BY <1>1, <1>3 DEF RowFits
<1>5. UNCHANGED <<audited, booked, exits>> /\ controls' \in Nat /\ runs' \in 0..MaxRuns
  BY DEF Cli!Goes, CliInv, Cli!TypeOK
<1> HIDE DEF row
<1> QED  BY <1>2, <1>3, <1>4, <1>5, RowGoes

----------------------------------------------------------------------------
(* The steps.                                                              *)

LEMMA StartKeeps ==
  ASSUME Cli!CliAssumption, CliInv, NEW s \in Shells, NEW name \in Names, NEW given \in Given,
         NEW about \in Cli!Subjects(name), Cli!Start(s, name, about, given)
  PROVE  CliInv'
<1> DEFINE row == [name |-> name, about |-> about, given |-> given,
                   step |-> "input", said |-> "ok"]
<1>1. name \in Cli!Commands /\ given \in SUBSET {"token", "session", "key"}
  BY DEF Cli!CliAssumption
<1>2. /\ name = "check" => about \in Files
      /\ name = "verify-settlement" => about \in DOMAIN audited
      /\ about \in Cli!About
  <2>1. CASE name = "check"
    BY <2>1 DEF Cli!Subjects, Cli!About
  <2>2. CASE name = "verify-settlement"
    <3>1. about \in DOMAIN audited
      BY <2>2 DEF Cli!Subjects
    <3>2. DOMAIN audited = 1..Len(audited) /\ Len(audited) \in Nat
      BY LenProperties DEF CliInv, Cli!TypeOK
    <3> QED  BY <2>2, <3>1, <3>2 DEF Cli!About
  <2>3. CASE name \notin {"check", "verify-settlement"}
    BY <2>3 DEF Cli!Subjects, Cli!About
  <2> QED  BY <2>1, <2>2, <2>3
<1>3. row \in Cli!Rows /\ RowFits(row, audited)
  BY <1>1, <1>2 DEF Cli!Rows, Cli!Steps, RowFits
<1>4. /\ cmd' = [cmd EXCEPT ![s] = row]
      /\ UNCHANGED <<audited, booked, exits>> /\ controls' \in Nat /\ runs' \in 0..MaxRuns
  BY DEF Cli!Start, CliInv, Cli!TypeOK, Cli!CliAssumption
<1> HIDE DEF row
<1> QED  BY <1>3, <1>4, RowGoes

LEMMA InputKeeps ==
  ASSUME Cli!CliAssumption, CliInv, NEW s \in Shells,
         \/ Cli!InputRefused(s) \/ Cli!HashRefused(s) \/ Cli!InputRead(s) \/ Cli!Configured(s)
         \/ Cli!ConfigurationRequired(s) \/ Cli!LoggedIn(s) \/ Cli!CannotSign(s) \/ Cli!RequestFails(s)
         \/ Cli!CallPays(s) \/ Cli!PaidCallFails(s)
  PROVE  CliInv'
<1>0. cmd[s] # None
  BY DEF Cli!InputRefused, Cli!HashRefused, Cli!InputRead, Cli!Configured,
      Cli!ConfigurationRequired, Cli!LoggedIn,
         Cli!CannotSign, Cli!RequestFails, Cli!CallPays, Cli!PaidCallFails, Cli!At
<1>1. CASE Cli!InputRefused(s)
  BY <1>0, <1>1, ErrsKeeps DEF Cli!InputRefused, Cli!Errors
<1>2. CASE Cli!HashRefused(s)
  BY <1>0, <1>2, ErrsKeeps DEF Cli!HashRefused, Cli!Errors
<1>3. CASE Cli!InputRead(s)
  BY <1>0, <1>3, GoesKeeps DEF Cli!InputRead, Cli!Steps
<1>4. CASE Cli!Configured(s)
  BY <1>0, <1>4, GoesKeeps DEF Cli!Configured, Cli!Steps
<1>5. CASE Cli!ConfigurationRequired(s)
  BY <1>0, <1>5, ErrsKeeps DEF Cli!ConfigurationRequired, Cli!Errors
<1>6. CASE Cli!LoggedIn(s)
  <2>1. CASE cmd[s].name = "session"
    <3>1. Cli!Exit(s, 0, "ok", None, FALSE) /\ UNCHANGED <<audited, booked, controls>>
      BY <1>6, <2>1 DEF Cli!LoggedIn
    <3>2. controls' \in Nat
      BY <3>1 DEF CliInv, Cli!TypeOK
    <3>3. IsTrueExit([name |-> cmd[s].name, about |-> cmd[s].about, code |-> 0,
                      said |-> "ok", check |-> None, paid |-> FALSE], audited, booked)
      BY <2>1 DEF IsTrueExit
    <3> QED  BY <1>0, <3>1, <3>2, <3>3, ExitKeeps DEF Cli!Codes
  <2>2. CASE cmd[s].name # "session"
    BY <1>0, <1>6, <2>2, GoesKeeps DEF Cli!LoggedIn, Cli!Steps
  <2> QED  BY <2>1, <2>2
<1>7. CASE Cli!CannotSign(s)
  BY <1>0, <1>7, ErrsKeeps DEF Cli!CannotSign, Cli!Errors
<1>8. CASE Cli!RequestFails(s)
  BY <1>0, <1>8, ErrsKeeps DEF Cli!RequestFails, Cli!Errors
<1>9. CASE Cli!CallPays(s)
  BY <1>0, <1>9, GoesKeeps DEF Cli!CallPays, Cli!Steps
<1>10. CASE Cli!PaidCallFails(s)
  BY <1>0, <1>10, ErrsKeeps DEF Cli!PaidCallFails, Cli!Errors
<1> QED  BY <1>1, <1>2, <1>3, <1>4, <1>5, <1>6, <1>7, <1>8, <1>9, <1>10

(* A check is known by its key, or made now.                               *)
LEMMA CheckCommandKeeps ==
  ASSUME Cli!CliAssumption, CliInv, NEW s \in Shells, NEW verdict \in Cli!Verdicts, NEW arrives \in BOOLEAN,
         Cli!Check(s, verdict, arrives)
  PROVE  CliInv'
<1> DEFINE file == cmd[s].about
           new == [file |-> file, verdict |-> verdict]
           made == Append(audited, new)
           known == Cli!SameKey(file)
<1>1. /\ cmd[s] # None /\ cmd[s].name = "check" /\ cmd[s] \in Cli!Rows /\ file \in Files
      /\ controls' = controls
  BY DEF Cli!Check, Cli!At, CliInv, Cli!TypeOK, RowFits
<1>2. /\ audited \in Seq(Cli!Checks) /\ booked \in Seq(Cli!Settlements)
      /\ Len(booked) = Len(audited) /\ Len(audited) \in Nat
      /\ DOMAIN audited = 1..Len(audited) /\ DOMAIN booked = 1..Len(audited)
  BY LenProperties DEF CliInv, Cli!TypeOK
<1>3. new \in Cli!Checks /\ new.file = file /\ new.verdict = verdict
  BY <1>1 DEF Cli!Checks
<1>4. known \subseteq DOMAIN audited
  BY DEF Cli!SameKey
(* The records after the step extend those before it.                      *)
<1>5. /\ audited' \in Seq(Cli!Checks) /\ booked' \in Seq(Cli!Settlements)
      /\ Len(booked') = Len(audited') /\ Len(audited') \in Nat
      /\ DOMAIN audited \subseteq DOMAIN audited' /\ DOMAIN booked \subseteq DOMAIN booked'
      /\ \A i \in DOMAIN audited : audited'[i] = audited[i] /\ booked'[i] = booked[i]
  <2>1. CASE known = {}
    <3>1. audited' = made /\ booked' = Append(booked, "pending")
      BY <2>1 DEF Cli!Check
    <3>2. made \in Seq(Cli!Checks) /\ Len(made) = Len(audited) + 1
          /\ \A i \in 1..Len(audited) : made[i] = audited[i]
      BY <1>2, <1>3, AppendProperties
    <3>3. Append(booked, "pending") \in Seq(Cli!Settlements)
          /\ Len(Append(booked, "pending")) = Len(booked) + 1
          /\ \A i \in 1..Len(booked) : Append(booked, "pending")[i] = booked[i]
      BY <1>2, AppendProperties DEF Cli!Settlements
    <3>4. DOMAIN audited' = 1..Len(audited') /\ DOMAIN booked' = 1..Len(booked')
      BY <3>1, <3>2, <3>3, LenProperties
    <3> QED  BY <1>2, <3>1, <3>2, <3>3, <3>4
  <2>2. CASE known # {}
    <3>1. audited' = audited /\ booked' = booked
      BY <2>2 DEF Cli!Check
    <3> QED  BY <1>2, <3>1
  <2> QED  BY <2>1, <2>2
(* The check the key stands for now.                                       *)
<1> DEFINE at == IF known = {} THEN Len(made) ELSE CHOOSE i \in known : TRUE
<1>6. /\ at \in DOMAIN audited' /\ audited'[at].file = file
      /\ audited'[at].verdict = verdict \/ known # {}
  <2>1. CASE known = {}
    <3>1. audited' = made /\ at = Len(made)
      BY <2>1 DEF Cli!Check
    <3>2. Len(made) = Len(audited) + 1 /\ made[Len(audited) + 1] = new /\ made \in Seq(Cli!Checks)
      BY <1>2, <1>3, AppendProperties
    <3>3. DOMAIN made = 1..Len(made)
      BY <3>2, LenProperties
    <3> HIDE DEF made, new
    <3> QED  BY <1>2, <1>3, <3>1, <3>2, <3>3
  <2>2. CASE known # {}
    <3>1. at \in known
      BY <2>2
    <3> QED  BY <1>4, <1>5, <2>2, <3>1 DEF Cli!SameKey
  <2> QED  BY <2>1, <2>2
<1>7. audited'[at].verdict = verdict
  <2>1. CASE known # {}
    <3>1. PICK j \in known : audited[j].verdict = verdict
      BY <2>1 DEF Cli!Check
    <3>2. at \in known
      BY <2>1
    <3>3. at = j
      BY <1>4, <3>1, <3>2 DEF CliInv, OneCheckPerKey, Cli!SameKey
    <3> QED  BY <1>4, <1>5, <3>1, <3>3
  <2> QED  BY <1>6, <2>1
<1>8. OneCheckPerKey'
  <2> SUFFICES ASSUME NEW i \in DOMAIN audited', NEW j \in DOMAIN audited',
                      audited'[i].file = audited'[j].file, audited'[i].file \in KeyedFiles
               PROVE  i = j
    BY DEF OneCheckPerKey
  <2>1. CASE known # {}
    <3>1. audited' = audited
      BY <2>1 DEF Cli!Check
    <3> QED  BY <3>1 DEF CliInv, OneCheckPerKey
  <2>2. CASE known = {}
    <3>1. audited' = made
      BY <2>2 DEF Cli!Check
    <3>2. made \in Seq(Cli!Checks) /\ Len(made) = Len(audited) + 1 /\ made[Len(audited) + 1] = new
      BY <1>2, <1>3, AppendProperties
    <3>3. DOMAIN audited' = 1..Len(audited) + 1
      BY <3>1, <3>2, LenProperties
    <3>4. \A k \in DOMAIN audited : audited'[k].file \in KeyedFiles => audited'[k].file # file
      BY <1>5, <2>2 DEF Cli!SameKey
    <3>5. audited'[Len(audited) + 1].file = file
      BY <1>3, <3>1, <3>2
    <3>6. \A k \in DOMAIN audited' : k \in DOMAIN audited \/ k = Len(audited) + 1
      BY <1>2, <3>3
    <3>7. \A k, l \in DOMAIN audited :
            audited'[k].file = audited'[l].file /\ audited'[k].file \in KeyedFiles => k = l
      BY <1>5 DEF CliInv, OneCheckPerKey
    <3> HIDE DEF made, new, known
    <3> QED  BY <3>4, <3>5, <3>6, <3>7
  <2> QED  BY <2>1, <2>2
<1>9. /\ \A e \in exits : IsTrueExit(e, audited', booked')
      /\ \A t \in Shells : cmd[t] # None => RowFits(cmd[t], audited')
  <2>1. DOMAIN booked = DOMAIN audited
    BY <1>2
  <2> QED  BY <1>5, <2>1 DEF CliInv, IsTrueExit, RowFits
<1>10. PICK e \in Cli!Exits : /\ exits' = exits \union {e}
                              /\ IsTrueExit(e, audited', booked')
  <2>1. CASE arrives
    <3> DEFINE code == Cli!paymentVerdictExitCode(verdict)
               e == [name |-> cmd[s].name, about |-> cmd[s].about, code |-> code,
                     said |-> verdict, check |-> at, paid |-> FALSE]
    <3>1. exits' = exits \union {e}
      BY <2>1 DEF Cli!Check, Cli!Exit
    <3>2. code \in Cli!Codes
      BY DEF Cli!paymentVerdictExitCode, Cli!Codes, Cli!Verdicts
    <3>3. at \in Nat
      BY <1>5, <1>6, LenProperties
    <3>4. e \in Cli!Exits
      BY <1>1, <3>2, <3>3 DEF Cli!Exits, Cli!Rows
    <3>5. /\ e.name = "check" /\ e.about = file /\ e.check = at
          /\ e.code = Cli!paymentVerdictExitCode(verdict)
      BY <1>1
    <3> HIDE DEF e, code, at, file
    <3>6. IsTrueExit(e, audited', booked')
      BY <1>6, <1>7, <3>5 DEF IsTrueExit
    <3> QED  BY <3>1, <3>4, <3>6
  <2>2. CASE ~arrives
    <3> DEFINE e == [name |-> cmd[s].name, about |-> cmd[s].about, code |-> 4,
                     said |-> "api_error", check |-> None, paid |-> FALSE]
    <3>1. exits' = exits \union {e}
      BY <2>2 DEF Cli!Check, Cli!Exit
    <3>2. e \in Cli!Exits
      BY <1>1 DEF Cli!Exits, Cli!Rows, Cli!Codes, Cli!Errors
    <3>3. e.name = "check" /\ e.code = 4
      BY <1>1
    <3>4. IsTrueExit(e, audited', booked')
      BY <3>3 DEF IsTrueExit
    <3> QED  BY <3>1, <3>2, <3>4
  <2> QED  BY <2>1, <2>2
<1>11. cmd' = [cmd EXCEPT ![s] = None] /\ runs' = runs
  BY DEF Cli!Check, Cli!Exit
<1>12. Cli!TypeOK'
  BY <1>1, <1>5, <1>10, <1>11 DEF CliInv, Cli!TypeOK
<1>13. \A t \in Shells : cmd'[t] # None => RowFits(cmd'[t], audited')
  <2>1. \A t \in Shells : cmd'[t] = IF t = s THEN None ELSE cmd[t]
    BY <1>11 DEF CliInv, Cli!TypeOK
  <2> QED  BY <1>9, <2>1
<1> QED  BY <1>8, <1>9, <1>10, <1>12, <1>13 DEF CliInv, RowFits, IsTrueExit

LEMMA LookKeeps ==
  ASSUME Cli!CliAssumption, CliInv, NEW i \in DOMAIN audited, NEW verdict \in Cli!Settlements,
         Cli!Look(i, verdict)
  PROVE  CliInv'
<1> USE DEF CliInv
<1>1. /\ booked \in Seq(Cli!Settlements) /\ DOMAIN audited = 1..Len(audited)
      /\ DOMAIN booked = 1..Len(audited)
  BY LenProperties DEF Cli!TypeOK
<1>2. booked' \in Seq(Cli!Settlements) /\ Len(booked') = Len(booked) /\ DOMAIN booked' = DOMAIN booked
  BY <1>1 DEF Cli!Look
<1>3. \A j \in DOMAIN booked : booked'[j] = booked[j] \/ booked[j] \in {"pending", "unverifiable"}
  BY <1>1 DEF Cli!Look
<1>4. UNCHANGED <<cmd, audited, controls, runs, exits>>
  BY DEF Cli!Look
<1>5. Cli!TypeOK'
  BY <1>2, <1>4 DEF Cli!TypeOK
<1>6. OneCheckPerKey'
  BY <1>4 DEF OneCheckPerKey
<1>7. ASSUME NEW e \in exits PROVE IsTrueExit(e, audited, booked')
  BY <1>2, <1>3 DEF IsTrueExit
<1> QED  BY <1>4, <1>5, <1>6, <1>7 DEF RowFits, IsTrueExit

LEMMA VerifySettlementKeeps ==
  ASSUME Cli!CliAssumption, CliInv, NEW s \in Shells, Cli!VerifySettlement(s)
  PROVE  CliInv'
<1> DEFINE about == cmd[s].about
           verdict == booked[about]
<1>1. cmd[s] # None /\ cmd[s].name = "verify-settlement"
  BY DEF Cli!VerifySettlement, Cli!At
<1>2. about \in DOMAIN audited
  BY <1>1 DEF CliInv, RowFits
<1>3. about \in DOMAIN booked /\ verdict \in Cli!Settlements /\ about \in Nat
  BY <1>2, LenProperties DEF CliInv, Cli!TypeOK
<1>4. /\ Cli!Exit(s, Cli!settlementVerdictExitCode(verdict), verdict, about, FALSE)
      /\ UNCHANGED <<audited, booked>> /\ controls' \in Nat
  BY DEF Cli!VerifySettlement, CliInv, Cli!TypeOK
<1>5. Cli!settlementVerdictExitCode(verdict) \in Cli!Codes
  BY <1>3 DEF Cli!settlementVerdictExitCode, Cli!Settlements, Cli!Codes
<1>6. Cli!settlementVerdictExitCode(verdict) \in {0, 3}
      => <<Cli!settlementVerdictExitCode(verdict), verdict>> \in {<<0, "match">>, <<3, "mismatch">>}
  BY <1>3 DEF Cli!settlementVerdictExitCode, Cli!Settlements
<1>7. IsTrueExit([name |-> cmd[s].name, about |-> about, code |-> Cli!settlementVerdictExitCode(verdict),
                  said |-> verdict, check |-> about, paid |-> FALSE], audited, booked)
  BY <1>1, <1>3, <1>6 DEF IsTrueExit
<1> QED  BY <1>1, <1>3, <1>4, <1>5, <1>7, ExitKeeps

(* Commands that say neither what a check nor what a settlement is.        *)
LEMMA PlainExitKeeps ==
  ASSUME Cli!CliAssumption, CliInv, NEW s \in Shells, cmd[s] # None,
         cmd[s].name \notin {"check", "verify-settlement", "call"},
         NEW code \in Cli!Codes, NEW said \in Cli!Errors \union {"ok"},
         Cli!Exit(s, code, said, None, FALSE), UNCHANGED <<audited, booked>>,
         controls' \in Nat
  PROVE  CliInv'
<1>1. IsTrueExit([name |-> cmd[s].name, about |-> cmd[s].about, code |-> code,
                  said |-> said, check |-> None, paid |-> FALSE], audited, booked)
  BY DEF IsTrueExit
<1> QED  BY <1>1, ExitKeeps

LEMMA PlainKeeps ==
  ASSUME Cli!CliAssumption, CliInv, NEW s \in Shells, NEW b \in BOOLEAN,
         Cli!VerifyReceipt(s, b) \/ Cli!SaveControl(s, b) \/ Cli!Show(s)
  PROVE  CliInv'
<1>1. CASE Cli!VerifyReceipt(s, b)
  <2>1. /\ cmd[s] # None /\ cmd[s].name = "verify receipt"
        /\ UNCHANGED <<audited, booked>> /\ controls' \in Nat
    BY <1>1 DEF Cli!VerifyReceipt, Cli!At, CliInv, Cli!TypeOK
  <2>2. CASE b
    <3>1. Cli!Exit(s, 0, "ok", None, FALSE)
      BY <1>1, <2>2 DEF Cli!VerifyReceipt
    <3> QED  BY <2>1, <3>1, PlainExitKeeps DEF Cli!Codes
  <2>3. CASE ~b
    <3>1. Cli!Exit(s, 4, "invalid_receipt", None, FALSE)
      BY <1>1, <2>3 DEF Cli!VerifyReceipt
    <3> QED  BY <2>1, <3>1, PlainExitKeeps DEF Cli!Codes, Cli!Errors
  <2> QED  BY <2>2, <2>3
<1>2. CASE Cli!SaveControl(s, b)
  <2>1. /\ cmd[s] # None /\ cmd[s].name \in {"control", "provider"}
        /\ UNCHANGED <<audited, booked>> /\ controls' \in Nat
    BY <1>2 DEF Cli!SaveControl, Cli!At, CliInv, Cli!TypeOK
  <2>2. CASE b
    <3>1. Cli!Exit(s, 0, "ok", None, FALSE)
      BY <1>2, <2>2 DEF Cli!SaveControl
    <3> QED  BY <2>1, <3>1, PlainExitKeeps DEF Cli!Codes
  <2>3. CASE ~b
    <3>1. Cli!Exit(s, 4, "api_error", None, FALSE)
      BY <1>2, <2>3 DEF Cli!SaveControl
    <3> QED  BY <2>1, <3>1, PlainExitKeeps DEF Cli!Codes, Cli!Errors
  <2> QED  BY <2>2, <2>3
<1>3. CASE Cli!Show(s)
  <2>1. /\ cmd[s] # None /\ cmd[s].name \in Cli!Reading
        /\ UNCHANGED <<audited, booked>> /\ controls' \in Nat
    BY <1>3 DEF Cli!Show, Cli!At, CliInv, Cli!TypeOK
  <2>2. \/ Cli!Exit(s, 4, "policy_not_found", None, FALSE)
        \/ Cli!Exit(s, 0, "ok", None, FALSE)
    BY <1>3 DEF Cli!Show
  <2>3. cmd[s].name \notin {"check", "verify-settlement", "call"}
    BY <2>1 DEF Cli!Reading
  <2> QED  BY <2>1, <2>2, <2>3, PlainExitKeeps DEF Cli!Codes, Cli!Errors
<1> QED  BY <1>1, <1>2, <1>3

LEMMA CallKeeps ==
  ASSUME Cli!CliAssumption, CliInv, NEW s \in Shells, NEW b \in BOOLEAN,
         \/ Cli!CallEnds(s, b)
         \/ \E v \in Cli!Verdicts : Cli!CallRefused(s, v)
         \/ \E v \in Cli!Settlements : Cli!CallSettled(s, v)
  PROVE  CliInv'
<1>0. cmd[s] # None /\ cmd[s] \in Cli!Rows /\ RowFits(cmd[s], audited) /\ controls \in Nat
  BY DEF Cli!CallEnds, Cli!CallRefused, Cli!CallSettled, Cli!At, CliInv, Cli!TypeOK
<1>1. ASSUME Cli!CallEnds(s, b) PROVE CliInv'
  <2>1. /\ cmd[s].name = "call" /\ cmd[s].said = "match"
        /\ UNCHANGED <<audited, booked, controls>>
        /\ Cli!Exit(s, IF b THEN 0 ELSE 4, "match", None, TRUE)
    BY <1>0, <1>1 DEF Cli!CallEnds, Cli!At, RowFits
  <2>2. IsTrueExit([name |-> cmd[s].name, about |-> cmd[s].about, code |-> IF b THEN 0 ELSE 4,
                    said |-> "match", check |-> None, paid |-> TRUE], audited, booked)
    BY <2>1 DEF IsTrueExit
  <2> QED  BY <1>0, <2>1, <2>2, ExitKeeps DEF Cli!Codes, Cli!Settlements
<1>2. ASSUME NEW v \in Cli!Verdicts, Cli!CallRefused(s, v) PROVE CliInv'
  <2>1. /\ cmd[s].name = "call" /\ UNCHANGED <<audited, booked, controls>>
        /\ Cli!Exit(s, Cli!mapError(v), v, None, FALSE) /\ v \in {"review", "block"}
    BY <1>2 DEF Cli!CallRefused
  <2>2. Cli!mapError(v) \in {2, 3}
    BY <2>1 DEF Cli!mapError
  <2>3. IsTrueExit([name |-> cmd[s].name, about |-> cmd[s].about, code |-> Cli!mapError(v),
                    said |-> v, check |-> None, paid |-> FALSE], audited, booked)
    BY <2>1, <2>2 DEF IsTrueExit, Cli!Settlements
  <2> QED  BY <1>0, <2>1, <2>2, <2>3, ExitKeeps DEF Cli!Codes
<1>3. ASSUME NEW v \in Cli!Settlements, Cli!CallSettled(s, v) PROVE CliInv'
  <2>1. cmd[s].name = "call" /\ UNCHANGED <<audited, booked, controls>>
    BY <1>0, <1>3 DEF Cli!CallSettled, Cli!At, RowFits
  <2>2. CASE v = "match"
    <3> DEFINE row == [cmd[s] EXCEPT !.step = "matched", !.said = v]
    <3>1. cmd' = [cmd EXCEPT ![s] = row] /\ UNCHANGED <<runs, exits>>
      BY <1>0, <1>3, <2>2 DEF Cli!CallSettled, Cli!GoesOn, CliInv, Cli!TypeOK, Cli!Rows
    <3>2. row \in Cli!Rows /\ row.name = "call" /\ row.said = "match"
      BY <1>0, <2>1, <2>2 DEF Cli!Rows, Cli!Steps, Cli!Settlements
    <3> HIDE DEF row
    <3>3. RowFits(row, audited)
      BY <3>2 DEF RowFits
    <3>4. runs' \in 0..MaxRuns
      BY <3>1 DEF CliInv, Cli!TypeOK
    <3> QED  BY <1>0, <2>1, <3>1, <3>2, <3>3, <3>4, RowGoes
  <2>3. CASE v # "match"
    <3>1. Cli!Exit(s, Cli!mapError(v), v, None, TRUE)
      BY <1>3, <2>3 DEF Cli!CallSettled, Cli!GoesOn
    <3>2. Cli!mapError(v) \in {2, 3, 4}
      BY <2>3 DEF Cli!mapError, Cli!Settlements
    <3>3. IsTrueExit([name |-> cmd[s].name, about |-> cmd[s].about, code |-> Cli!mapError(v),
                      said |-> v, check |-> None, paid |-> TRUE], audited, booked)
      BY <2>1, <3>2 DEF IsTrueExit
    <3> QED  BY <1>0, <2>1, <3>1, <3>2, <3>3, ExitKeeps DEF Cli!Codes
  <2> QED  BY <2>2, <2>3
<1> QED  BY <1>1, <1>2, <1>3

LEMMA CliStep ==
  ASSUME Cli!CliAssumption
  PROVE  CliInv /\ [Cli!Next]_(Cli!vars) => CliInv'
<1> SUFFICES ASSUME CliInv, [Cli!Next]_(Cli!vars) PROVE CliInv'
  OBVIOUS
<1>1. CASE UNCHANGED Cli!vars
  BY <1>1 DEF Cli!vars, CliInv, Cli!TypeOK, OneCheckPerKey, RowFits, IsTrueExit
<1>2. CASE Cli!Next
  BY <1>2, StartKeeps, InputKeeps, CheckCommandKeeps, LookKeeps, VerifySettlementKeeps,
      PlainKeeps, CallKeeps
     DEF Cli!Next
<1> QED  BY <1>1, <1>2

(* A script that runs a check again books one payment under its key and is *)
(* told one verdict, the one on record.                                    *)
THEOREM RerunsAgreeCorrect ==
  ASSUME Cli!CliAssumption
  PROVE  Cli!Spec => []RerunsAgree
<1>1. CliInv => Cli!RerunsAgree
  <2> SUFFICES ASSUME CliInv PROVE Cli!RerunsAgree
    OBVIOUS
  <2>1. Cli!CodesTellTheRecord
    <3> SUFFICES ASSUME NEW e \in exits
                 PROVE  /\ e.name = "check" /\ e.code # 4 =>
                             <<e.code, audited[e.check].verdict>> \in {<<0, "pay">>, <<2, "review">>, <<3, "block">>}
                        /\ e.name = "verify-settlement" /\ e.code \in {0, 3} =>
                             <<e.code, booked[e.check]>> \in {<<0, "match">>, <<3, "mismatch">>}
      BY DEF Cli!CodesTellTheRecord
    <3>1. IsTrueExit(e, audited, booked)
      BY DEF CliInv
    <3>2. \A i \in DOMAIN audited : audited[i].verdict \in Cli!Verdicts
      <4>1. audited \in Seq(Cli!Checks)
        BY DEF CliInv, Cli!TypeOK
      <4>2. \A i \in DOMAIN audited : audited[i] \in Cli!Checks
        BY <4>1
      <4> QED  BY <4>2 DEF Cli!Checks
    <3>3. ASSUME e.name = "check", e.code # 4
          PROVE  <<e.code, audited[e.check].verdict>> \in {<<0, "pay">>, <<2, "review">>, <<3, "block">>}
      BY <3>1, <3>2, <3>3 DEF IsTrueExit, Cli!paymentVerdictExitCode, Cli!Verdicts
    <3> QED  BY <3>1, <3>3 DEF IsTrueExit
  <2>2. ASSUME NEW e \in exits, NEW f \in exits, e.name = "check", f.name = "check",
               e.about = f.about, e.about \in KeyedFiles, 4 \notin {e.code, f.code}
        PROVE  e.code = f.code
    <3>1. /\ e.check \in DOMAIN audited /\ audited[e.check].file = e.about
          /\ e.code = Cli!paymentVerdictExitCode(audited[e.check].verdict)
          /\ f.check \in DOMAIN audited /\ audited[f.check].file = f.about
          /\ f.code = Cli!paymentVerdictExitCode(audited[f.check].verdict)
      BY <2>2 DEF CliInv, IsTrueExit
    <3>2. e.check = f.check
      BY <2>2, <3>1 DEF CliInv, OneCheckPerKey
    <3> QED  BY <3>1, <3>2
  <2> QED  BY <2>1, <2>2 DEF CliInv, OneCheckPerKey, Cli!RerunsAgree, Cli!OneVerdictPerKey
<1> QED  BY <1>1, CliInit, CliStep, PTL DEF Cli!Spec, RerunsAgree

(* A call that ends with 0 has paid and found its payment settled, and one *)
(* that ends with 2 or 3 tells a refusal from an unsettled payment.        *)
THEOREM CallCodesTellThePaymentCorrect ==
  ASSUME Cli!CliAssumption PROVE Cli!Spec => []Cli!CallCodesTellThePayment
<1>1. CliInv => Cli!CallCodesTellThePayment
  BY DEF CliInv, IsTrueExit, Cli!CallCodesTellThePayment
<1> QED  BY <1>1, CliInit, CliStep, PTL DEF Cli!Spec
=============================================================================
