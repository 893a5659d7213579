------------------------ MODULE PaymentChecks_proofs ------------------------
(* Theorems about PaymentChecks, for every value of its constants. *)
EXTENDS PaymentChecks, FiniteSetTheorems, WellFoundedInduction, TLAPS

----------------------------------------------------------------------------
(* Facts about the helpers.                                                *)

LEMMA UnexpiredType ==
  ASSUME TypeOK
  PROVE  /\ Unexpired \in [Ids -> ReservationStatus \union {"none"}]
         /\ UnexpiredClaims \subseteq claims
BY DEF Unexpired, UnexpiredClaims, TypeOK, ReservationStatus

LEMMA TodayType ==
  ASSUME TypeOK
  PROVE  Today \in Nat
<1>1. clock \in Nat /\ DayLength \in Nat \ {0}
  BY PaymentAssumption DEF TypeOK
<1>2. \A n \in Nat, m \in Nat \ {0} : n \div m \in Nat
  OBVIOUS
<1> QED
  BY <1>1, <1>2 DEF Today

LEMMA ReplyType ==
  ASSUME NEW c \in Ids, SameKey(c) # {}
  PROVE  IdempotentReply(c) \in Ids \union {"none", "conflict", "error"}
BY DEF IdempotentReply, SameKey

LEMMA StatusForType ==
  ASSUME NEW v \in Verdicts
  PROVE  CheckStatusFor(v) \in CheckStatus
BY DEF Verdicts, Terminal, CheckStatusFor, CheckStatus

LEMMA AfterType ==
  ASSUME NEW v \in Verdicts, NEW old \in ReservationStatus \union {"none"}
  PROVE  ReservationAfter(v, old) \in ReservationStatus \union {"none"}
BY DEF Verdicts, Terminal, ReservationAfter, ReservationStatus

LEMMA VerdictType ==
  ASSUME NEW c, NEW finding
  PROVE  Verdict(c, finding) \in {"reserve", "block", "review"}
BY DEF Verdict

----------------------------------------------------------------------------
(* Every variable keeps its type through every step of every request, poll *)
(* and crash.                                                              *)
LEMMA TypeInit == Init => TypeOK
BY PaymentAssumption DEF Init, TypeOK, Section, NoSection, Ops, Poll, NoPoll

LEMMA TypeStep == TypeOK /\ [Next]_vars => TypeOK'
<1> SUFFICES ASSUME TypeOK, [Next]_vars PROVE TypeOK'
  OBVIOUS
<1> USE DEF TypeOK, vars, database, controls, checks, reservations, settlements, requests
<1>1. CASE Tick
  BY <1>1, PaymentAssumption DEF Tick
<1>2. ASSUME NEW w \in Workers, NEW p \in Policies, SavePolicy(w, p)
      PROVE  TypeOK'
  BY <1>2 DEF SavePolicy
<1>3. ASSUME NEW w \in Workers, NEW kind \in {"pin", "deny"}, SaveProviderDecision(w, kind)
      PROVE  TypeOK'
  BY <1>3 DEF SaveProviderDecision
<1>4. ASSUME NEW w \in Workers, Crash(w)
      PROVE  TypeOK'
  BY <1>4 DEF Crash, Leave, Section, NoSection, Ops, Poll, NoPoll
<1>5. ASSUME NEW w \in Workers, NEW c \in Ids, ReplayCheck(w, c)
      PROVE  TypeOK'
  BY <1>5, ReplyType DEF ReplayCheck, Answer
<1>6. ASSUME NEW w \in Workers, NEW c \in Ids, BeginCheck(w, c)
      PROVE  TypeOK'
  BY <1>6 DEF BeginCheck
<1>7. ASSUME NEW w \in Workers, NEW c \in Ids, EvidenceFails(w, c)
      PROVE  TypeOK'
  BY <1>7 DEF EvidenceFails, Answer
<1>8. ASSUME NEW w \in Workers, NEW c \in Ids,
             NEW finding \in {"clear", "review", "block"}, EvaluateCheck(w, c, finding)
      PROVE  TypeOK'
  BY <1>8, UnexpiredType, VerdictType DEF EvaluateCheck, Enter, Section, Ops
<1>9. ASSUME NEW w \in Workers, NEW c \in Ids, ReserveTooLate(w, c)
      PROVE  TypeOK'
  BY <1>9 DEF ReserveTooLate, Answer, Leave, Section, NoSection, Ops
<1>10. ASSUME NEW w \in Workers, NEW c \in Ids, SaveRaced(w, c)
       PROVE  TypeOK'
  BY <1>10, ReplyType DEF SaveRaced, Answer, Leave, Section, NoSection, Ops
<1>11. ASSUME NEW w \in Workers, NEW c \in Ids, ReserveRefused(w, c)
       PROVE  TypeOK'
  BY <1>11 DEF ReserveRefused, Enter, Section, Ops
<1>12. ASSUME NEW w \in Workers, NEW c \in Ids, Admit(w, c)
       PROVE  TypeOK'
  BY <1>12, UnexpiredType, TodayType
     DEF Admit, Answer, Leave, Section, NoSection, Ops, CheckStatus, ReservationStatus
<1>13. ASSUME NEW w \in Workers, NEW c \in Ids, SaveUnpaid(w, c)
       PROVE  TypeOK'
  BY <1>13 DEF SaveUnpaid, Answer, Leave, Section, NoSection, Ops, CheckStatus
<1>14. ASSUME NEW w \in Workers, NEW c \in Ids, BeginCancel(w, c)
       PROVE  TypeOK'
  BY <1>14 DEF BeginCancel, Enter, Section, Ops
<1>15. ASSUME NEW w \in Workers, NEW c \in Ids, ReleaseReservation(w, c)
       PROVE  TypeOK'
  BY <1>15 DEF ReleaseReservation, Enter, Section, Ops, ReservationStatus
<1>16. ASSUME NEW w \in Workers, NEW c \in Ids, CancelRefused(w, c)
       PROVE  TypeOK'
  BY <1>16 DEF CancelRefused, Leave, Section, NoSection, Ops
<1>17. ASSUME NEW w \in Workers, NEW c \in Ids, MarkCancelled(w, c)
       PROVE  TypeOK'
  BY <1>17 DEF MarkCancelled, Leave, Section, NoSection, Ops, CheckStatus
<1>18. ASSUME NEW w \in Workers, NEW p \in Polls, NEW c \in Ids, NEW t \in Txs,
              BeginPoll(w, p, c, t)
       PROVE  TypeOK'
  BY <1>18 DEF BeginPoll, Poll
<1>19. ASSUME NEW w \in Workers, NEW p \in Polls, NEW c \in Ids, NEW v \in Verdicts,
              ApplySettlement(w, p, c, v)
       PROVE  TypeOK'
  BY <1>19, AfterType, StatusForType DEF ApplySettlement, Poll, NoPoll
<1>20. ASSUME NEW w \in Workers, NEW p \in Polls, NEW c \in Ids, NEW v \in Verdicts,
              RejectSettlement(w, p, c, v)
       PROVE  TypeOK'
  BY <1>20 DEF RejectSettlement, Poll, NoPoll
<1>21. CASE UNCHANGED vars
  BY <1>21
<1> QED
  BY <1>1, <1>2, <1>3, <1>4, <1>5, <1>6, <1>7, <1>8, <1>9, <1>10, <1>11, <1>12, <1>13,
     <1>14, <1>15, <1>16, <1>17, <1>18, <1>19, <1>20, <1>21 DEF Next

THEOREM TypeCorrect == Spec => []TypeOK
BY TypeInit, TypeStep, PTL DEF Spec

----------------------------------------------------------------------------
(* Claims and nonces.  The invariant is inductive: expiry drops exactly    *)
(* the claims of what it expires, a new claim is one no counting claim     *)
(* shares a nonce with, and only a late settlement makes a reservation     *)
(* count again without its claim.                                          *)
LEMMA ClaimsStep == TypeOK /\ ClaimsGuardNonces /\ [Next]_vars => ClaimsGuardNonces'
<1> SUFFICES ASSUME TypeOK, ClaimsGuardNonces, [Next]_vars PROVE ClaimsGuardNonces'
  OBVIOUS
<1> USE DEF vars, database, controls, checks, reservations, settlements, requests
<1>1. ASSUME UNCHANGED <<charge, reservation, claims, late>>
      PROVE  ClaimsGuardNonces'
  BY <1>1 DEF ClaimsGuardNonces
<1>2. ASSUME NEW w \in Workers, NEW c \in Ids,
             NEW finding \in {"clear", "review", "block"}, EvaluateCheck(w, c, finding)
      PROVE  ClaimsGuardNonces'
  BY <1>2 DEF EvaluateCheck, ClaimsGuardNonces, Unexpired, UnexpiredClaims, Lapsed,
              Committed, Open, TypeOK
<1>3. ASSUME NEW w \in Workers, NEW c \in Ids, Admit(w, c)
      PROVE  ClaimsGuardNonces'
  <2>1. \A d \in UnexpiredClaims : Unexpired[d] \in Committed
    BY DEF ClaimsGuardNonces, Unexpired, UnexpiredClaims, TypeOK
  <2>2. \A d \in UnexpiredClaims : charge[d].nonce # charge[c].nonce
    BY <1>3, <2>1 DEF Admit, Admissible, Replayed
  <2>3. \A d \in Ids \ late : Unexpired[d] \in Committed => d \in UnexpiredClaims
    BY DEF ClaimsGuardNonces, Unexpired, UnexpiredClaims, Committed, Open, TypeOK
  <2> HIDE DEF vars, database, controls, checks, reservations, settlements, requests
  <2>4. /\ reservation' = [Unexpired EXCEPT ![c] = "active"]
        /\ claims' = UnexpiredClaims \union {c}
        /\ charge' = charge /\ late' = late
    BY <1>3 DEF Admit, settlements
  <2>5. Unexpired \in [Ids -> ReservationStatus \union {"none"}]
    BY UnexpiredType
  <2>6. (\A d \in claims : reservation[d] \in Committed)'
    BY <2>1, <2>4, <2>5, UnexpiredType DEF Committed, Open, TypeOK
  <2>7. (\A d \in Ids \ late : reservation[d] \in Committed => d \in claims)'
    BY <2>3, <2>4, <2>5
  <2>8. (\A d, e \in claims : charge[d].nonce = charge[e].nonce => d = e)'
    BY <2>2, <2>4 DEF ClaimsGuardNonces, UnexpiredClaims
  <2> QED
    BY <2>6, <2>7, <2>8 DEF ClaimsGuardNonces
<1>4. ASSUME NEW w \in Workers, NEW c \in Ids, ReleaseReservation(w, c)
      PROVE  ClaimsGuardNonces'
  BY <1>4 DEF ReleaseReservation, ClaimsGuardNonces, Committed, Open, TypeOK
<1>5. ASSUME NEW w \in Workers, NEW p \in Polls, NEW c \in Ids, NEW v \in Verdicts,
             ApplySettlement(w, p, c, v)
      PROVE  ClaimsGuardNonces'
  <2>1. /\ reservation' = [reservation EXCEPT ![c] = ReservationAfter(v, reservation[c])]
        /\ late' = IF reservation[c] = "expired" /\ v \in Terminal THEN late \union {c} ELSE late
        /\ claims' = claims /\ charge' = charge
        /\ reservation[c] \in SettlesFrom(v)
    BY <1>5 DEF ApplySettlement, Accepted
  <2>2. CASE v \in Terminal
    BY <2>1, <2>2 DEF ClaimsGuardNonces, ReservationAfter, SettlesFrom, Terminal,
                      Committed, Open, TypeOK
  <2>3. CASE v \notin Terminal
    BY <2>1, <2>3 DEF ClaimsGuardNonces, ReservationAfter, Terminal, TypeOK
  <2> QED
    BY <2>2, <2>3
<1> QED
  BY <1>1, <1>2, <1>3, <1>4, <1>5
  DEF Next, Tick, SavePolicy, SaveProviderDecision, Crash, ReplayCheck, BeginCheck,
      EvidenceFails, ReserveTooLate, SaveRaced, ReserveRefused, SaveUnpaid, BeginCancel,
      CancelRefused, MarkCancelled, BeginPoll, RejectSettlement

(* The claim table never holds a nonce twice, and it covers every counting *)
(* reservation that was not settled late.                                  *)
THEOREM ClaimsCorrect == Spec => []ClaimsGuardNonces
<1>1. Init => ClaimsGuardNonces
  BY DEF Init, ClaimsGuardNonces, Committed, Open
<1> QED
  BY <1>1, TypeCorrect, ClaimsStep, PTL DEF Spec

----------------------------------------------------------------------------
(* What a worker's section knows: a cancellation is of a stored check, and *)
(* a reservation is asked for under a policy.                              *)
SectionsSound ==
  \A w \in Workers :
    /\ section[w].op \in {"release", "mark"} =>
         section[w].id \in Ids /\ status[section[w].id] # "none"
    /\ section[w].op = "reserve" => section[w].limits \in Policies

LEMMA StatusStays ==
  ASSUME TypeOK, SectionsSound, [Next]_vars, NEW d \in Ids, status[d] # "none"
  PROVE  status'[d] # "none"
<1> USE DEF vars, database, controls, checks, reservations, settlements, requests
<1>1. CASE UNCHANGED status
  BY <1>1
<1>2. ASSUME NEW c \in Ids, NEW s \in CheckStatus, status' = [status EXCEPT ![c] = s]
      PROVE  status'[d] # "none"
  BY <1>2 DEF TypeOK, CheckStatus
<1>3. ASSUME NEW w \in Workers, NEW c \in Ids,
             Admit(w, c) \/ SaveUnpaid(w, c) \/ MarkCancelled(w, c)
      PROVE  status'[d] # "none"
  BY <1>2, <1>3 DEF Admit, SaveUnpaid, MarkCancelled, CheckStatus
<1>4. ASSUME NEW w \in Workers, NEW p \in Polls, NEW c \in Ids, NEW v \in Verdicts,
             ApplySettlement(w, p, c, v)
      PROVE  status'[d] # "none"
  BY <1>2, <1>4, StatusForType DEF ApplySettlement
<1> QED
  BY <1>1, <1>3, <1>4
  DEF Next, Tick, SavePolicy, SaveProviderDecision, Crash, ReplayCheck, BeginCheck,
      EvidenceFails, EvaluateCheck, ReserveTooLate, SaveRaced, ReserveRefused, BeginCancel,
      ReleaseReservation, CancelRefused, BeginPoll, RejectSettlement

LEMMA SectionsStep == TypeOK /\ SectionsSound /\ [Next]_vars => SectionsSound'
<1> SUFFICES ASSUME TypeOK, SectionsSound, [Next]_vars PROVE SectionsSound'
  OBVIOUS
<1> USE DEF vars, database, controls, checks, reservations, settlements, requests
<1>1. \A d \in Ids : status[d] # "none" => status'[d] # "none"
  BY StatusStays
<1>2. ASSUME UNCHANGED section
      PROVE  SectionsSound'
  BY <1>1, <1>2 DEF SectionsSound
<1>3. ASSUME NEW w \in Workers, Leave(w)
      PROVE  SectionsSound'
  BY <1>1, <1>3 DEF SectionsSound, Leave, NoSection, TypeOK
<1>4. ASSUME NEW w \in Workers, NEW c \in Ids, NEW op \in {"release", "mark"},
             Enter(w, op, c, NoPolicy), status[c] # "none"
      PROVE  SectionsSound'
  BY <1>1, <1>4 DEF SectionsSound, Enter, TypeOK
<1>5. ASSUME NEW w \in Workers, NEW c \in Ids, NEW op \in {"reserve", "block", "review"},
             NEW p, Enter(w, op, c, p), op = "reserve" => p \in Policies
      PROVE  SectionsSound'
  BY <1>1, <1>5 DEF SectionsSound, Enter, TypeOK
<1>6. ASSUME NEW w \in Workers, NEW c \in Ids,
             NEW finding \in {"clear", "review", "block"}, EvaluateCheck(w, c, finding)
      PROVE  SectionsSound'
  <2>1. Verdict(c, finding) = "reserve" => policy \in Policies
    BY DEF Verdict, TypeOK
  <2> QED
    BY <1>5, <1>6, <2>1, VerdictType DEF EvaluateCheck
<1>7. ASSUME NEW w \in Workers, NEW c \in Ids, ReserveRefused(w, c)
      PROVE  SectionsSound'
  BY <1>5, <1>7 DEF ReserveRefused
<1>8. ASSUME NEW w \in Workers, NEW c \in Ids, BeginCancel(w, c)
      PROVE  SectionsSound'
  BY <1>4, <1>8 DEF BeginCancel
<1>9. ASSUME NEW w \in Workers, NEW c \in Ids, ReleaseReservation(w, c)
      PROVE  SectionsSound'
  BY <1>4, <1>9 DEF ReleaseReservation, SectionsSound
<1>10. ASSUME NEW w \in Workers, NEW c \in Ids,
              \/ ReserveTooLate(w, c) \/ SaveRaced(w, c) \/ Admit(w, c)
              \/ SaveUnpaid(w, c) \/ CancelRefused(w, c) \/ MarkCancelled(w, c)
       PROVE  SectionsSound'
  BY <1>3, <1>10
  DEF ReserveTooLate, SaveRaced, Admit, SaveUnpaid, CancelRefused, MarkCancelled
<1>11. ASSUME NEW w \in Workers, Crash(w)
       PROVE  SectionsSound'
  BY <1>3, <1>11 DEF Crash
<1> QED
  BY <1>2, <1>6, <1>7, <1>8, <1>9, <1>10, <1>11
  DEF Next, Tick, SavePolicy, SaveProviderDecision, ReplayCheck, BeginCheck,
      EvidenceFails, BeginPoll, ApplySettlement, RejectSettlement

LEMMA SectionsCorrect == Spec => []SectionsSound
<1>1. Init => SectionsSound
  BY DEF Init, SectionsSound, NoSection
<1> QED
  BY <1>1, TypeCorrect, SectionsStep, PTL DEF Spec

----------------------------------------------------------------------------
(* Idempotency.  A check that is stored stays stored, a new one is stored  *)
(* only while no check has its key, and an answer that names a check names *)
(* one of the same content.                                                *)
LEMMA ReplyAgrees ==
  ASSUME TypeOK, NEW c \in Ids, SameKey(c) # {}, IdempotentReply(c) \in Ids
  PROVE  status[IdempotentReply(c)] # "none" /\ charge[IdempotentReply(c)] = charge[c]
BY PaymentAssumption DEF IdempotentReply, SameKey

LEMMA RetriesStep == TypeOK /\ SectionsSound /\ RetriesAgree /\ [Next]_vars => RetriesAgree'
<1> SUFFICES ASSUME TypeOK, SectionsSound, RetriesAgree, [Next]_vars PROVE RetriesAgree'
  OBVIOUS
<1> USE DEF vars, database, controls, checks, reservations, settlements, requests
<1>1. ASSUME UNCHANGED <<charge, status, reply>>
      PROVE  RetriesAgree'
  BY <1>1 DEF RetriesAgree
(* An existing check changes its status, never to "none". *)
<1>2. ASSUME NEW c \in Ids, NEW s \in CheckStatus, status[c] # "none",
             status' = [status EXCEPT ![c] = s], UNCHANGED <<charge, reply>>
      PROVE  RetriesAgree'
  BY <1>2 DEF RetriesAgree, TypeOK, CheckStatus
(* A new check is stored and answers its own request. *)
<1>3. ASSUME NEW c \in Ids, NEW s \in CheckStatus, SameKey(c) = {},
             status' = [status EXCEPT ![c] = s], charge' = charge,
             reply' = [reply EXCEPT ![c] = c]
      PROVE  RetriesAgree'
  <2>1. \A d \in Ids : status[d] # "none" => charge[d].key # charge[c].key
    BY <1>3 DEF SameKey
  <2>2. \A d \in Ids : status'[d] # "none" <=> (status[d] # "none" \/ d = c)
    BY <1>3 DEF TypeOK, CheckStatus
  <2>3. (\A d, e \in Ids :
           status[d] # "none" /\ status[e] # "none" /\ charge[d].key = charge[e].key => d = e)'
    BY <1>3, <2>1, <2>2 DEF RetriesAgree
  <2>4. (\A d \in Ids : reply[d] \in Ids =>
           status[reply[d]] # "none" /\ charge[reply[d]] = charge[d])'
    BY <1>3, <2>2 DEF RetriesAgree, TypeOK
  <2> QED
    BY <2>3, <2>4 DEF RetriesAgree
(* A request is answered without storing anything. *)
<1>4. ASSUME NEW c \in Ids, NEW answer,
             answer \in Ids => status[answer] # "none" /\ charge[answer] = charge[c],
             UNCHANGED <<charge, status>>, reply' = [reply EXCEPT ![c] = answer]
      PROVE  RetriesAgree'
  BY <1>4 DEF RetriesAgree, TypeOK
<1>5. ASSUME NEW w \in Workers, Crash(w)
      PROVE  RetriesAgree'
  BY <1>5, PaymentAssumption DEF Crash, RetriesAgree
<1>6. ASSUME NEW w \in Workers, NEW c \in Ids, ReplayCheck(w, c)
      PROVE  RetriesAgree'
  BY <1>4, <1>6, ReplyAgrees DEF ReplayCheck, Answer
<1>7. ASSUME NEW w \in Workers, NEW c \in Ids, EvidenceFails(w, c)
      PROVE  RetriesAgree'
  BY <1>4, <1>7, PaymentAssumption DEF EvidenceFails, Answer
<1>8. ASSUME NEW w \in Workers, NEW c \in Ids, ReserveTooLate(w, c)
      PROVE  RetriesAgree'
  BY <1>4, <1>8, PaymentAssumption DEF ReserveTooLate, Answer
<1>9. ASSUME NEW w \in Workers, NEW c \in Ids, SaveRaced(w, c)
      PROVE  RetriesAgree'
  BY <1>4, <1>9, ReplyAgrees DEF SaveRaced, Answer
<1>10. ASSUME NEW w \in Workers, NEW c \in Ids, Admit(w, c)
       PROVE  RetriesAgree'
  BY <1>3, <1>10 DEF Admit, Answer, CheckStatus
<1>11. ASSUME NEW w \in Workers, NEW c \in Ids, SaveUnpaid(w, c)
       PROVE  RetriesAgree'
  BY <1>3, <1>11 DEF SaveUnpaid, Answer, CheckStatus
<1>12. ASSUME NEW w \in Workers, NEW c \in Ids, MarkCancelled(w, c)
       PROVE  RetriesAgree'
  BY <1>2, <1>12 DEF MarkCancelled, SectionsSound, CheckStatus
<1>13. ASSUME NEW w \in Workers, NEW p \in Polls, NEW c \in Ids, NEW v \in Verdicts,
              ApplySettlement(w, p, c, v)
       PROVE  RetriesAgree'
  BY <1>2, <1>13, StatusForType DEF ApplySettlement, Accepted, Verifiable
<1> QED
  BY <1>1, <1>5, <1>6, <1>7, <1>8, <1>9, <1>10, <1>11, <1>12, <1>13
  DEF Next, Tick, SavePolicy, SaveProviderDecision, BeginCheck, EvaluateCheck,
      ReserveRefused, BeginCancel, ReleaseReservation, CancelRefused, BeginPoll,
      RejectSettlement

(* A key names one check for ever, and every answer is a check of the      *)
(* request's own content, for any number of processes and requests.        *)
THEOREM RetriesCorrect == Spec => []RetriesAgree
<1>1. Init => RetriesAgree
  BY PaymentAssumption DEF Init, RetriesAgree
<1> QED
  BY <1>1, TypeCorrect, SectionsCorrect, RetriesStep, PTL DEF Spec

----------------------------------------------------------------------------
(* Settlements.                                                            *)

LEMMA TransactionsStep ==
  TypeOK /\ TransactionBindsOneCheck /\ [Next]_vars => TransactionBindsOneCheck'
<1> SUFFICES ASSUME TypeOK, TransactionBindsOneCheck, [Next]_vars
             PROVE  TransactionBindsOneCheck'
  OBVIOUS
<1> USE DEF vars, database, controls, checks, reservations, settlements, requests
<1>1. ASSUME UNCHANGED txOf
      PROVE  TransactionBindsOneCheck'
  BY <1>1 DEF TransactionBindsOneCheck
<1>2. ASSUME NEW w \in Workers, NEW p \in Polls, NEW c \in Ids, NEW v \in Verdicts,
             ApplySettlement(w, p, c, v)
      PROVE  TransactionBindsOneCheck'
  BY <1>2 DEF ApplySettlement, Accepted, TransactionBindsOneCheck, TypeOK
<1> QED
  BY <1>1, <1>2
  DEF Next, Tick, SavePolicy, SaveProviderDecision, Crash, ReplayCheck, BeginCheck,
      EvidenceFails, EvaluateCheck, ReserveTooLate, SaveRaced, ReserveRefused, Admit,
      SaveUnpaid, BeginCancel, ReleaseReservation, CancelRefused, MarkCancelled,
      BeginPoll, RejectSettlement

(* No transaction is recorded for two checks. *)
THEOREM TransactionsCorrect == Spec => []TransactionBindsOneCheck
<1>1. Init => TransactionBindsOneCheck
  BY DEF Init, TransactionBindsOneCheck
<1> QED
  BY <1>1, TypeCorrect, TransactionsStep, PTL DEF Spec

LEMMA SettlementFinalStep ==
  ASSUME TypeOK, [Next]_vars, NEW c \in Ids, txOf[c] # NoTx
  PROVE  txOf'[c] = txOf[c] /\ (verdict[c] \in Terminal => verdict'[c] = verdict[c])
<1> USE DEF vars, database, controls, checks, reservations, settlements, requests
<1>1. CASE UNCHANGED <<txOf, verdict>>
  BY <1>1
<1>2. ASSUME NEW w \in Workers, NEW p \in Polls, NEW d \in Ids, NEW v \in Verdicts,
             ApplySettlement(w, p, d, v)
      PROVE  txOf'[c] = txOf[c] /\ (verdict[c] \in Terminal => verdict'[c] = verdict[c])
  BY <1>2 DEF ApplySettlement, Accepted, TypeOK
<1> QED
  BY <1>1, <1>2
  DEF Next, Tick, SavePolicy, SaveProviderDecision, Crash, ReplayCheck, BeginCheck,
      EvidenceFails, EvaluateCheck, ReserveTooLate, SaveRaced, ReserveRefused, Admit,
      SaveUnpaid, BeginCancel, ReleaseReservation, CancelRefused, MarkCancelled,
      BeginPoll, RejectSettlement

(* A recorded transaction is never replaced, and a final verdict is final. *)
THEOREM SettlementFinalCorrect == Spec => SettlementFinal
<1>1. TypeOK /\ [Next]_vars =>
        [\A c \in Ids : txOf[c] # NoTx =>
           /\ txOf'[c] = txOf[c]
           /\ verdict[c] \in Terminal => verdict'[c] = verdict[c]]_vars
  BY SettlementFinalStep
<1> QED
  BY <1>1, TypeCorrect, PTL DEF Spec, SettlementFinal

----------------------------------------------------------------------------
(* Slots.                                                                  *)

(* Only an admission makes a reservation. *)
LEMMA OnlyAdmitReserves ==
  ASSUME TypeOK, [Next]_vars, NEW c \in Ids, reservation[c] = "none", reservation'[c] # "none"
  PROVE  \E w \in Workers : Admit(w, c)
<1> USE DEF vars, database, controls, checks, reservations, settlements, requests
<1>1. CASE UNCHANGED reservation
  BY <1>1
<1>2. ASSUME NEW w \in Workers, NEW d \in Ids,
             NEW finding \in {"clear", "review", "block"}, EvaluateCheck(w, d, finding)
      PROVE  FALSE
  BY <1>2 DEF EvaluateCheck, Unexpired, Lapsed
<1>3. ASSUME NEW w \in Workers, NEW d \in Ids, Admit(w, d)
      PROVE  d = c
  BY <1>3 DEF Admit, Unexpired, Lapsed
<1>4. ASSUME NEW w \in Workers, NEW d \in Ids, ReleaseReservation(w, d)
      PROVE  FALSE
  BY <1>4 DEF ReleaseReservation, Open, TypeOK
<1>5. ASSUME NEW w \in Workers, NEW p \in Polls, NEW d \in Ids, NEW v \in Verdicts,
             ApplySettlement(w, p, d, v)
      PROVE  FALSE
  BY <1>5 DEF ApplySettlement, Accepted, SettlesFrom, TypeOK, Verdicts, Terminal
<1> QED
  BY <1>1, <1>2, <1>3, <1>4, <1>5
  DEF Next, Tick, SavePolicy, SaveProviderDecision, Crash, ReplayCheck, BeginCheck,
      EvidenceFails, ReserveTooLate, SaveRaced, ReserveRefused, SaveUnpaid, BeginCancel,
      CancelRefused, MarkCancelled, BeginPoll, RejectSettlement

LEMMA SlotsStep ==
  ASSUME TypeOK, SectionsSound, [Next]_vars,
         NEW c \in Ids, reservation[c] = "none", reservation'[c] # "none"
  PROVE  Cardinality({d \in Ids : reservation'[d] \in Open}) <= limits'[c].slots
<1>1. PICK w \in Workers : Admit(w, c)
  BY OnlyAdmitReserves
<1> DEFINE p == section[w].limits
           held == {d \in Ids : Unexpired[d] \in Open}
           now  == {d \in Ids : reservation'[d] \in Open}
<1>2. p \in Policies /\ p.slots \in Nat /\ limits'[c] = p
  BY <1>1, PaymentAssumption DEF Admit, SectionsSound, TypeOK
<1>3. now = held \union {c}
  BY <1>1, UnexpiredType DEF Admit, Open
<1>4. IsFiniteSet(held) /\ Cardinality(held) \in Nat
  BY PaymentAssumption, FS_Subset, FS_CardinalityType
<1>5. Cardinality(now) <= Cardinality(held) + 1
  <2> HIDE DEF held, now
  <2>1. Cardinality(held \union {c}) = IF c \in held THEN Cardinality(held) ELSE Cardinality(held) + 1
    BY <1>4, FS_AddElement
  <2> QED
    BY <1>3, <1>4, <2>1
<1>6. Cardinality(held) < p.slots
  BY <1>1 DEF Admit, Admissible, SlotFree
<1>7. Cardinality(now) \in Nat
  <2> HIDE DEF held, now
  <2>1. IsFiniteSet(held \union {c})
    BY <1>4, FS_AddElement
  <2> QED
    BY <1>3, <2>1, FS_CardinalityType
<1> HIDE DEF now, held, p
<1>8. Cardinality(now) <= p.slots
  BY <1>2, <1>4, <1>5, <1>6, <1>7
<1> QED
  BY <1>2, <1>8 DEF now

(* No admission takes the open reservations past the slots of the policy   *)
(* it is made under, for any number of processes and requests.             *)
THEOREM SlotsCorrect == Spec => AdmissionWithinSlots
<1>1. TypeOK /\ SectionsSound /\ [Next]_vars =>
        [\A c \in Ids : reservation[c] = "none" /\ reservation'[c] # "none" =>
           Cardinality({d \in Ids : reservation'[d] \in Open}) <= limits'[c].slots]_vars
  BY SlotsStep
<1> QED
  BY <1>1, TypeCorrect, SectionsCorrect, PTL DEF Spec, AdmissionWithinSlots

----------------------------------------------------------------------------
(* What holds when one process serves the database, as the deployment runs *)
(* it: a section is then over before a settlement, a policy or a provider  *)
(* decision is written.                                                    *)

OneProcess == \A v, w \in Workers : v = w

(* A cancellation is of a check that is still reserved, and marks it only  *)
(* once its reservation is released; a reservation is asked for under the  *)
(* controls in force.                                                      *)
SectionsCurrent ==
  \A w \in Workers :
    /\ section[w].op \in {"release", "mark"} => status[section[w].id] = "reserved"
    /\ section[w].op = "mark" => reservation[section[w].id] = "released"
    /\ section[w].op = "reserve" => provider = "pin" /\ section[w].limits = policy

(* A verification in flight is of a transaction. *)
PollsSound == \A p \in Polls : poll[p].worker \in Workers => poll[p].tx \in Txs

SingleInv == SectionsCurrent /\ SettlementConsistent /\ CancelledIsUnused

(* A request that stores a check finds no row of its own. *)
LEMMA OwnKeyFree ==
  ASSUME NEW c \in Ids, SameKey(c) = {}
  PROVE  status[c] = "none"
BY DEF SameKey

LEMMA SingleIdle ==
  ASSUME OneProcess, TypeOK, NEW w \in Workers, Idle(w)
  PROVE  \A v \in Workers : section[v].op = "idle"
BY DEF OneProcess, Idle

LEMMA PollsStep == TypeOK /\ PollsSound /\ [Next]_vars => PollsSound'
<1> SUFFICES ASSUME TypeOK, PollsSound, [Next]_vars PROVE PollsSound'
  OBVIOUS
<1> USE DEF vars
<1>1. CASE UNCHANGED poll
  BY <1>1 DEF PollsSound
<1>2. ASSUME NEW w \in Workers, NEW p \in Polls, NEW c \in Ids, NEW t \in Txs,
             BeginPoll(w, p, c, t)
      PROVE  PollsSound'
  BY <1>2 DEF BeginPoll, PollsSound, TypeOK
<1>3. ASSUME NEW w \in Workers, NEW p \in Polls, NEW c \in Ids, NEW v \in Verdicts,
             ApplySettlement(w, p, c, v) \/ RejectSettlement(w, p, c, v)
      PROVE  PollsSound'
  BY <1>3, PaymentAssumption
  DEF ApplySettlement, RejectSettlement, NoPoll, PollsSound, TypeOK
<1>4. ASSUME NEW w \in Workers, Crash(w)
      PROVE  PollsSound'
  BY <1>4, PaymentAssumption DEF Crash, NoPoll, PollsSound, TypeOK
<1> QED
  BY <1>1, <1>2, <1>3, <1>4
  DEF Next, Tick, SavePolicy, SaveProviderDecision, ReplayCheck, BeginCheck,
      EvidenceFails, EvaluateCheck, ReserveTooLate, SaveRaced, ReserveRefused, Admit,
      SaveUnpaid, BeginCancel, ReleaseReservation, CancelRefused, MarkCancelled

LEMMA SingleStep ==
  OneProcess /\ TypeOK /\ SectionsSound /\ PollsSound /\ SingleInv /\ [Next]_vars => SingleInv'
<1> SUFFICES ASSUME OneProcess, TypeOK, SectionsSound, PollsSound, SingleInv, [Next]_vars
             PROVE  SingleInv'
  OBVIOUS
<1> USE DEF vars, database, controls, checks, reservations, settlements, requests
<1>1. CASE UNCHANGED <<section, status, reservation, provider, policy, txOf, verdict>>
  BY <1>1 DEF SingleInv, SectionsCurrent, SettlementConsistent, CancelledIsUnused
<1>2. ASSUME NEW w \in Workers, NEW p \in Policies, SavePolicy(w, p)
      PROVE  SingleInv'
  BY <1>2, SingleIdle
  DEF SavePolicy, SingleInv, SectionsCurrent, SettlementConsistent, CancelledIsUnused
<1>3. ASSUME NEW w \in Workers, NEW kind \in {"pin", "deny"}, SaveProviderDecision(w, kind)
      PROVE  SingleInv'
  BY <1>3, SingleIdle
  DEF SaveProviderDecision, SingleInv, SectionsCurrent, SettlementConsistent, CancelledIsUnused
(* A section that ends, or goes on with a check that is not paid, writing  *)
(* nothing.                                                                *)
<1>4. ASSUME NEW w \in Workers, Leave(w),
             UNCHANGED <<status, reservation, provider, policy, txOf, verdict>>
      PROVE  SingleInv'
  BY <1>4 DEF Leave, NoSection, TypeOK, SingleInv, SectionsCurrent, SettlementConsistent,
              CancelledIsUnused
<1>5. ASSUME NEW w \in Workers, NEW c \in Ids, ReserveRefused(w, c)
      PROVE  SingleInv'
  BY <1>5 DEF ReserveRefused, Enter, TypeOK, SingleInv, SectionsCurrent,
              SettlementConsistent, CancelledIsUnused
<1>6. ASSUME NEW w \in Workers, NEW c \in Ids,
             NEW finding \in {"clear", "review", "block"}, EvaluateCheck(w, c, finding)
      PROVE  SingleInv'
  <2>1. section'[w] = [op |-> Verdict(c, finding), id |-> c, limits |-> policy]
    BY <1>6 DEF EvaluateCheck, Enter, TypeOK
  <2>2. Verdict(c, finding) = "reserve" => provider = "pin"
    BY DEF Verdict, Blocking, TypeOK
  <2>3. SectionsCurrent'
    BY <1>6, <2>1, <2>2, VerdictType DEF EvaluateCheck, OneProcess, SectionsCurrent
  <2>4. \A d \in Ids, s \in {"consumed", "quarantined", "released"} :
          reservation'[d] = s <=> reservation[d] = s
    BY <1>6 DEF EvaluateCheck, Unexpired, Lapsed
  <2>5. UNCHANGED <<status, txOf, verdict>>
    BY <1>6 DEF EvaluateCheck
  <2>6. SettlementConsistent' /\ CancelledIsUnused'
    BY <2>4, <2>5 DEF SingleInv, SettlementConsistent, CancelledIsUnused
  <2> QED
    BY <2>3, <2>6 DEF SingleInv
<1>7. ASSUME NEW w \in Workers, NEW c \in Ids, Admit(w, c)
      PROVE  SingleInv'
  <2>1. status[c] = "none" /\ verdict[c] = "none"
    BY <1>7, OwnKeyFree
    DEF Admit, SingleInv, SettlementConsistent, TypeOK, CheckStatusFor, Verdicts, Terminal
  <2>2. /\ status' = [status EXCEPT ![c] = "reserved"]
        /\ reservation' = [Unexpired EXCEPT ![c] = "active"]
        /\ UNCHANGED <<txOf, verdict>>
    BY <1>7 DEF Admit
  <2>3. \A d \in Ids \ {c}, s \in {"consumed", "quarantined", "released"} :
          reservation'[d] = s <=> reservation[d] = s
    BY <2>2 DEF Unexpired, Lapsed
  <2>4. reservation'[c] = "active" /\ status'[c] = "reserved"
    BY <2>2 DEF Unexpired, TypeOK
  <2>5. reservation[c] \notin {"consumed", "quarantined"}
    BY <2>1 DEF SingleInv, SettlementConsistent
  <2>6. \A d \in Ids \ {c} : status'[d] = status[d]
    BY <2>2 DEF TypeOK
  <2>7. SettlementConsistent'
    <3> SUFFICES ASSUME NEW d \in Ids
                 PROVE  /\ txOf'[d] = NoTx <=> verdict'[d] = "none"
                        /\ verdict'[d] \in Verdicts => status'[d] = CheckStatusFor(verdict'[d])
                        /\ verdict'[d] = "match" <=> reservation'[d] = "consumed"
                        /\ verdict'[d] = "mismatch" <=> reservation'[d] = "quarantined"
      BY DEF SettlementConsistent, CheckStatusFor
    <3>1. CASE d = c
      BY <3>1, <2>1, <2>2, <2>4 DEF SingleInv, SettlementConsistent, Verdicts, Terminal
    <3>2. CASE d # c
      BY <3>2, <2>2, <2>3, <2>6 DEF SingleInv, SettlementConsistent
    <3> QED
      BY <3>1, <3>2
  <2>8. CancelledIsUnused'
    BY <2>2, <2>3, <2>4, <2>6 DEF SingleInv, CancelledIsUnused
  <2>9. SectionsCurrent'
    BY <1>7 DEF Admit, Leave, NoSection, OneProcess, SectionsCurrent, TypeOK
  <2> QED
    BY <2>7, <2>8, <2>9 DEF SingleInv
<1>8. ASSUME NEW w \in Workers, NEW c \in Ids, SaveUnpaid(w, c)
      PROVE  SingleInv'
  <2>1. status[c] = "none" /\ verdict[c] = "none"
    BY <1>8, OwnKeyFree
    DEF SaveUnpaid, SingleInv, SettlementConsistent, TypeOK, CheckStatusFor, Verdicts, Terminal
  <2>2. SettlementConsistent' /\ CancelledIsUnused'
    BY <1>8, <2>1 DEF SaveUnpaid, SingleInv, SettlementConsistent, CancelledIsUnused,
                      CheckStatusFor, TypeOK, Verdicts, Terminal
  <2>3. SectionsCurrent'
    BY <1>8 DEF SaveUnpaid, Leave, NoSection, OneProcess, SectionsCurrent, TypeOK
  <2> QED
    BY <2>2, <2>3 DEF SingleInv
<1>9. ASSUME NEW w \in Workers, NEW c \in Ids, BeginCancel(w, c)
      PROVE  SingleInv'
  BY <1>9 DEF BeginCancel, Enter, OneProcess, TypeOK, SingleInv, SectionsCurrent,
              SettlementConsistent, CancelledIsUnused
<1>10. ASSUME NEW w \in Workers, NEW c \in Ids, ReleaseReservation(w, c)
       PROVE  SingleInv'
  <2>1. status[c] = "reserved"
    BY <1>10 DEF ReleaseReservation, SingleInv, SectionsCurrent
  <2>2. verdict[c] = "none"
    BY <2>1 DEF SingleInv, SettlementConsistent, CheckStatusFor, TypeOK, Verdicts, Terminal
  <2>3. /\ reservation' = [reservation EXCEPT ![c] = "released"]
        /\ UNCHANGED <<status, txOf, verdict>>
    BY <1>10 DEF ReleaseReservation
  <2>4. SettlementConsistent' /\ CancelledIsUnused'
    BY <2>1, <2>2, <2>3, <1>10
    DEF ReleaseReservation, Open, SingleInv, SettlementConsistent, CancelledIsUnused, TypeOK
  <2>5. SectionsCurrent'
    BY <1>10, <2>1, <2>3 DEF ReleaseReservation, Enter, OneProcess, SectionsCurrent, TypeOK
  <2> QED
    BY <2>4, <2>5 DEF SingleInv
<1>11. ASSUME NEW w \in Workers, NEW c \in Ids, MarkCancelled(w, c)
       PROVE  SingleInv'
  <2>1. status[c] = "reserved" /\ reservation[c] = "released"
    BY <1>11 DEF MarkCancelled, SingleInv, SectionsCurrent
  <2>2. verdict[c] = "none" /\ txOf[c] = NoTx
    BY <2>1 DEF SingleInv, SettlementConsistent, CheckStatusFor, TypeOK, Verdicts, Terminal
  <2>3. /\ status' = [status EXCEPT ![c] = "cancelled"]
        /\ UNCHANGED <<reservation, txOf, verdict>>
    BY <1>11 DEF MarkCancelled
  <2>4. SettlementConsistent' /\ CancelledIsUnused'
    BY <2>1, <2>2, <2>3 DEF SingleInv, SettlementConsistent, CancelledIsUnused,
                            CheckStatusFor, TypeOK, Verdicts, Terminal
  <2>5. SectionsCurrent'
    BY <1>11 DEF MarkCancelled, Leave, NoSection, OneProcess, SectionsCurrent, TypeOK
  <2> QED
    BY <2>4, <2>5 DEF SingleInv
<1>12. ASSUME NEW w \in Workers, NEW p \in Polls, NEW c \in Ids, NEW v \in Verdicts,
              ApplySettlement(w, p, c, v)
       PROVE  SingleInv'
  <2> DEFINE t == poll[p].tx
  <2>1. /\ status[c] \in Verifiable /\ verdict[c] \notin Terminal
        /\ reservation[c] \in SettlesFrom(v)
        /\ reservation' = [reservation EXCEPT ![c] = ReservationAfter(v, reservation[c])]
        /\ txOf' = [txOf EXCEPT ![c] = t]
        /\ verdict' = [verdict EXCEPT ![c] = v]
        /\ status' = [status EXCEPT ![c] = CheckStatusFor(v)]
    BY <1>12 DEF ApplySettlement, Accepted
  <2>2. t # NoTx
    BY <1>12, PaymentAssumption DEF ApplySettlement, PollsSound
  <2>3. SettlementConsistent'
    <3> SUFFICES ASSUME NEW d \in Ids
                 PROVE  /\ txOf'[d] = NoTx <=> verdict'[d] = "none"
                        /\ verdict'[d] \in Verdicts => status'[d] = CheckStatusFor(verdict'[d])
                        /\ verdict'[d] = "match" <=> reservation'[d] = "consumed"
                        /\ verdict'[d] = "mismatch" <=> reservation'[d] = "quarantined"
      BY DEF SettlementConsistent, CheckStatusFor
    <3>1. CASE d # c
      BY <3>1, <2>1 DEF SingleInv, SettlementConsistent, TypeOK
    <3>2. CASE d = c
      <4>1. reservation[c] \notin {"consumed", "quarantined"}
        BY <2>1 DEF SingleInv, SettlementConsistent, Terminal
      <4>2. /\ txOf'[c] = t /\ verdict'[c] = v /\ status'[c] = CheckStatusFor(v)
            /\ reservation'[c] = ReservationAfter(v, reservation[c])
        BY <2>1 DEF TypeOK
      <4>3. /\ v = "match" <=> reservation'[c] = "consumed"
            /\ v = "mismatch" <=> reservation'[c] = "quarantined"
        BY <4>1, <4>2 DEF ReservationAfter
      <4> QED
        BY <3>2, <2>2, <4>2, <4>3 DEF Verdicts, Terminal
    <3> QED
      BY <3>1, <3>2
  <2>4. CancelledIsUnused'
    BY <2>1 DEF SingleInv, CancelledIsUnused, Verifiable, TypeOK, CheckStatusFor, Verdicts, Terminal
  <2>5. SectionsCurrent'
    BY <1>12, SingleIdle DEF ApplySettlement, SectionsCurrent
  <2> QED
    BY <2>3, <2>4, <2>5 DEF SingleInv
<1> QED
  BY <1>1, <1>2, <1>3, <1>4, <1>5, <1>6, <1>7, <1>8, <1>9, <1>10, <1>11, <1>12
  DEF Next, Tick, Crash, ReplayCheck, BeginCheck, EvidenceFails, ReserveTooLate, SaveRaced,
      CancelRefused, BeginPoll, RejectSettlement

LEMMA SingleCorrect ==
  ASSUME OneProcess
  PROVE  Spec => [](TypeOK /\ SectionsSound /\ PollsSound /\ SingleInv)
<1>1. Init => PollsSound
  BY PaymentAssumption DEF Init, PollsSound, NoPoll
<1>2. Init => SingleInv
  BY DEF Init, SingleInv, SectionsCurrent, NoSection, SettlementConsistent,
         CancelledIsUnused, Verdicts, Terminal
<1>3. TypeOK /\ SectionsSound /\ PollsSound /\ SingleInv /\ [Next]_vars => SingleInv'
  BY SingleStep
<1> QED
  BY <1>1, <1>2, <1>3, PollsStep, TypeCorrect, SectionsCorrect, PTL DEF Spec

(* With one process, the rows of a check, its settlement and its           *)
(* reservation always tell one story, through crashes and late polls.      *)
THEOREM SettlementConsistentCorrect ==
  ASSUME OneProcess
  PROVE  Spec => []SettlementConsistent
<1>1. SingleInv => SettlementConsistent
  BY DEF SingleInv
<1> QED
  BY <1>1, SingleCorrect, PTL

(* With one process, a check that was cancelled never has a transaction.   *)
THEOREM CancelledIsUnusedCorrect ==
  ASSUME OneProcess
  PROVE  Spec => []CancelledIsUnused
<1>1. SingleInv => CancelledIsUnused
  BY DEF SingleInv
<1> QED
  BY <1>1, SingleCorrect, PTL

(* With one process, nothing is admitted under controls that were replaced *)
(* while its evidence was loading.                                         *)
THEOREM AdmittedUnderCurrentControlsCorrect ==
  ASSUME OneProcess
  PROVE  Spec => AdmittedUnderCurrentControls
<1>1. ASSUME TypeOK, SingleInv, [Next]_vars,
             NEW c \in Ids, reservation[c] = "none", reservation'[c] # "none"
      PROVE  provider = "pin" /\ limits'[c] = policy
  <2>1. PICK w \in Workers : Admit(w, c)
    BY <1>1, OnlyAdmitReserves
  <2>2. section[w].op = "reserve" /\ limits'[c] = section[w].limits
    BY <1>1, <2>1 DEF Admit, TypeOK
  <2> QED
    BY <1>1, <2>2 DEF SingleInv, SectionsCurrent
<1>2. TypeOK /\ SingleInv /\ [Next]_vars =>
        [\A c \in Ids : reservation[c] = "none" /\ reservation'[c] # "none" =>
           provider = "pin" /\ limits'[c] = policy]_vars
  BY <1>1
<1> QED
  BY <1>2, SingleCorrect, PTL DEF Spec, AdmittedUnderCurrentControls

----------------------------------------------------------------------------
(* A reservation belongs to a stored check. *)
ReservationsOwned == \A c \in Ids : reservation[c] # "none" => status[c] # "none"

LEMMA ReservationsOwnedCorrect == Spec => []ReservationsOwned
<1>1. Init => ReservationsOwned
  BY DEF Init, ReservationsOwned
<1>2. TypeOK /\ SectionsSound /\ ReservationsOwned /\ [Next]_vars => ReservationsOwned'
  <2> SUFFICES ASSUME TypeOK, SectionsSound, ReservationsOwned, [Next]_vars,
                      NEW c \in Ids, reservation'[c] # "none"
               PROVE  status'[c] # "none"
    BY DEF ReservationsOwned
  <2>1. CASE reservation[c] # "none"
    BY <2>1, StatusStays DEF ReservationsOwned
  <2>2. CASE reservation[c] = "none"
    <3>1. PICK w \in Workers : Admit(w, c)
      BY <2>2, OnlyAdmitReserves
    <3> QED
      BY <3>1 DEF Admit, TypeOK
  <2> QED
    BY <2>1, <2>2
<1> QED
  BY <1>1, <1>2, TypeCorrect, SectionsCorrect, PTL DEF Spec

----------------------------------------------------------------------------
(* Sums over finite sets.                                                  *)

(* What a set of charges f adds up to: the sum of the model, and what tells *)
(* it from any other: a function on all smaller sets that takes away one    *)
(* element at a time, the one CHOOSE takes.                                 *)
Total(f, S) == MapThenSumSet(LAMBDA c : f[c].amount, S)

Taken(s) == CHOOSE x \in s : TRUE

Adds(f, D, g) ==
  g = [s \in D |-> IF s = {} THEN 0 ELSE f[Taken(s)].amount + g[s \ {Taken(s)}]]

Small(S, n) == {s \in SUBSET S : Cardinality(s) <= n}

LEMMA TotalAdds == \A f, S : Total(f, S) = (CHOOSE g : Adds(f, SUBSET S, g))[S]
BY Zenon DEF Total, MapThenSumSet, MapThenFoldSet, Adds, Taken

(* Induction over the naturals: a set of them without a gap is all of them. *)
LEMMA AllNaturals ==
  ASSUME NEW Q \in SUBSET Nat, 0 \in Q, \A n \in Q : n + 1 \in Q
  PROVE  \A n \in Nat : n \in Q
<1> SUFFICES ASSUME NEW n \in Nat, n \notin Q PROVE FALSE
  OBVIOUS
<1> DEFINE Gaps == Nat \ Q
<1>1. n \in Gaps /\ Gaps \subseteq Nat
  OBVIOUS
<1>2. PICK m \in Gaps : \A k \in Gaps : <<k, m>> \notin OpToRel(<, Nat)
  BY <1>1, WFMin, NatLessThanWellFounded, Zenon
<1>3. \A k \in Gaps : ~(k < m)
  BY <1>1, <1>2, Zenon DEF OpToRel
<1>4. m \in Nat /\ m # 0 /\ m \notin Q
  OBVIOUS
<1>5. m - 1 \in Nat /\ m - 1 < m /\ (m - 1) + 1 = m
  BY <1>4
<1>6. m - 1 \in Q
  BY <1>3, <1>5, Zenon
<1> QED
  BY <1>4, <1>5, <1>6

LEMMA TakenIn == \A s : s # {} => Taken(s) \in s
BY Zenon DEF Taken

(* Sets of at most n elements, taking away from which leaves such a set.    *)
LEMMA SmallSets ==
  ASSUME NEW S, IsFiniteSet(S)
  PROVE  /\ Small(S, 0) = {{}}
         /\ Small(S, Cardinality(S)) = SUBSET S
         /\ \A n \in Nat :
              /\ Small(S, n) \subseteq Small(S, n + 1)
              /\ \A s \in Small(S, n + 1) : \A x \in s : s \ {x} \in Small(S, n)
<1>1. \A s \in SUBSET S :
        /\ IsFiniteSet(s) /\ Cardinality(s) \in Nat /\ Cardinality(s) <= Cardinality(S)
        /\ Cardinality(s) = 0 <=> s = {}
        /\ \A x \in s : Cardinality(s \ {x}) = Cardinality(s) - 1
  BY FS_Subset, FS_CardinalityType, FS_EmptySet, FS_RemoveElement
<1>2. Small(S, 0) = {{}}
  BY <1>1 DEF Small
<1>3. Small(S, Cardinality(S)) = SUBSET S
  BY <1>1 DEF Small
<1>4. ASSUME NEW n \in Nat
      PROVE  Small(S, n) \subseteq Small(S, n + 1)
  BY <1>1 DEF Small
<1>5. ASSUME NEW n \in Nat, NEW s \in Small(S, n + 1), NEW x \in s
      PROVE  s \ {x} \in Small(S, n)
  <2>1. s \in SUBSET S /\ Cardinality(s) <= n + 1 /\ s \ {x} \in SUBSET S
    BY DEF Small
  <2>2. Cardinality(s) \in Nat /\ Cardinality(s \ {x}) = Cardinality(s) - 1
    BY <1>1, <2>1
  <2>3. Cardinality(s \ {x}) <= n
    BY <2>1, <2>2
  <2> QED
    BY <2>1, <2>3 DEF Small
<1> QED
  BY <1>2, <1>3, <1>4, <1>5

(* The function exists, and its values are naturals.                        *)
LEMMA AdderExists ==
  ASSUME NEW S, IsFiniteSet(S), NEW f, \A c \in S : f[c].amount \in Nat
  PROVE  \E g \in [SUBSET S -> Nat] : Adds(f, SUBSET S, g)
<1> DEFINE Q == {n \in Nat : \E g \in [Small(S, n) -> Nat] : Adds(f, Small(S, n), g)}
<1>1. 0 \in Q
  <2> DEFINE g == [s \in Small(S, 0) |-> 0]
  <2>1. g \in [Small(S, 0) -> Nat]
    OBVIOUS
  <2>2. Adds(f, Small(S, 0), g)
    BY SmallSets, Zenon DEF Adds
  <2> QED
    BY <2>1, <2>2
<1>2. ASSUME NEW n \in Q
      PROVE  n + 1 \in Q
  <2>1. PICK g \in [Small(S, n) -> Nat] : Adds(f, Small(S, n), g)
    OBVIOUS
  <2> DEFINE up == [s \in Small(S, n + 1) |->
                      IF s = {} THEN 0 ELSE f[Taken(s)].amount + g[s \ {Taken(s)}]]
  <2>2. n \in Nat /\ n + 1 \in Nat
    OBVIOUS
  <2>3. ASSUME NEW s \in Small(S, n + 1), s # {}
        PROVE  Taken(s) \in s /\ Taken(s) \in S /\ s \ {Taken(s)} \in Small(S, n)
    <3>1. Taken(s) \in s
      BY <2>3, TakenIn
    <3>2. s \subseteq S
      BY DEF Small
    <3> QED
      BY <2>2, <3>1, <3>2, SmallSets
  <2>4. up \in [Small(S, n + 1) -> Nat]
    <3>1. ASSUME NEW s \in Small(S, n + 1), s # {}
          PROVE  f[Taken(s)].amount + g[s \ {Taken(s)}] \in Nat
      <4>1. f[Taken(s)].amount \in Nat /\ g[s \ {Taken(s)}] \in Nat
        BY <2>3, <3>1
      <4> QED
        BY <4>1
    <3> QED
      BY <3>1
  <2>5. ASSUME NEW s \in Small(S, n)
        PROVE  up[s] = g[s]
    <3>1. s \in Small(S, n + 1)
      BY <2>2, SmallSets
    <3>2. g[s] = IF s = {} THEN 0 ELSE f[Taken(s)].amount + g[s \ {Taken(s)}]
      BY <2>1, Zenon DEF Adds
    <3> QED
      BY <3>1, <3>2
  <2>6. \A s \in Small(S, n + 1) : s # {} => g[s \ {Taken(s)}] = up[s \ {Taken(s)}]
    BY <2>3, <2>5
  <2>7. up = [s \in Small(S, n + 1) |->
                IF s = {} THEN 0 ELSE f[Taken(s)].amount + up[s \ {Taken(s)}]]
    <3> DEFINE again == [s \in Small(S, n + 1) |->
                           IF s = {} THEN 0 ELSE f[Taken(s)].amount + up[s \ {Taken(s)}]]
    <3>1. ASSUME NEW s \in Small(S, n + 1)
          PROVE  up[s] = again[s]
      <4>1. up[s] = IF s = {} THEN 0 ELSE f[Taken(s)].amount + g[s \ {Taken(s)}]
        OBVIOUS
      <4>2. again[s] = IF s = {} THEN 0 ELSE f[Taken(s)].amount + up[s \ {Taken(s)}]
        OBVIOUS
      <4> HIDE DEF up, again
      <4> QED
        BY <2>6, <4>1, <4>2
    <3> QED
      BY <3>1
  <2> HIDE DEF up
  <2>8. Adds(f, Small(S, n + 1), up)
    BY <2>7 DEF Adds
  <2> QED
    BY <2>2, <2>4, <2>8
<1>3. Cardinality(S) \in Nat
  BY FS_CardinalityType
<1>4. Q \in SUBSET Nat
  OBVIOUS
<1> HIDE DEF Q
<1>5. Cardinality(S) \in Q
  BY <1>1, <1>2, <1>3, <1>4, AllNaturals
<1> QED
  BY <1>5, SmallSets DEF Q

(* A sum does not depend on the function that adds it up.                   *)
LEMMA AdderUnique ==
  ASSUME NEW S, IsFiniteSet(S), NEW T \in SUBSET S, NEW f, NEW g, NEW h,
         Adds(f, SUBSET S, g), Adds(f, SUBSET T, h)
  PROVE  g[T] = h[T]
<1>0. IsFiniteSet(T)
  BY FS_Subset
<1> DEFINE Q == {n \in Nat : \A s \in Small(T, n) : g[s] = h[s]}
<1>1. ASSUME NEW s \in SUBSET T
      PROVE  /\ g[s] = IF s = {} THEN 0 ELSE f[Taken(s)].amount + g[s \ {Taken(s)}]
             /\ h[s] = IF s = {} THEN 0 ELSE f[Taken(s)].amount + h[s \ {Taken(s)}]
  <2>1. s \in SUBSET S
    OBVIOUS
  <2>2. g[s] = IF s = {} THEN 0 ELSE f[Taken(s)].amount + g[s \ {Taken(s)}]
    BY <2>1, Zenon DEF Adds
  <2>3. h[s] = IF s = {} THEN 0 ELSE f[Taken(s)].amount + h[s \ {Taken(s)}]
    BY Zenon DEF Adds
  <2> QED
    BY <2>2, <2>3
<1>2. 0 \in Q
  <2>1. Small(T, 0) = {{}}
    BY <1>0, SmallSets
  <2>2. g[{}] = 0 /\ h[{}] = 0
    BY <1>1
  <2> QED
    BY <2>1, <2>2
<1>3. ASSUME NEW n \in Q
      PROVE  n + 1 \in Q
  <2>1. ASSUME NEW s \in Small(T, n + 1)
        PROVE  g[s] = h[s]
    <3>1. s \in SUBSET T /\ n \in Nat
      BY DEF Small
    <3>2. CASE s = {}
      BY <1>1, <3>1, <3>2
    <3>3. CASE s # {}
      <4>1. s \ {Taken(s)} \in Small(T, n)
        BY <1>0, <3>1, <3>3, TakenIn, SmallSets
      <4>2. g[s \ {Taken(s)}] = h[s \ {Taken(s)}]
        BY <4>1
      <4> QED
        BY <1>1, <3>1, <3>3, <4>2
    <3> QED
      BY <3>2, <3>3
  <2> QED
    BY <2>1
<1>4. Cardinality(T) \in Nat
  BY <1>0, FS_CardinalityType
<1>5. Q \in SUBSET Nat
  OBVIOUS
<1> HIDE DEF Q
<1>6. Cardinality(T) \in Q
  BY <1>2, <1>3, <1>4, <1>5, AllNaturals
<1> QED
  BY <1>0, <1>6, SmallSets DEF Q

(* What adds up a set adds up its parts.                                    *)
LEMMA TotalOfPart ==
  ASSUME NEW S, IsFiniteSet(S), NEW f, \A c \in S : f[c].amount \in Nat,
         NEW g, Adds(f, SUBSET S, g), NEW T \in SUBSET S
  PROVE  Total(f, T) = g[T]
<1>1. IsFiniteSet(T) /\ \A c \in T : f[c].amount \in Nat
  BY FS_Subset
<1>2. \E h : Adds(f, SUBSET T, h)
  BY <1>1, AdderExists
<1> DEFINE h == CHOOSE k : Adds(f, SUBSET T, k)
<1>3. Adds(f, SUBSET T, h)
  BY <1>2, Zenon
<1>4. Total(f, T) = h[T]
  BY TotalAdds, Zenon
<1> HIDE DEF h
<1> QED
  BY <1>3, <1>4, AdderUnique

(* The unfolding of a sum.                                                  *)
LEMMA TotalTaken ==
  ASSUME NEW S, IsFiniteSet(S), NEW f, \A c \in S : f[c].amount \in Nat
  PROVE  /\ Total(f, S) \in Nat
         /\ S = {} => Total(f, S) = 0
         /\ S # {} => Total(f, S) = f[Taken(S)].amount + Total(f, S \ {Taken(S)})
<1>1. PICK g \in [SUBSET S -> Nat] : Adds(f, SUBSET S, g)
  BY AdderExists
<1>2. g[S] = IF S = {} THEN 0 ELSE f[Taken(S)].amount + g[S \ {Taken(S)}]
  <2>1. S \in SUBSET S
    OBVIOUS
  <2> QED
    BY <1>1, <2>1, Zenon DEF Adds
<1>3. \A T \in SUBSET S : Total(f, T) = g[T]
  BY <1>1, TotalOfPart
<1> QED
  BY <1>1, <1>2, <1>3

(* Any element may be taken away.                                           *)
LEMMA TotalWithout ==
  ASSUME NEW S, IsFiniteSet(S), NEW f, \A c \in S : f[c].amount \in Nat
  PROVE  \A x \in S : Total(f, S) = f[x].amount + Total(f, S \ {x})
<1> DEFINE Q == {n \in Nat : \A s \in Small(S, n) : \A x \in s :
                   Total(f, s) = f[x].amount + Total(f, s \ {x})}
<1>1. \A s \in SUBSET S : IsFiniteSet(s) /\ \A c \in s : f[c].amount \in Nat
  BY FS_Subset
<1>2. 0 \in Q
  <2>1. Small(S, 0) = {{}}
    BY SmallSets
  <2> QED
    BY <2>1
<1>3. ASSUME NEW n \in Q
      PROVE  n + 1 \in Q
  <2>1. ASSUME NEW s \in Small(S, n + 1), NEW x \in s
        PROVE  Total(f, s) = f[x].amount + Total(f, s \ {x})
    <3> DEFINE p == Taken(s)
    <3>1. s \in SUBSET S /\ n \in Nat /\ p \in s
      BY TakenIn DEF Small
    <3>2. Total(f, s) = f[p].amount + Total(f, s \ {p})
      BY <1>1, <3>1, TotalTaken
    <3>3. CASE x = p
      BY <3>2, <3>3
    <3>4. CASE x # p
      <4> HIDE DEF p
      <4>1. s \ {p} \in Small(S, n) /\ s \ {x} \in Small(S, n)
        BY <3>1, SmallSets
      <4>2. Total(f, s \ {p}) = f[x].amount + Total(f, (s \ {p}) \ {x})
        BY <3>1, <3>4, <4>1
      <4>3. Total(f, s \ {x}) = f[p].amount + Total(f, (s \ {x}) \ {p})
        BY <3>1, <3>4, <4>1
      <4>4. (s \ {x}) \ {p} = (s \ {p}) \ {x}
        OBVIOUS
      <4>5. Total(f, (s \ {p}) \ {x}) \in Nat
        <5>1. (s \ {p}) \ {x} \in SUBSET S
          BY <3>1
        <5> QED
          BY <1>1, <5>1, TotalTaken
      <4>6. f[x].amount \in Nat /\ f[p].amount \in Nat
        BY <3>1
      <4>7. \A a, b, r \in Nat : a + (b + r) = b + (a + r)
        OBVIOUS
      <4> DEFINE rest == Total(f, (s \ {p}) \ {x})
      <4>8. Total(f, s) = f[p].amount + (f[x].amount + rest)
        BY <3>2, <4>2
      <4>9. Total(f, s \ {x}) = f[p].amount + rest
        BY <4>3, <4>4
      <4>10. f[p].amount + (f[x].amount + rest) = f[x].amount + (f[p].amount + rest)
        BY <4>5, <4>6, <4>7, Zenon
      <4> HIDE DEF rest
      <4> QED
        BY <4>8, <4>9, <4>10
    <3> QED
      BY <3>3, <3>4
  <2> QED
    BY <2>1
<1>4. Cardinality(S) \in Nat
  BY FS_CardinalityType
<1>5. Q \in SUBSET Nat
  OBVIOUS
<1> HIDE DEF Q
<1>6. Cardinality(S) \in Q
  BY <1>2, <1>3, <1>4, <1>5, AllNaturals
<1> QED
  BY <1>6, SmallSets DEF Q

(* A part adds up to no more.                                               *)
LEMMA TotalMonotone ==
  ASSUME NEW S, IsFiniteSet(S), NEW f, \A c \in S : f[c].amount \in Nat, NEW T \in SUBSET S
  PROVE  Total(f, T) <= Total(f, S)
<1> DEFINE Q == {n \in Nat : \A s \in Small(S, n) : T \subseteq s => Total(f, T) <= Total(f, s)}
<1>1. \A s \in SUBSET S : /\ IsFiniteSet(s) /\ \A c \in s : f[c].amount \in Nat
                          /\ Total(f, s) \in Nat
  <2>1. \A s \in SUBSET S : IsFiniteSet(s) /\ \A c \in s : f[c].amount \in Nat
    BY FS_Subset
  <2> QED
    BY <2>1, TotalTaken
<1>2. 0 \in Q
  <2>1. Small(S, 0) = {{}}
    BY SmallSets
  <2>2. T \subseteq {} => T = {}
    OBVIOUS
  <2>3. Total(f, T) <= Total(f, T)
    BY <1>1
  <2> QED
    BY <2>1, <2>2, <2>3
<1>3. ASSUME NEW n \in Q
      PROVE  n + 1 \in Q
  <2>1. ASSUME NEW s \in Small(S, n + 1), T \subseteq s
        PROVE  Total(f, T) <= Total(f, s)
    <3>1. s \in SUBSET S /\ n \in Nat
      BY DEF Small
    <3>2. CASE T = s
      BY <1>1, <3>2
    <3>3. CASE T # s
      <4>1. PICK x \in s : x \notin T
        BY <2>1, <3>3
      <4>2. s \ {x} \in Small(S, n) /\ T \subseteq s \ {x} /\ s \ {x} \in SUBSET S
        BY <2>1, <3>1, <4>1, SmallSets
      <4>3. Total(f, T) <= Total(f, s \ {x})
        BY <4>2
      <4>4. Total(f, s) = f[x].amount + Total(f, s \ {x})
        BY <1>1, <3>1, TotalWithout
      <4>5. f[x].amount \in Nat /\ Total(f, s \ {x}) \in Nat /\ Total(f, T) \in Nat
        BY <1>1, <3>1, <4>2
      <4> QED
        BY <4>3, <4>4, <4>5
    <3> QED
      BY <3>2, <3>3
  <2> QED
    BY <2>1
<1>4. Cardinality(S) \in Nat
  BY FS_CardinalityType
<1>5. Q \in SUBSET Nat
  OBVIOUS
<1> HIDE DEF Q
<1>6. Cardinality(S) \in Q
  BY <1>2, <1>3, <1>4, <1>5, AllNaturals
<1>7. S \in Small(S, Cardinality(S))
  BY SmallSets
<1> QED
  BY <1>6, <1>7 DEF Q

----------------------------------------------------------------------------
(* The daily cap.                                                          *)

LEMMA AmountIsTotal ==
  ASSUME NEW res, NEW statuses, NEW d, NEW days
  PROVE  AmountOn(res, statuses, d, days)
           = Total(charge, {c \in Ids : res[c] \in statuses /\ days[c] = d})
BY Zenon DEF AmountOn, Total, MapThenSumSet, MapThenFoldSet

LEMMA Amounts ==
  ASSUME TypeOK
  PROVE  \A S \in SUBSET Ids :
           /\ IsFiniteSet(S) /\ \A c \in S : charge[c].amount \in Nat
           /\ Total(charge, S) \in Nat
<1>1. \A c \in Ids : charge[c].amount \in Nat
  BY PaymentAssumption DEF TypeOK
<1>2. \A S \in SUBSET Ids : IsFiniteSet(S) /\ \A c \in S : charge[c].amount \in Nat
  BY <1>1, PaymentAssumption, FS_Subset
<1> QED
  BY <1>2, TotalTaken

(* What an admission adds: the payment itself, to what counted already.    *)
LEMMA AdmitAdds ==
  ASSUME TypeOK, SectionsSound, NEW w \in Workers, NEW c \in Ids, Admit(w, c),
         reservation[c] = "none"
  PROVE  LET counted == {d \in Ids : Unexpired[d] \in Committed /\ day[d] = Today}
         IN  /\ limits'[c].cap \in Nat /\ day'[c] = Today /\ c \notin counted
             /\ Total(charge, counted \union {c}) <= limits'[c].cap
<1> DEFINE counted == {d \in Ids : Unexpired[d] \in Committed /\ day[d] = Today}
           p == section[w].limits
<1>1. limits'[c] = p /\ p.cap \in Nat /\ day'[c] = Today
  BY PaymentAssumption DEF Admit, SectionsSound, TypeOK
<1>2. c \notin counted
  BY DEF Unexpired, Lapsed, Committed, Open
<1>3. counted \in SUBSET Ids /\ counted \union {c} \in SUBSET Ids
  OBVIOUS
<1>4. Total(charge, counted) + charge[c].amount <= p.cap
  <2>1. AmountOn(Unexpired, Committed, Today, day) = Total(charge, counted)
    BY AmountIsTotal
  <2> QED
    BY <2>1 DEF Admit, Admissible, UnderCap
<1> HIDE DEF counted, p
<1>5. (counted \union {c}) \ {c} = counted
  BY <1>2
<1>6. Total(charge, counted \union {c}) = charge[c].amount + Total(charge, counted)
  <2>1. \A x \in counted \union {c} : Total(charge, counted \union {c})
            = charge[x].amount + Total(charge, (counted \union {c}) \ {x})
    BY <1>3, Amounts, TotalWithout
  <2> QED
    BY <1>5, <2>1
<1>7. Total(charge, counted) \in Nat /\ charge[c].amount \in Nat
  BY <1>3, Amounts
<1>8. Total(charge, counted \union {c}) <= p.cap
  BY <1>1, <1>4, <1>6, <1>7
<1> QED
  BY <1>1, <1>2, <1>8 DEF counted

LEMMA CapStep ==
  ASSUME TypeOK, SectionsSound, [Next]_vars,
         NEW c \in Ids, reservation[c] = "none", reservation'[c] # "none"
  PROVE  AmountOn(reservation', Committed, day'[c], day') <= limits'[c].cap
<1>1. PICK w \in Workers : Admit(w, c)
  BY OnlyAdmitReserves
<1> DEFINE counted == {d \in Ids : Unexpired[d] \in Committed /\ day[d] = Today}
           now == {d \in Ids : reservation'[d] \in Committed /\ day'[d] = day'[c]}
<1>2. now = counted \union {c}
  BY <1>1, UnexpiredType DEF Admit, Committed, Open, TypeOK
<1>3. AmountOn(reservation', Committed, day'[c], day') = Total(charge, now)
  BY AmountIsTotal
<1> QED
  BY <1>1, <1>2, <1>3, AdmitAdds

(* No admission takes a day past the cap of the policy it is made under,   *)
(* for any number of processes and requests, and any amounts.              *)
THEOREM CapCorrect == Spec => AdmissionWithinCap
<1>1. TypeOK /\ SectionsSound /\ [Next]_vars =>
        [\A c \in Ids : reservation[c] = "none" /\ reservation'[c] # "none" =>
           AmountOn(reservation', Committed, day'[c], day') <= limits'[c].cap]_vars
  BY CapStep
<1> QED
  BY <1>1, TypeCorrect, SectionsCorrect, PTL DEF Spec, AdmissionWithinCap

(* What was settled on time, and counts against day k.                     *)
OnTime(k) == {x \in Ids : x \notin late /\ reservation[x] \in Committed /\ day[x] = k}

LEMMA OnTimeAmount ==
  \A k : AmountOn([x \in Ids |-> IF x \in late THEN "none" ELSE reservation[x]],
                  Committed, k, day) = Total(charge, OnTime(k))
<1> SUFFICES ASSUME NEW k
             PROVE  AmountOn([x \in Ids |-> IF x \in late THEN "none" ELSE reservation[x]],
                             Committed, k, day) = Total(charge, OnTime(k))
  OBVIOUS
<1> DEFINE res == [x \in Ids |-> IF x \in late THEN "none" ELSE reservation[x]]
<1>1. {x \in Ids : res[x] \in Committed /\ day[x] = k} = OnTime(k)
  BY DEF OnTime, Committed, Open
<1> HIDE DEF res
<1>2. AmountOn(res, Committed, k, day) = Total(charge, OnTime(k))
  BY <1>1, AmountIsTotal
<1> QED
  BY <1>2 DEF res

(* A step that admits nothing makes no reservation count that did not, and *)
(* leaves the days and the limits of what is reserved.                     *)
LEMMA OthersOnlyRelease ==
  ASSUME TypeOK, ReservationsOwned, [Next]_vars,
         \A w \in Workers, c \in Ids : ~Admit(w, c)
  PROVE  /\ \A x \in Ids : x \notin late' /\ reservation'[x] \in Committed =>
                             x \notin late /\ reservation[x] \in Committed
         /\ \A x \in Ids : reservation'[x] # "none" => reservation[x] # "none"
         /\ \A x \in Ids : reservation[x] # "none" =>
                             reservation'[x] # "none" /\ limits'[x] = limits[x]
         /\ day' = day /\ charge' = charge
<1> DEFINE Goal ==
      /\ \A x \in Ids : x \notin late' /\ reservation'[x] \in Committed =>
                          x \notin late /\ reservation[x] \in Committed
      /\ \A x \in Ids : reservation'[x] # "none" => reservation[x] # "none"
      /\ \A x \in Ids : reservation[x] # "none" =>
                          reservation'[x] # "none" /\ limits'[x] = limits[x]
      /\ day' = day /\ charge' = charge
<1> USE DEF vars, database, controls, checks, reservations, settlements, requests
<1>1. CASE UNCHANGED <<charge, reservation, day, late, limits>>
  BY <1>1
<1>2. ASSUME NEW w \in Workers, NEW c \in Ids,
             NEW finding \in {"clear", "review", "block"}, EvaluateCheck(w, c, finding)
      PROVE  Goal
  BY <1>2 DEF EvaluateCheck, Unexpired, Lapsed, Committed, Open
<1>3. ASSUME NEW w \in Workers, NEW c \in Ids, SaveUnpaid(w, c)
      PROVE  Goal
  <2>1. reservation[c] = "none"
    BY <1>3 DEF SaveUnpaid, SameKey, ReservationsOwned
  <2> QED
    BY <1>3, <2>1 DEF SaveUnpaid, TypeOK
<1>4. ASSUME NEW w \in Workers, NEW c \in Ids, ReleaseReservation(w, c)
      PROVE  Goal
  BY <1>4 DEF ReleaseReservation, Committed, Open, TypeOK
<1>5. ASSUME NEW w \in Workers, NEW p \in Polls, NEW c \in Ids, NEW v \in Verdicts,
             ApplySettlement(w, p, c, v)
      PROVE  Goal
  <2>1. /\ reservation' = [reservation EXCEPT ![c] = ReservationAfter(v, reservation[c])]
        /\ late' = IF reservation[c] = "expired" /\ v \in Terminal
                     THEN late \union {c} ELSE late
        /\ UNCHANGED <<charge, day, limits>>
        /\ reservation[c] \in SettlesFrom(v)
    BY <1>5 DEF ApplySettlement, Accepted
  <2>2. CASE v \in Terminal
    BY <2>1, <2>2 DEF ReservationAfter, SettlesFrom, Terminal, Committed, Open, TypeOK
  <2>3. CASE v \notin Terminal
    BY <2>1, <2>3 DEF ReservationAfter, Terminal, TypeOK
  <2> QED
    BY <2>2, <2>3
<1> QED
  BY <1>1, <1>2, <1>3, <1>4, <1>5
  DEF Next, Tick, SavePolicy, SaveProviderDecision, Crash, ReplayCheck, BeginCheck,
      EvidenceFails, ReserveTooLate, SaveRaced, ReserveRefused, BeginCancel,
      CancelRefused, MarkCancelled, BeginPoll, RejectSettlement

(* The invariant, in terms of the sums.                                    *)
OnTimeCovered ==
  \A c \in Ids : reservation[c] # "none" =>
    \E d \in Ids : /\ reservation[d] # "none" /\ day[d] = day[c]
                   /\ limits[d].cap \in Nat
                   /\ Total(charge, OnTime(day[c])) <= limits[d].cap

LEMMA OnTimeStep ==
  TypeOK /\ SectionsSound /\ ReservationsOwned /\ OnTimeCovered /\ TypeOK' /\ [Next]_vars
    => OnTimeCovered'
<1> SUFFICES ASSUME TypeOK, SectionsSound, ReservationsOwned, OnTimeCovered, TypeOK',
                    [Next]_vars, NEW c \in Ids, reservation'[c] # "none"
             PROVE  \E d \in Ids : /\ reservation'[d] # "none" /\ day'[d] = day'[c]
                                   /\ limits'[d].cap \in Nat
                                   /\ Total(charge', OnTime(day[c])') <= limits'[d].cap
  BY DEF OnTimeCovered
(* A day on which no more counts than before keeps its check.              *)
<1>1. ASSUME reservation[c] # "none", day'[c] = day[c], charge' = charge,
             OnTime(day[c])' \subseteq OnTime(day[c]),
             \A d \in Ids : reservation[d] # "none" =>
               reservation'[d] # "none" /\ day'[d] = day[d] /\ limits'[d] = limits[d]
      PROVE  \E d \in Ids : /\ reservation'[d] # "none" /\ day'[d] = day'[c]
                            /\ limits'[d].cap \in Nat
                            /\ Total(charge', OnTime(day[c])') <= limits'[d].cap
  <2>1. PICK d \in Ids : /\ reservation[d] # "none" /\ day[d] = day[c]
                         /\ limits[d].cap \in Nat
                         /\ Total(charge, OnTime(day[c])) <= limits[d].cap
    BY <1>1 DEF OnTimeCovered
  <2> DEFINE before == OnTime(day[c])
             after  == OnTime(day[c])'
  <2>2. before \in SUBSET Ids /\ after \in SUBSET before
    BY <1>1 DEF OnTime
  <2> HIDE DEF before, after
  <2>3. Total(charge, after) <= Total(charge, before)
    BY <2>2, Amounts, TotalMonotone
  <2>4. Total(charge, after) \in Nat /\ Total(charge, before) \in Nat
    <3>1. after \in SUBSET Ids
      BY <2>2
    <3> QED
      BY <2>2, <3>1, Amounts
  <2>5. Total(charge, before) <= limits[d].cap
    BY <2>1 DEF before
  <2>6. Total(charge, after) <= limits[d].cap
    BY <2>1, <2>3, <2>4, <2>5
  <2>7. Total(charge', OnTime(day[c])') <= limits'[d].cap
    BY <1>1, <2>1, <2>6 DEF after
  <2> QED
    BY <1>1, <2>1, <2>7
<1>2. ASSUME NEW w \in Workers, NEW a \in Ids, Admit(w, a)
      PROVE  \E d \in Ids : /\ reservation'[d] # "none" /\ day'[d] = day'[c]
                            /\ limits'[d].cap \in Nat
                            /\ Total(charge', OnTime(day[c])') <= limits'[d].cap
  <2>1. reservation[a] = "none"
    BY <1>2, OwnKeyFree DEF Admit, ReservationsOwned
  <2>2. /\ reservation' = [Unexpired EXCEPT ![a] = "active"]
        /\ day' = [day EXCEPT ![a] = Today]
        /\ limits' = [limits EXCEPT ![a] = section[w].limits]
        /\ charge' = charge /\ late' = late
    BY <1>2 DEF Admit, settlements
  <2> DEFINE counted == {d \in Ids : Unexpired[d] \in Committed /\ day[d] = Today}
  <2>3. /\ limits'[a].cap \in Nat /\ day'[a] = Today
        /\ Total(charge, counted \union {a}) <= limits'[a].cap
    BY <1>2, <2>1, AdmitAdds
  <2>4. CASE day'[c] = Today
    <3> DEFINE now == OnTime(day[c])'
               both == counted \union {a}
    <3>1. now \in SUBSET both /\ both \in SUBSET Ids
      BY <2>2, <2>4, UnexpiredType DEF OnTime, TypeOK
    <3>2. reservation'[a] # "none"
      BY <2>2, UnexpiredType
    <3>3. Total(charge, both) <= limits'[a].cap
      BY <2>3
    <3> HIDE DEF now, both
    <3>4. Total(charge, now) <= Total(charge, both)
      BY <3>1, Amounts, TotalMonotone
    <3>5. Total(charge, now) \in Nat /\ Total(charge, both) \in Nat
      <4>1. now \in SUBSET Ids
        BY <3>1
      <4> QED
        BY <3>1, <4>1, Amounts
    <3>6. Total(charge, now) <= limits'[a].cap
      BY <2>3, <3>3, <3>4, <3>5
    <3>7. Total(charge', OnTime(day[c])') <= limits'[a].cap
      BY <2>2, <3>6 DEF now
    <3> QED
      BY <2>3, <2>4, <3>2, <3>7
  <2>5. CASE day'[c] # Today
    <3>1. c # a
      BY <2>3, <2>5
    <3>2. day'[c] = day[c] /\ reservation[c] # "none"
      BY <2>2, <3>1 DEF TypeOK, Unexpired, Lapsed
    <3>3. \A d \in Ids : reservation[d] # "none" =>
            reservation'[d] # "none" /\ day'[d] = day[d] /\ limits'[d] = limits[d]
      BY <2>1, <2>2 DEF TypeOK, Unexpired, Lapsed
    <3>4. OnTime(day[c])' \subseteq OnTime(day[c])
      BY <2>2, <2>3, <2>5, <3>2 DEF OnTime, TypeOK, Unexpired, Lapsed, Committed, Open
    <3> QED
      BY <1>1, <2>2, <3>2, <3>3, <3>4
  <2> QED
    BY <2>4, <2>5
<1>3. CASE \A w \in Workers, a \in Ids : ~Admit(w, a)
  <2>1. /\ \A x \in Ids : x \notin late' /\ reservation'[x] \in Committed =>
                            x \notin late /\ reservation[x] \in Committed
        /\ \A x \in Ids : reservation'[x] # "none" => reservation[x] # "none"
        /\ \A x \in Ids : reservation[x] # "none" =>
                            reservation'[x] # "none" /\ limits'[x] = limits[x]
        /\ day' = day /\ charge' = charge
    BY <1>3, OthersOnlyRelease
  <2>2. OnTime(day[c])' \subseteq OnTime(day[c])
    BY <2>1 DEF OnTime
  <2> QED
    BY <1>1, <2>1, <2>2
<1> QED
  BY <1>2, <1>3

(* Whatever expires, is released or settles in time, on any day and under  *)
(* any policies, what counts on time is within a cap of that day.          *)
THEOREM OnTimeSpendCorrect == Spec => []OnTimeSpendWithinCap
<1>1. Init => OnTimeCovered
  BY DEF Init, OnTimeCovered
<1>2. OnTimeCovered => OnTimeSpendWithinCap
  BY OnTimeAmount DEF OnTimeCovered, OnTimeSpendWithinCap
<1> QED
  BY <1>1, <1>2, TypeCorrect, SectionsCorrect, ReservationsOwnedCorrect, OnTimeStep, PTL
     DEF Spec

----------------------------------------------------------------------------
(* The ledger.                                                             *)

(* The ledger adds up the same amounts as the repository. *)
LEMMA SameTotals ==
  ASSUME NEW res, NEW d
  PROVE  Ledger!CommittedOn(res, d) = AmountOn(res, Committed, d, day)
<1>1. Ledger!Committed = Committed
  BY DEF Ledger!Committed, Ledger!Open, Committed, Open
<1> QED
  BY <1>1, Zenon DEF Ledger!CommittedOn, AmountOn, Ledger!MapThenSumSet, MapThenSumSet,
                     Ledger!MapThenFoldSet, MapThenFoldSet

LEMMA SameCardinality ==
  ASSUME NEW S
  PROVE  Ledger!Cardinality(S) = Cardinality(S)
BY Zenon DEF Ledger!Cardinality, Cardinality

LEMMA LedgerStep ==
  ASSUME OneProcess, TypeOK, SectionsSound, PollsSound, SingleInv, ClaimsGuardNonces,
         ReservationsOwned, [Next]_vars
  PROVE  [Ledger!Next]_(Ledger!vars)
<1> USE DEF vars, database, controls, checks, reservations, settlements, requests
<1>1. CASE UNCHANGED <<charge, reservation, day, late>>
  BY <1>1 DEF Ledger!vars
<1>2. ASSUME NEW w \in Workers, NEW c \in Ids,
             NEW finding \in {"clear", "review", "block"}, EvaluateCheck(w, c, finding)
      PROVE  Ledger!Next
  <2>1. Ledger!Lapse(Lapsed)
    BY <1>2 DEF EvaluateCheck, Ledger!Lapse, Lapsed, Unexpired
  <2> QED
    BY <2>1 DEF Ledger!Next, Lapsed
<1>3. ASSUME NEW w \in Workers, NEW c \in Ids, Admit(w, c)
      PROVE  Ledger!Next
  <2> DEFINE p == section[w].limits
  <2>1. p \in Policies
    BY <1>3 DEF Admit, SectionsSound
  <2>2. reservation[c] = "none"
    BY <1>3, OwnKeyFree DEF Admit, ReservationsOwned
  <2>3. /\ reservation' = [Unexpired EXCEPT ![c] = "active"]
        /\ day' = [day EXCEPT ![c] = Today]
        /\ UNCHANGED <<charge, late>>
        /\ SlotFree(p) /\ ~Replayed(c) /\ UnderCap(c, p)
    BY <1>3 DEF Admit, Admissible
  <2>4. day'[c] = Today
    BY <2>3 DEF TypeOK
  <2>5. Unexpired = [d \in Ids |-> IF d \in Lapsed THEN "expired" ELSE reservation[d]]
    BY DEF Unexpired
  <2>6. Ledger!CommittedOn(Unexpired, Today) + charge[c].amount <= p.cap
    BY <2>3, SameTotals DEF UnderCap
  <2>7. Ledger!Cardinality({d \in Ids : Unexpired[d] \in Ledger!Open}) < p.slots
    BY <2>3, SameCardinality DEF SlotFree, Open, Ledger!Open
  <2>8. \A d \in Ids \ late :
          Unexpired[d] \in Ledger!Committed => charge[d].nonce # charge[c].nonce
    BY <2>3 DEF Replayed, ClaimsGuardNonces, Unexpired, UnexpiredClaims, Committed, Open,
                Ledger!Committed, Ledger!Open
  <2>9. \A d \in Lapsed : reservation[d] = "active"
    BY DEF Lapsed
  <2>10. Ledger!Make(c, Lapsed, p, day'[c])
    <3> HIDE DEF p
    <3> QED
      BY <2>2, <2>3, <2>4, <2>5, <2>6, <2>7, <2>8, <2>9 DEF Ledger!Make
  <2>11. Lapsed \in SUBSET Ids
    BY DEF Lapsed
  <2> QED
    BY <2>1, <2>10, <2>11 DEF Ledger!Next
<1>4. ASSUME NEW w \in Workers, NEW c \in Ids, ReleaseReservation(w, c)
      PROVE  Ledger!Next
  <2>1. status[c] = "reserved"
    BY <1>4 DEF ReleaseReservation, SingleInv, SectionsCurrent
  <2>2. verdict[c] = "none"
    BY <2>1 DEF SingleInv, SettlementConsistent, CheckStatusFor, TypeOK, Verdicts, Terminal
  <2>3. Ledger!Release(c)
    BY <1>4, <2>2 DEF ReleaseReservation, Open, SingleInv, SettlementConsistent, Ledger!Release
  <2> QED
    BY <2>3 DEF Ledger!Next
<1>5. ASSUME NEW w \in Workers, NEW p \in Polls, NEW c \in Ids, NEW v \in Verdicts,
             ApplySettlement(w, p, c, v)
      PROVE  [Ledger!Next]_(Ledger!vars)
  <2>1. /\ verdict[c] \notin Terminal /\ reservation[c] \in SettlesFrom(v)
        /\ reservation' = [reservation EXCEPT ![c] = ReservationAfter(v, reservation[c])]
        /\ late' = IF reservation[c] = "expired" /\ v \in Terminal
                     THEN late \union {c} ELSE late
        /\ UNCHANGED <<charge, day>>
    BY <1>5 DEF ApplySettlement, Accepted
  <2>2. CASE v \in Terminal
    <3>1. reservation[c] \in {"active", "expired"}
      BY <2>1, <2>2 DEF SingleInv, SettlementConsistent, SettlesFrom, Terminal
    <3>2. Ledger!Settle(c, ReservationAfter(v, reservation[c]))
      BY <2>1, <2>2, <3>1 DEF Ledger!Settle
    <3>3. ReservationAfter(v, reservation[c]) \in {"consumed", "quarantined"}
      BY <2>2 DEF ReservationAfter, Terminal
    <3> QED
      BY <3>2, <3>3 DEF Ledger!Next
  <2>3. CASE v \notin Terminal
    BY <2>1, <2>3 DEF ReservationAfter, Terminal, TypeOK, Ledger!vars
  <2> QED
    BY <2>2, <2>3
<1> QED
  BY <1>1, <1>2, <1>3, <1>4, <1>5
  DEF Next, Tick, SavePolicy, SaveProviderDecision, Crash, ReplayCheck, BeginCheck,
      EvidenceFails, ReserveTooLate, SaveRaced, ReserveRefused, SaveUnpaid, BeginCancel,
      CancelRefused, MarkCancelled, BeginPoll, RejectSettlement

(* With one process the whole machine, with its requests, claims, crashes  *)
(* and polls, implements the ledger it owes the operator.                  *)
THEOREM LedgerCorrect ==
  ASSUME OneProcess
  PROVE  Spec => LedgerImplemented
<1>1. Init => Ledger!Init
  BY DEF Init, Ledger!Init
<1>2. TypeOK /\ SectionsSound /\ PollsSound /\ SingleInv /\ ClaimsGuardNonces
        /\ ReservationsOwned /\ [Next]_vars => [Ledger!Next]_(Ledger!vars)
  BY LedgerStep
<1> QED
  BY <1>1, <1>2, SingleCorrect, ClaimsCorrect, ReservationsOwnedCorrect, PTL
  DEF Spec, LedgerImplemented, Ledger!Spec

=============================================================================
