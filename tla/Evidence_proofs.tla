--------------------------- MODULE Evidence_proofs ---------------------------
(***************************************************************************)
(* What the report API finds out and decides, for any offers, any account, *)
(* any facts and a dataset of any size: where a probe sends and what it    *)
(* reports; what a PAY and an approved account rest on; that a riskier     *)
(* fact never helps; and that Merkle proofs prove records and no others.   *)
(***************************************************************************)
EXTENDS MCEvidence, NaturalsInduction, FiniteSetTheorems, SequenceTheorems, WellFoundedInduction, TLAPS

(* The probe of a resource.                                                 *)

(* The request in hand has passed the checks of its URL, and what is left   *)
(* to try has passed the check of addresses.                                *)
Checked ==
  /\ phase \in {"start", "resolve", "request", "done"}
  /\ method \in Methods /\ body \in BOOLEAN
  /\ hops \in Nat
  /\ body => method = "POST"
  /\ addresses \in Seq(Permitted)
  /\ phase \in {"resolve", "request"} => UrlFault(url) = "none" /\ reported = None
  /\ phase = "request" => addresses # <<>>
  /\ phase = "start" => reported = None /\ sent = {}

(* What was sent before this hop was sent at an earlier one.                *)
SentInOrder ==
  \A s \in sent :
    /\ s.hop \in 0..hops
    /\ phase = "resolve" => s.hop < hops
    /\ phase = "request" /\ s.hop = hops =>
         s.request = [url |-> url, method |-> method, body |-> body]

(* The hop that awaits an answer has sent its request.                      *)
SentThisHop ==
  phase = "request" =>
    \E s \in sent : s.hop = hops /\ s.request = [url |-> url, method |-> method, body |-> body]

ProbeInv ==
  /\ Checked /\ SentInOrder /\ SentThisHop
  /\ SendsOnlyWherePermitted /\ NoBodyWithGet /\ ReportsWhatItSent
-----------------------------------------------------------------------------
LEMMA InitProbeInv == Init => ProbeInv
<1> SUFFICES ASSUME Init
             PROVE  ProbeInv
  OBVIOUS
<1>1. addresses \in Seq(Permitted)
  BY EmptySeq DEF Init
<1>2. Checked
  BY <1>1 DEF Init, Checked, Methods
<1> QED
  BY <1>2 DEF Init, ProbeInv, SentInOrder, SentThisHop, SendsOnlyWherePermitted, NoBodyWithGet,
              ReportsWhatItSent

(* Sending the request in hand to addresses that were checked.              *)
LEMMA AttemptProbeInv ==
  ASSUME ProbeInv, NEW as, as \in Seq(Permitted), as # <<>>, NEW t,
         phase \in {"resolve", "request"}, Attempt(as, t),
         UNCHANGED <<request, hops, outcome, reported>>
  PROVE  ProbeInv'
<1> DEFINE s == [request |-> [url |-> url, method |-> method, body |-> body],
                 address |-> Head(as), hop |-> hops]
<1>1. /\ addresses' = as /\ phase' = "request" /\ sent' = sent \cup {s}
      /\ UNCHANGED <<url, method, body, hops, outcome, reported>>
  BY DEF Attempt, request
<1>2. Head(as) \in Permitted
  BY HeadTailProperties
<1>3. UrlFault(url) = "none" /\ reported = None
  BY DEF ProbeInv, Checked
<1>4. Checked'
  BY <1>1, <1>3 DEF ProbeInv, Checked, UrlFault
<1>5. SentInOrder'
  <2> SUFFICES ASSUME NEW x \in sent'
               PROVE  /\ x.hop \in 0..hops'
                      /\ phase' = "resolve" => x.hop < hops'
                      /\ phase' = "request" /\ x.hop = hops' =>
                           x.request = [url |-> url', method |-> method', body |-> body']
    BY DEF SentInOrder
  <2>1. CASE x = s
    BY <2>1, <1>1 DEF ProbeInv, Checked
  <2>2. CASE x \in sent
    <3>1. x.hop \in 0..hops
      BY <2>2 DEF ProbeInv, SentInOrder
    <3>2. CASE phase = "resolve"
      BY <1>1, <2>2, <3>1, <3>2 DEF ProbeInv, SentInOrder, Checked
    <3>3. CASE phase = "request"
      BY <1>1, <2>2, <3>1, <3>3 DEF ProbeInv, SentInOrder, Checked
    <3> QED
      BY <3>2, <3>3
  <2> QED
    BY <1>1, <2>1, <2>2
<1>6. SentThisHop'
  <2>1. s \in sent' /\ s.hop = hops'
    BY <1>1
  <2>2. s.request = [url |-> url', method |-> method', body |-> body']
    BY <1>1
  <2> QED
    BY <2>1, <2>2 DEF SentThisHop
<1>7. SendsOnlyWherePermitted'
  <2> SUFFICES ASSUME NEW x \in sent'
               PROVE  x.address \in Permitted /\ UrlFault(x.request.url) = "none"
    BY DEF SendsOnlyWherePermitted, UrlFault
  <2>1. CASE x = s
    <3>1. x.address = Head(as) /\ x.request.url = url
      BY <2>1
    <3> QED
      BY <3>1, <1>2, <1>3
  <2>2. CASE x \in sent
    BY <2>2 DEF ProbeInv, SendsOnlyWherePermitted
  <2> QED
    BY <1>1, <2>1, <2>2
<1>8. NoBodyWithGet'
  <2> SUFFICES ASSUME NEW x \in sent'
               PROVE  x.request.body => x.request.method = "POST"
    BY DEF NoBodyWithGet
  <2>1. CASE x = s
    <3>1. x.request.body = body /\ x.request.method = method
      BY <2>1
    <3> QED
      BY <3>1 DEF ProbeInv, Checked
  <2>2. CASE x \in sent
    BY <2>2 DEF ProbeInv, NoBodyWithGet
  <2> QED
    BY <1>1, <2>1, <2>2
<1>9. ReportsWhatItSent'
  BY <1>1, <1>3 DEF ReportsWhatItSent
<1> QED
  BY <1>4, <1>5, <1>6, <1>7, <1>8, <1>9 DEF ProbeInv

(* A probe that ends without a result.                                      *)
LEMMA EndsProbeInv ==
  ASSUME ProbeInv, NEW code, Ends(code), reported' = None
  PROVE  ProbeInv'
<1>1. /\ phase' = "done" /\ reported' = None
      /\ UNCHANGED <<url, method, body, addresses, hops, sent>>
  BY DEF Ends, request
<1>2. Checked'
  BY <1>1 DEF ProbeInv, Checked
<1>3. SentInOrder' /\ SentThisHop'
  BY <1>1 DEF ProbeInv, SentInOrder, SentThisHop
<1>4. SendsOnlyWherePermitted' /\ NoBodyWithGet'
  BY <1>1 DEF ProbeInv, SendsOnlyWherePermitted, NoBodyWithGet, UrlFault
<1>5. ReportsWhatItSent'
  BY <1>1 DEF ReportsWhatItSent
<1> QED
  BY <1>2, <1>3, <1>4, <1>5 DEF ProbeInv

LEMMA BeginProbeInv ==
  ASSUME ProbeInv, NEW u \in Urls, NEW m \in Methods, NEW b \in BOOLEAN, NEW big \in BOOLEAN,
         NEW header \in BOOLEAN, Begin(u, m, b, big, header)
  PROVE  ProbeInv'
<1>1. phase = "start" /\ reported' = reported /\ reported = None /\ sent = {}
  BY DEF Begin, ProbeInv, Checked
<1>2. CASE InputFault(u, m, b, big, header) # "none"
  BY <1>1, <1>2, EndsProbeInv DEF Begin
<1>3. CASE InputFault(u, m, b, big, header) = "none"
  <2>1. /\ url' = u /\ method' = m /\ body' = b /\ phase' = "resolve"
        /\ UNCHANGED <<addresses, hops, sent>>
    BY <1>3 DEF Begin
  <2>2. UrlFault(u) = "none" /\ (b => m = "POST")
    BY <1>3 DEF InputFault, Methods
  <2>3. Checked'
    BY <1>1, <2>1, <2>2 DEF ProbeInv, Checked, UrlFault
  <2>4. SentInOrder' /\ SentThisHop' /\ SendsOnlyWherePermitted' /\ NoBodyWithGet'
    BY <1>1, <2>1 DEF SentInOrder, SentThisHop, SendsOnlyWherePermitted, NoBodyWithGet
  <2>5. ReportsWhatItSent'
    BY <1>1 DEF ReportsWhatItSent
  <2> QED
    BY <2>3, <2>4, <2>5 DEF ProbeInv
<1> QED
  BY <1>2, <1>3

LEMMA ResolvedProbeInv ==
  ASSUME ProbeInv, NEW as \in AnswersOf(url.host), NEW t, Resolved(as, t)
  PROVE  ProbeInv'
<1>1. phase = "resolve" /\ reported' = reported /\ reported = None
  BY DEF Resolved, ProbeInv, Checked
<1>2. CASE AddressFault(as) # "none"
  BY <1>1, <1>2, EndsProbeInv DEF Resolved
<1>3. CASE AddressFault(as) = "none"
  <2>1. PICK order \in Orders(as) : Attempt([i \in 1..Len(as) |-> as[order[i]]], t)
    BY <1>3 DEF Resolved
  <2>2. UNCHANGED <<request, hops, outcome>>
    BY <1>3 DEF Resolved
  <2>3. as \in Seq(Literals)
    <3>1. CASE url.host \in Literals
      <4>1. as = <<url.host>>
        BY <3>1 DEF AnswersOf
      <4> QED
        BY <3>1, <4>1
    <3>2. CASE url.host \notin Literals
      BY <3>2, ProbeAssumption DEF AnswersOf
    <3> QED
      BY <3>1, <3>2
  <2>4. Len(as) \in 1..MaxAddresses /\ \A i \in DOMAIN as : as[i] \in Permitted
    BY <1>3 DEF AddressFault
  <2> DEFINE n == Len(as)
  <2> DEFINE tries == [i \in 1..n |-> as[order[i]]]
  <2>5. order \in [DOMAIN as -> DOMAIN as]
    BY DEF Orders
  <2>6. DOMAIN as = 1..Len(as) /\ Len(as) \in Nat
    BY <2>3, LenProperties
  <2>7. \A i \in 1..n : as[order[i]] \in Permitted
    BY <2>4, <2>5, <2>6
  <2>8. n \in Nat /\ n > 0
    <3>1. n \in 1..MaxAddresses /\ MaxAddresses \in Nat
      BY <2>4, ProbeAssumption
    <3> HIDE DEF n
    <3> QED
      BY <3>1
  <2>9. Attempt(tries, t)
    BY <2>1
  <2> HIDE DEF n
  <2>10. tries \in Seq(Permitted)
    <3> DEFINE e(i) == as[order[i]]
    <3>1. \A i \in 1..n : e(i) \in Permitted
      BY <2>7
    <3> HIDE DEF e
    <3>2. [i \in 1..n |-> e(i)] \in Seq(Permitted)
      BY <2>8, <3>1
    <3> QED
      BY <3>2 DEF e
  <2>11. Len(tries) = n
    BY <2>7, <2>8
  <2> HIDE DEF tries
  <2>12. tries # <<>>
    BY <2>8, <2>11, EmptySeq
  <2> QED
    BY <1>1, <2>2, <2>9, <2>10, <2>12, AttemptProbeInv
<1> QED
  BY <1>2, <1>3

(* The next address, or the end.                                            *)
LEMMA NextAddressProbeInv ==
  ASSUME ProbeInv, phase = "request", Len(addresses) > 1, NEW t, Attempt(Tail(addresses), t),
         UNCHANGED <<request, hops, outcome, reported>>
  PROVE  ProbeInv'
<1>1. addresses \in Seq(Permitted) /\ addresses # <<>>
  BY DEF ProbeInv, Checked
<1>2. Tail(addresses) \in Seq(Permitted) /\ Len(Tail(addresses)) = Len(addresses) - 1
  BY <1>1, HeadTailProperties
<1>3. Len(addresses) \in Nat
  BY <1>1, LenProperties
<1>4. Tail(addresses) # <<>>
  BY <1>2, <1>3, EmptySeq
<1>5. phase \in {"resolve", "request"}
  OBVIOUS
<1> DEFINE rest == Tail(addresses)
<1>6. rest \in Seq(Permitted) /\ rest # <<>> /\ Attempt(rest, t)
  BY <1>2, <1>4
<1> HIDE DEF rest
<1> QED
  BY <1>5, <1>6, AttemptProbeInv

LEMMA WithoutResultProbeInv ==
  ASSUME ProbeInv, NEW t,
         GivenUp \/ LookupFails(t) \/ \E retryable \in BOOLEAN : AttemptFails(retryable, t)
  PROVE  ProbeInv'
<1>1. CASE GivenUp
  <2>1. reported' = None
    BY <1>1 DEF GivenUp, ProbeInv, Checked
  <2>2. CASE phase = "request" /\ Len(addresses) > 1
    BY <1>1, <2>2, NextAddressProbeInv DEF GivenUp
  <2>3. CASE ~(phase = "request" /\ Len(addresses) > 1)
    BY <1>1, <2>1, <2>3, EndsProbeInv DEF GivenUp
  <2> QED
    BY <2>2, <2>3
<1>2. CASE LookupFails(t)
  <2>1. reported' = None /\ Ends("probe_dns_failed")
    BY <1>2 DEF LookupFails, ProbeInv, Checked
  <2> QED
    BY <2>1, EndsProbeInv
<1>3. ASSUME NEW retryable \in BOOLEAN, AttemptFails(retryable, t)
      PROVE  ProbeInv'
  <2>1. reported' = None /\ phase = "request"
    BY <1>3 DEF AttemptFails, ProbeInv, Checked
  <2>2. CASE retryable /\ Len(addresses) > 1
    BY <1>3, <2>1, <2>2, NextAddressProbeInv DEF AttemptFails
  <2>3. CASE ~(retryable /\ Len(addresses) > 1)
    BY <1>3, <2>1, <2>3, EndsProbeInv DEF AttemptFails
  <2> QED
    BY <2>2, <2>3
<1> QED
  BY <1>1, <1>2, <1>3

LEMMA RedirectedProbeInv ==
  ASSUME ProbeInv, NEW status \in Redirects, NEW u \in Urls \cup {None}, NEW t,
         Redirected(status, u, t)
  PROVE  ProbeInv'
<1> DEFINE fault == IF u = None THEN "probe_redirect_invalid"
                    ELSE IF TooMany THEN "probe_redirect_limit" ELSE UrlFault(u)
<1>1. phase = "request" /\ reported' = reported /\ reported = None /\ hops \in Nat
  BY DEF Redirected, ProbeInv, Checked
<1>2. CASE fault # "none"
  BY <1>1, <1>2, EndsProbeInv DEF Redirected
<1>3. CASE fault = "none"
  <2>1. /\ NextRequest(status, u) /\ hops' = hops + 1 /\ phase' = "resolve"
        /\ addresses' = <<>> /\ sent' = sent
    BY <1>3 DEF Redirected
  <2>2. url' = u /\ UrlFault(u) = "none"
    BY <1>3, <2>1 DEF NextRequest
  <2>3. method' \in Methods /\ body' \in BOOLEAN /\ (body' => method' = "POST")
    BY <2>1 DEF NextRequest, ProbeInv, Checked, Methods
  <2>4. Checked'
    BY <1>1, <2>1, <2>2, <2>3 DEF Checked, UrlFault
  <2>5. SentInOrder'
    BY <1>1, <2>1 DEF ProbeInv, SentInOrder
  <2>6. SentThisHop' /\ SendsOnlyWherePermitted' /\ NoBodyWithGet' /\ ReportsWhatItSent'
    BY <1>1, <2>1 DEF ProbeInv, SentThisHop, SendsOnlyWherePermitted, NoBodyWithGet,
                      ReportsWhatItSent, UrlFault
  <2> QED
    BY <2>4, <2>5, <2>6 DEF ProbeInv
<1> QED
  BY <1>2, <1>3

LEMMA AnsweredProbeInv ==
  ASSUME ProbeInv, NEW code, NEW t, Answered(code, t)
  PROVE  ProbeInv'
<1>1. /\ phase = "request" /\ phase' = "done"
      /\ UNCHANGED <<url, method, body, addresses, hops, sent>>
      /\ reported' \in {None, [url |-> url, method |-> method, body |-> body]}
  BY DEF Answered, Ends, request
<1>2. Checked'
  BY <1>1 DEF ProbeInv, Checked
<1>3. SentInOrder' /\ SentThisHop'
  BY <1>1 DEF ProbeInv, SentInOrder, SentThisHop
<1>4. SendsOnlyWherePermitted' /\ NoBodyWithGet'
  BY <1>1 DEF ProbeInv, SendsOnlyWherePermitted, NoBodyWithGet, UrlFault
<1>5. ReportsWhatItSent'
  BY <1>1 DEF ProbeInv, ReportsWhatItSent, SentInOrder, SentThisHop
<1> QED
  BY <1>2, <1>3, <1>4, <1>5 DEF ProbeInv

LEMMA NextProbeInv == ProbeInv /\ [Next]_vars => ProbeInv'
<1> SUFFICES ASSUME ProbeInv, [Next]_vars
             PROVE  ProbeInv'
  OBVIOUS
<1>1. ASSUME NEW u \in Urls, NEW m \in Methods, NEW b \in BOOLEAN, NEW big \in BOOLEAN,
             NEW header \in BOOLEAN, Begin(u, m, b, big, header)
      PROVE  ProbeInv'
  BY <1>1, BeginProbeInv
<1>2. CASE Waits
  <2>1. CASE GivenUp
    BY <2>1, WithoutResultProbeInv
  <2>2. ASSUME NEW t \in Times, NEW as \in AnswersOf(url.host), Resolved(as, t)
        PROVE  ProbeInv'
    BY <2>2, ResolvedProbeInv
  <2>3. ASSUME NEW t \in Times,
               LookupFails(t) \/ \E retryable \in BOOLEAN : AttemptFails(retryable, t)
        PROVE  ProbeInv'
    BY <2>3, WithoutResultProbeInv
  <2>4. ASSUME NEW t \in Times, NEW status \in Redirects, NEW u \in Urls \cup {None},
               Redirected(status, u, t)
        PROVE  ProbeInv'
    BY <2>4, RedirectedProbeInv
  <2>5. ASSUME NEW t \in Times, NEW code \in Faults \cup Results, Answered(code, t)
        PROVE  ProbeInv'
    BY <2>5, AnsweredProbeInv
  <2> QED
    BY <1>2, <2>1, <2>2, <2>3, <2>4, <2>5 DEF Waits
<1>3. CASE UNCHANGED vars
  BY <1>3 DEF vars, request, ProbeInv, Checked, SentInOrder, SentThisHop, SendsOnlyWherePermitted,
              NoBodyWithGet, ReportsWhatItSent, UrlFault
<1> QED
  BY <1>1, <1>2, <1>3 DEF Next

(* Whatever name servers and redirects say, a request goes only where the   *)
(* checks of addresses and URLs let it.                                     *)
THEOREM OnlyWherePermitted == Spec => []SendsOnlyWherePermitted
<1>1. ProbeInv => SendsOnlyWherePermitted
  BY DEF ProbeInv
<1> QED
  BY <1>1, InitProbeInv, NextProbeInv, PTL DEF Spec

(* Along any chain of redirects a GET has no body, and the result is about  *)
(* the request that was answered.                                           *)
THEOREM ResultIsOfTheRequest == Spec => [](NoBodyWithGet /\ ReportsWhatItSent)
<1>1. ProbeInv => NoBodyWithGet /\ ReportsWhatItSent
  BY DEF ProbeInv
<1> QED
  BY <1>1, InitProbeInv, NextProbeInv, PTL DEF Spec

-----------------------------------------------------------------------------
(* The evaluation of a payment on chain evidence.                           *)

(* The calls, in their order. *)
EvidenceCalls == {"package", "contract", "name", "symbol", "decimals", "flag"}

LEMMA CallsInOrder ==
  /\ {Evaluation!Calls[k] : k \in 1..Len(Evaluation!Calls)} = EvidenceCalls
  /\ Evaluation!Following("name") = "symbol"
  /\ Evaluation!Following("symbol") = "decimals"
  /\ Evaluation!Following("decimals") = "flag"
<1>1. Len(Evaluation!Calls) = 6
  BY DEF Evaluation!Calls
<1>2. /\ Evaluation!Calls[1] = "package" /\ Evaluation!Calls[2] = "contract" /\ Evaluation!Calls[3] = "name"
      /\ Evaluation!Calls[4] = "symbol" /\ Evaluation!Calls[5] = "decimals" /\ Evaluation!Calls[6] = "flag"
  BY DEF Evaluation!Calls
<1>3. \A k \in 1..6 : k = 1 \/ k = 2 \/ k = 3 \/ k = 4 \/ k = 5 \/ k = 6
  OBVIOUS
<1>4. {Evaluation!Calls[k] : k \in 1..Len(Evaluation!Calls)} = EvidenceCalls
  <2>1. \A k \in 1..6 : Evaluation!Calls[k] \in EvidenceCalls
    BY <1>2, <1>3 DEF EvidenceCalls
  <2>2. \A s \in EvidenceCalls : \E k \in 1..6 : Evaluation!Calls[k] = s
    <3>1. 1 \in 1..6 /\ 2 \in 1..6 /\ 3 \in 1..6 /\ 4 \in 1..6 /\ 5 \in 1..6 /\ 6 \in 1..6
      OBVIOUS
    <3> QED BY <1>2, <3>1 DEF EvidenceCalls
  <2> QED BY <1>1, <2>1, <2>2
<1>5. ASSUME NEW n \in 3..5
      PROVE  Evaluation!Following(Evaluation!Calls[n]) = Evaluation!Calls[n + 1]
  <2>1. \A k \in 1..6 : Evaluation!Calls[k] = Evaluation!Calls[n] => k = n
    BY <1>2, <1>3
  <2>2. (CHOOSE k \in 1..Len(Evaluation!Calls) : Evaluation!Calls[k] = Evaluation!Calls[n]) = n
    BY <1>1, <2>1
  <2>3. n # Len(Evaluation!Calls)
    BY <1>1
  <2> QED BY <2>2, <2>3, Zenon DEF Evaluation!Following
<1> QED BY <1>2, <1>4, <1>5

(* Evidence that lacks nothing comes from calls that all succeeded, but for *)
(* the flag, about an asset that answered each of them as it should.       *)
Gathered ==
  /\ DOMAIN evidence = {"package", "active", "entrypoint", "name", "decimals", "mint", "flag", "missing", "at"}
  /\ evidence.at \in Int
  /\ evidence.decimals \in {in.decimals, None}
  /\ evidence.missing = {} =>
       /\ faults \subseteq {"flag"}
       /\ evaluation # "package" => in.package = "ok"
       /\ evaluation \notin {"package", "contract"} => in.contract = "ok" /\ Evaluation!Authorizes(in)
       /\ evaluation \notin {"package", "contract", "name"} =>
            "name" \notin in.noKey /\ evidence.name = "token"
       /\ evaluation \notin {"package", "contract", "name", "symbol"} => "symbol" \notin in.noKey
       /\ evaluation \notin {"package", "contract", "name", "symbol", "decimals"} =>
            "decimals" \notin in.noKey

DecisionsRest ==
  /\ in \in Offers /\ clock \in Int
  /\ evaluation \in {"normalize", "decide", "settle", "end"} \cup EvidenceCalls
  /\ evaluation = "normalize" => faults = {}
  /\ evaluation \in {"decide"} \cup EvidenceCalls => Gathered
  /\ evaluation \notin {"settle", "end"} => decision = None
  /\ Evaluation!PayRestsOnTheChain

LEMMA DecisionsStart == Evaluation!Init => DecisionsRest
BY DEF Evaluation!Init, DecisionsRest, Evaluation!PayRestsOnTheChain, Evaluation!Paid, EvidenceCalls

LEMMA LackAdds ==
  ASSUME NEW e, NEW items, DOMAIN e = {"package", "active", "entrypoint", "name", "decimals", "mint", "flag", "missing", "at"}
  PROVE  /\ DOMAIN Evaluation!Lack(e, items) = DOMAIN e
         /\ Evaluation!Lack(e, items).missing = e.missing \cup items
         /\ \A f \in DOMAIN e : f # "missing" => Evaluation!Lack(e, items)[f] = e[f]
         /\ Evaluation!Lack(e, items).at = e.at
         /\ Evaluation!Lack(e, items).name = e.name
         /\ Evaluation!Lack(e, items).decimals = e.decimals
BY DEF Evaluation!Lack

(* Nothing to object to: the verdict that pays.                            *)
LEMMA PayMeansNoReason ==
  ASSUME Evaluation!EvaluationAssumption, in \in Offers, Gathered, evaluation = "decide", clock \in Int,
         Evaluation!Worst(Evaluation!Reasons(in, evidence, clock)) = "pay"
  PROVE  /\ in.package = "ok" /\ in.contract = "ok" /\ Evaluation!Authorizes(in)
         /\ in.noKey = {} /\ in.declaredName = "token"
         /\ in.declaredDecimals \in {None, in.decimals}
         /\ faults \subseteq {"flag"}
         /\ clock - evidence.at <= in.maxAge
         /\ in.after <= clock /\ clock < in.before
<1>1. Evaluation!Reasons(in, evidence, clock) = {}
  BY DEF Evaluation!Worst
<1>2. /\ Evaluation!EvidenceReasons(in, evidence, clock) = {}
      /\ Evaluation!PolicyReasons(in, clock) = {}
      /\ Evaluation!AuthorizationReasons(in, clock) = {}
  BY <1>1 DEF Evaluation!Reasons
<1>3. /\ ~ (in.declaredDecimals # None /\ evidence.decimals # None /\ in.declaredDecimals # evidence.decimals)
      /\ ~ (evidence.name # None /\ in.declaredName # evidence.name)
      /\ evidence.decimals # None /\ evidence.missing = {}
      /\ ~ Evaluation!StaleAt(in, evidence, clock)
  BY <1>2 DEF Evaluation!EvidenceReasons, Evaluation!Reason
<1>4. in.policy
  BY <1>2 DEF Evaluation!PolicyReasons, Evaluation!Reason
<1>5. ~ in.after > clock /\ ~ in.before <= clock
  BY <1>2 DEF Evaluation!AuthorizationReasons, Evaluation!Reason
<1>6. in.maxAge \in Nat /\ in.after \in Nat /\ in.before \in Nat /\ None # "token"
      /\ in.noKey \subseteq {"name", "symbol", "decimals"}
  BY DEF Evaluation!EvaluationAssumption
<1>7. ~ clock - evidence.at > in.maxAge
  BY <1>3, <1>4 DEF Evaluation!StaleAt
<1>8. clock - evidence.at <= in.maxAge /\ in.after <= clock /\ clock < in.before
  BY <1>5, <1>6, <1>7 DEF Gathered
<1>9. /\ faults \subseteq {"flag"} /\ in.package = "ok" /\ in.contract = "ok" /\ Evaluation!Authorizes(in)
      /\ evidence.name = "token" /\ evidence.decimals = in.decimals
      /\ "name" \notin in.noKey /\ "symbol" \notin in.noKey /\ "decimals" \notin in.noKey
  BY <1>3 DEF Gathered
<1> QED BY <1>3, <1>6, <1>8, <1>9

LEMMA DecisionsStep ==
  ASSUME Evaluation!EvaluationAssumption, DecisionsRest, [Evaluation!Next]_(Evaluation!vars)
  PROVE  DecisionsRest'
<1> USE DEF EvidenceCalls
<1>0. in \in Offers /\ clock \in Int
  BY DEF DecisionsRest
<1>1. CASE Evaluation!Normalize
  <2>1. CASE evaluation' = "package" /\ evidence' = Evaluation!NoEvidence(clock)
    <3>1. Gathered'
      BY <1>1, <2>1, <1>0 DEF Gathered, Evaluation!Normalize, Evaluation!NoEvidence, DecisionsRest
    <3> QED BY <1>1, <2>1, <3>1 DEF Evaluation!Normalize, DecisionsRest, Evaluation!PayRestsOnTheChain, Evaluation!Paid
  <2>2. CASE evaluation' = "end" /\ UNCHANGED evidence
    BY <1>1, <2>2 DEF Evaluation!Normalize, DecisionsRest, Evaluation!PayRestsOnTheChain, Evaluation!Paid
  <2> QED BY <1>1, <2>1, <2>2 DEF Evaluation!Normalize
<1>2. ASSUME evaluation \in EvidenceCalls, Gathered', evaluation' \in {"decide"} \cup EvidenceCalls,
             UNCHANGED <<in, clock, decision>>
      PROVE  DecisionsRest'
  BY <1>2 DEF DecisionsRest, Evaluation!PayRestsOnTheChain, Evaluation!Paid
<1>3. CASE Evaluation!PackageAnswer
  <2> USE <1>3 DEF Evaluation!PackageAnswer
  <2>0. evaluation = "package" /\ Gathered /\ in.package \in {"ok", "gone", "notPackage", "noVersion"}
    BY <1>0 DEF DecisionsRest, Evaluation!EvaluationAssumption
  <2>1. CASE in.package \in {"gone", "notPackage"}
    <3> DEFINE gone == [evidence EXCEPT !.package = FALSE, !.entrypoint = FALSE]
    <3>1. evidence' = Evaluation!Lack(gone, Evaluation!AfterPackage \cup {"package"}) /\ evaluation' = "decide"
      BY <2>1 DEF Evaluation!StopWith
    <3>2. gone.at = evidence.at /\ gone.decimals = evidence.decimals /\ DOMAIN gone = DOMAIN evidence
      BY <2>0 DEF Gathered
    <3> HIDE DEF gone
    <3>3. Gathered'
      BY <2>0, <3>1, <3>2, LackAdds DEF Gathered
    <3> QED BY <1>2, <2>0, <3>1, <3>3
  <2>2. CASE in.package = "noVersion"
    <3> DEFINE found1 == [evidence EXCEPT !.package = TRUE]
               found2 == [found1 EXCEPT !.entrypoint = FALSE]
    <3>1. evidence' = Evaluation!Lack(found2, Evaluation!AfterPackage) /\ evaluation' = "decide"
      BY <2>2 DEF Evaluation!StopWith
    <3>2. found2.at = evidence.at /\ found2.decimals = evidence.decimals /\ DOMAIN found2 = DOMAIN evidence
      BY <2>0 DEF Gathered
    <3> HIDE DEF found1, found2
    <3>3. "activeContract" \in Evaluation!AfterPackage
      BY DEF Evaluation!AfterPackage, Evaluation!Mandatory
    <3>4. Gathered'
      BY <2>0, <3>1, <3>2, <3>3, LackAdds DEF Gathered
    <3> QED BY <1>2, <2>0, <3>1, <3>4
  <2>3. CASE in.package = "ok"
    <3>1. evidence' = [[evidence EXCEPT !.package = TRUE] EXCEPT !.active = TRUE] /\ evaluation' = "contract"
      BY <2>3
    <3>2. Gathered'
      BY <2>0, <2>3, <3>1 DEF Gathered
    <3> QED BY <1>2, <2>0, <3>1, <3>2
  <2> QED BY <2>0, <2>1, <2>2, <2>3
<1>4. CASE Evaluation!ContractAnswer
  <2> USE <1>4 DEF Evaluation!ContractAnswer
  <2>0. evaluation = "contract" /\ Gathered
    BY DEF DecisionsRest
  <2>1. CASE in.contract # "ok"
    <3> DEFINE other == [evidence EXCEPT !.entrypoint = FALSE]
    <3>1. evidence' = Evaluation!Lack(other, Evaluation!AfterContract) /\ evaluation' = "decide"
      BY <2>1 DEF Evaluation!StopWith
    <3>2. other.at = evidence.at /\ other.decimals = evidence.decimals /\ DOMAIN other = DOMAIN evidence
      BY <2>0 DEF Gathered
    <3> HIDE DEF other
    <3>3. "entrypoint" \in Evaluation!AfterContract
      BY DEF Evaluation!AfterContract, Evaluation!AfterPackage, Evaluation!Mandatory
    <3>4. Gathered'
      BY <2>0, <3>1, <3>2, <3>3, LackAdds DEF Gathered
    <3> QED BY <1>2, <2>0, <3>1, <3>4
  <2>2. CASE in.contract = "ok"
    <3> DEFINE read == [evidence EXCEPT !.entrypoint = Evaluation!Authorizes(in), !.mint = Evaluation!Mintable(in)]
               items == IF Evaluation!Authorizes(in) THEN {} ELSE {"entrypoint"}
    <3>1. evidence' = Evaluation!Lack(read, items) /\ evaluation' = "name"
      BY <2>2
    <3>2. read.at = evidence.at /\ read.decimals = evidence.decimals /\ DOMAIN read = DOMAIN evidence
          /\ read.missing = evidence.missing
      BY <2>0 DEF Gathered
    <3>3. items = {} => Evaluation!Authorizes(in)
      OBVIOUS
    <3> HIDE DEF read, items
    <3>4. Gathered'
      BY <2>0, <2>2, <3>1, <3>2, <3>3, LackAdds DEF Gathered
    <3> QED BY <1>2, <2>0, <3>1, <3>4
  <2> QED BY <2>1, <2>2
<1>5. CASE Evaluation!MetadataAnswer
  <2> USE <1>5 DEF Evaluation!MetadataAnswer
  <2>0. evaluation \in {"name", "symbol", "decimals"} /\ Gathered
    BY DEF DecisionsRest
  <2>1. evaluation' = Evaluation!Following(evaluation)
        /\ (evaluation = "name" => evaluation' = "symbol")
        /\ (evaluation = "symbol" => evaluation' = "decimals")
        /\ (evaluation = "decimals" => evaluation' = "flag")
    BY <2>0, CallsInOrder
  <2>2. CASE evaluation \in in.noKey
    <3>1. evidence' = Evaluation!Lack(evidence, {evaluation})
      BY <2>2
    <3>2. Gathered'
      BY <2>0, <2>1, <3>1, LackAdds DEF Gathered
    <3> QED BY <1>2, <2>0, <2>1, <3>2
  <2>3. CASE evaluation \notin in.noKey /\ evaluation = "name"
    <3>1. evidence' = [evidence EXCEPT !.name = "token"]
      BY <2>3
    <3>2. Gathered'
      BY <2>0, <2>1, <2>3, <3>1 DEF Gathered
    <3> QED BY <1>2, <2>0, <2>1, <3>2
  <2>4. CASE evaluation \notin in.noKey /\ evaluation = "decimals"
    <3>1. evidence' = [evidence EXCEPT !.decimals = in.decimals]
      BY <2>4
    <3>2. Gathered'
      BY <2>0, <2>1, <2>4, <3>1 DEF Gathered
    <3> QED BY <1>2, <2>0, <2>1, <3>2
  <2>5. CASE evaluation \notin in.noKey /\ evaluation = "symbol"
    <3>1. evidence' = evidence
      BY <2>5
    <3>2. Gathered'
      BY <2>0, <2>1, <2>5, <3>1 DEF Gathered
    <3> QED BY <1>2, <2>0, <2>1, <3>2
  <2> QED BY <2>0, <2>2, <2>3, <2>4, <2>5
<1>6. CASE Evaluation!FlagAnswer
  <2> DEFINE flagged == [evidence EXCEPT !.flag = in.flag]
  <2>0. evaluation = "flag" /\ Gathered /\ evaluation' = "decide"
    BY <1>6 DEF DecisionsRest, Evaluation!FlagAnswer
  <2>1. flagged.at = evidence.at /\ flagged.decimals = evidence.decimals /\ DOMAIN flagged = DOMAIN evidence
        /\ flagged.missing = evidence.missing /\ flagged.name = evidence.name
    BY <2>0 DEF Gathered
  <2>2. evidence' = flagged \/ evidence' = Evaluation!Lack(flagged, {"supplyControl"})
    BY <1>6 DEF Evaluation!FlagAnswer
  <2> HIDE DEF flagged
  <2>3. Gathered'
    BY <1>6, <2>0, <2>1, <2>2, LackAdds DEF Gathered, Evaluation!FlagAnswer
  <2> QED BY <1>2, <1>6, <2>0, <2>3 DEF Evaluation!FlagAnswer
<1>7. CASE Evaluation!CallFails
  <2> USE <1>7 DEF Evaluation!CallFails
  <2>0. evaluation \in EvidenceCalls /\ Gathered /\ faults' = faults \cup {evaluation}
        /\ UNCHANGED <<in, clock, decision>>
    BY CallsInOrder DEF DecisionsRest
  <2>1. CASE evaluation = "flag"
    <3>1. evaluation' = "decide" /\ (evidence' = evidence \/ evidence' = Evaluation!Lack(evidence, {"supplyControl"}))
      BY <2>1
    <3>2. Gathered'
      BY <2>0, <2>1, <3>1, LackAdds DEF Gathered
    <3> QED BY <1>2, <2>0, <3>1, <3>2
  <2>2. CASE evaluation # "flag"
    <3>1. evaluation' \in {"decide"} \cup EvidenceCalls
          /\ \E items : items # {} /\ evidence' = Evaluation!Lack(evidence, items)
      <4>1. CASE evaluation = "package"
        BY <2>2, <4>1, "package" \in Evaluation!AfterPackage \cup {"package"}
        DEF Evaluation!StopWith, Evaluation!Unreached
      <4>2. CASE evaluation = "contract"
        <5>1. "entrypoint" \in Evaluation!AfterContract
          BY DEF Evaluation!AfterContract, Evaluation!AfterPackage, Evaluation!Mandatory
        <5> QED BY <2>2, <4>2, <5>1 DEF Evaluation!StopWith
      <4>3. CASE evaluation \in {"name", "symbol", "decimals"}
        BY <2>2, <4>3, CallsInOrder
      <4> QED BY <2>0, <2>2, <4>1, <4>2, <4>3
    <3>2. Gathered'
      BY <2>0, <3>1, LackAdds DEF Gathered
    <3> QED BY <1>2, <2>0, <3>1, <3>2
  <2> QED BY <2>1, <2>2
<1>8. CASE Evaluation!Tick
  BY <1>8 DEF Evaluation!Tick, DecisionsRest, Gathered, Evaluation!PayRestsOnTheChain, Evaluation!Paid
<1>9. CASE Evaluation!UnreadableNonce
  BY <1>9 DEF Evaluation!UnreadableNonce, DecisionsRest, Evaluation!PayRestsOnTheChain, Evaluation!Paid
<1>10. CASE Evaluation!Decide
  <2>0. evaluation = "decide" /\ Gathered /\ UNCHANGED <<in, clock, evidence, faults>>
        /\ evaluation' \in {"settle", "end"}
        /\ decision' = [verdict |-> Evaluation!Worst(Evaluation!Reasons(in, evidence, clock)), at |-> clock]
    BY <1>10 DEF Evaluation!Decide, DecisionsRest
  <2>1. decision'.verdict = Evaluation!Worst(Evaluation!Reasons(in, evidence, clock)) /\ decision'.at = clock
    BY <2>0
  <2>2. Evaluation!PayRestsOnTheChain'
    BY <1>0, <2>0, <2>1, PayMeansNoReason DEF Evaluation!PayRestsOnTheChain, Evaluation!Paid, Evaluation!Authorizes
  <2> QED BY <1>0, <2>0, <2>2 DEF DecisionsRest
<1>11. CASE Evaluation!BuildReceipt
  BY <1>11 DEF Evaluation!BuildReceipt, DecisionsRest, Evaluation!PayRestsOnTheChain, Evaluation!Paid
<1>12. CASE UNCHANGED Evaluation!vars \/ Evaluation!Done
  BY <1>12 DEF Evaluation!Done, Evaluation!vars, DecisionsRest, Gathered, Evaluation!PayRestsOnTheChain, Evaluation!Paid
<1> QED
  BY <1>1, <1>3, <1>4, <1>5, <1>6, <1>7, <1>8, <1>9, <1>10, <1>11, <1>12 DEF Evaluation!Next

-----------------------------------------------------------------------------
(* The evidence about an account.                                           *)

(* What an entity says of an account, but for the balance.                 *)
Describes(f, a) ==
  /\ DOMAIN f = {"exists", "balanceMotes", "associatedKeyCount", "deploymentThreshold",
                 "keyManagementThreshold", "ageBlocks"}
  /\ f.exists = TRUE
  /\ f.associatedKeyCount \in {Null, a.keys}
  /\ f.keyManagementThreshold \in {Null, a.threshold}

(* Facts that a lookup read were true while it ran; what it did not read is *)
(* not known.                                                              *)
FactsWereSeen ==
  /\ seen \subseteq Lookup!Accounts \cup {Lookup!Absent} /\ IsFiniteSet(seen)
  /\ account \in Lookup!Accounts \cup {Lookup!Absent}
  /\ lookup \in Lookup!Steps
  /\ lookup \in {"entity", "balance"} => account \in seen
  /\ lookup \in {"idle", "entity"} => found = Lookup!Nothing
  /\ lookup = "balance" =>
       /\ account # Lookup!Absent /\ found.balanceMotes = Null
       /\ \E a \in seen : a # Lookup!Absent /\ Describes(found, a)
  /\ lookup = "done" =>
       \/ found = Lookup!Nothing
       \/ found = Lookup!NotFound
       \/ \E a, b \in seen :
            /\ a # Lookup!Absent /\ b # Lookup!Absent
            /\ Describes(found, a) /\ found.balanceMotes \in {Null, b.balance}

(* Reading an entity finds no balance.                                     *)
LEMMA NormalizedDescribes ==
  ASSUME NEW a
  PROVE  Describes(Lookup!Normalized(a), a) /\ Lookup!Normalized(a).balanceMotes = Null
<1>1. CASE a.shape = "Package"
  BY <1>1 DEF Lookup!Normalized, Lookup!Nothing, Describes
<1>2. CASE a.shape # "Package"
  BY <1>2 DEF Lookup!Normalized, Lookup!Nothing, Describes
<1> QED BY <1>1, <1>2

LEMMA LookupInit == Lookup!Init => FactsWereSeen
<1> SUFFICES ASSUME Lookup!Init PROVE FactsWereSeen
  OBVIOUS
<1>1. IsFiniteSet({})
  BY FS_EmptySet
<1> QED BY <1>1 DEF Lookup!Init, FactsWereSeen, Lookup!Steps

LEMMA LookupStep ==
  ASSUME FactsWereSeen, [Lookup!Next]_(Lookup!vars)
  PROVE  FactsWereSeen'
<1>1. CASE Lookup!buildAccountEvidence
  <2>1. IsFiniteSet({account})
    BY FS_Singleton
  <2> QED BY <1>1, <2>1 DEF Lookup!buildAccountEvidence, FactsWereSeen, Lookup!Steps
<1>2. CASE Lookup!EntityRead
  <2>1. account \in seen /\ account # Lookup!Absent /\ found' = Lookup!Normalized(account)
        /\ seen' = seen /\ account' = account
    BY <1>2 DEF Lookup!EntityRead, FactsWereSeen
  <2>2. Describes(found', account) /\ found'.balanceMotes = Null
    BY <2>1, NormalizedDescribes
  <2> QED BY <1>2, <2>1, <2>2 DEF Lookup!EntityRead, FactsWereSeen, Lookup!Steps
<1>3. CASE Lookup!EntityNotFound
  BY <1>3 DEF Lookup!EntityNotFound, FactsWereSeen, Lookup!Steps
<1>4. CASE Lookup!EntityRefused
  BY <1>4 DEF Lookup!EntityRefused, Lookup!Unread, FactsWereSeen, Lookup!Steps
<1>5. CASE Lookup!BalanceRead
  <2>1. PICK a \in seen : a # Lookup!Absent /\ Describes(found, a)
    BY <1>5 DEF Lookup!BalanceRead, FactsWereSeen
  <2>2. /\ Describes(found', a) /\ found'.balanceMotes = account.balance
        /\ account \in seen /\ account # Lookup!Absent
        /\ seen' = seen /\ account' = account /\ lookup' = "done"
    BY <1>5, <2>1 DEF Lookup!BalanceRead, FactsWereSeen, Describes
  <2> QED BY <1>5, <2>1, <2>2 DEF FactsWereSeen, Lookup!Steps
<1>6. ASSUME lookup = "balance", found' = found, lookup' = "done", UNCHANGED <<account, seen>>
      PROVE  FactsWereSeen'
  <2>1. PICK a \in seen : a # Lookup!Absent /\ Describes(found, a)
    BY <1>6 DEF FactsWereSeen
  <2> QED BY <1>6, <2>1 DEF FactsWereSeen, Lookup!Steps
<1>7. CASE Lookup!BalanceRefused
  BY <1>6, <1>7 DEF Lookup!BalanceRefused, Lookup!WithoutBalance
<1>8. CASE Lookup!Retry
  BY <1>8 DEF Lookup!Retry, FactsWereSeen, Lookup!Steps
<1>9. CASE Lookup!GiveUp
  <2>1. CASE lookup = "entity"
    BY <1>9, <2>1 DEF Lookup!GiveUp, Lookup!Unread, FactsWereSeen, Lookup!Steps
  <2>2. CASE lookup = "balance"
    BY <1>6, <1>9, <2>2 DEF Lookup!GiveUp, Lookup!WithoutBalance
  <2> QED BY <1>9, <2>1, <2>2 DEF Lookup!GiveUp
<1>10. CASE Lookup!Change
  <2>1. account' \in Lookup!Accounts /\ seen' \in {seen, seen \cup {account'}} /\ found' = found /\ lookup' = lookup
        /\ (lookup \in {"entity", "balance"} => account' \in seen')
    BY <1>10 DEF Lookup!Change
  <2>2. IsFiniteSet(seen')
    <3>1. IsFiniteSet(seen) /\ IsFiniteSet({account'})
      BY FS_Singleton DEF FactsWereSeen
    <3>2. IsFiniteSet(seen \cup {account'})
      BY <3>1, FS_Union
    <3> QED BY <2>1, <3>1, <3>2
  <2>3. account' # Lookup!Absent
    BY <2>1 DEF Lookup!Accounts, Lookup!Shapes, Lookup!Absent
  <2> QED BY <2>1, <2>2, <2>3 DEF FactsWereSeen, Lookup!Steps
<1>11. CASE UNCHANGED Lookup!vars
  BY <1>11 DEF Lookup!vars, FactsWereSeen
<1> QED
  BY <1>1, <1>2, <1>3, <1>4, <1>5, <1>7, <1>8, <1>9, <1>10, <1>11 DEF Lookup!Next, Lookup!Lookup

(* An approved account has each fact its rules ask for.                    *)
LEMMA ApprovedIsKnown ==
  ASSUME Lookup!AccountEvidenceAssumption, Lookup!Rules!Decision(Lookup!Rules!Signals) = "approved",
         DOMAIN found = {"exists", "balanceMotes", "associatedKeyCount", "deploymentThreshold",
                         "keyManagementThreshold", "ageBlocks"}
  PROVE  /\ found.exists \notin {FALSE, Null}
         /\ found.balanceMotes # Null /\ ~ found.balanceMotes < DustMotes
         /\ found.associatedKeyCount # Null /\ found.keyManagementThreshold # Null
         /\ found.associatedKeyCount > 1 => ~ found.keyManagementThreshold <= 1
<1> DEFINE s == Lookup!Rules!Signals
<1>1. /\ s.exists = IF found.exists = Junk THEN Null ELSE found.exists
      /\ s.balanceMotes = IF found.balanceMotes = Junk THEN Null ELSE found.balanceMotes
      /\ s.associatedKeyCount = IF found.associatedKeyCount = Junk THEN Null ELSE found.associatedKeyCount
      /\ s.keyManagementThreshold = IF found.keyManagementThreshold = Junk THEN Null ELSE found.keyManagementThreshold
  BY DEF Lookup!Rules!Signals
<1> HIDE DEF s
<1>2. /\ Lookup!Rules!AccountDangers(s) = {} /\ Lookup!Rules!AccountCautions(s) = {}
      /\ Lookup!Rules!AccountNotChecked(s) = {}
  BY DEF Lookup!Rules!Decision, Lookup!Rules!Dangers, Lookup!Rules!Cautions, Lookup!Rules!NotChecked, s
<1>3. s.exists # FALSE
  BY <1>2 DEF Lookup!Rules!AccountDangers, Lookup!Rules!When
<1>4. s.exists # Null /\ s.balanceMotes # Null /\ s.associatedKeyCount # Null /\ s.keyManagementThreshold # Null
  BY <1>2 DEF Lookup!Rules!AccountNotChecked
<1>5. ~ s.balanceMotes < DustMotes /\ (s.associatedKeyCount > 1 => ~ s.keyManagementThreshold <= 1)
  BY <1>2, <1>4 DEF Lookup!Rules!AccountCautions, Lookup!Rules!When, Lookup!Rules!Known, Lookup!Rules!ManyKeys
<1> QED BY <1>1, <1>3, <1>4, <1>5

LEMMA NoFalseClearHolds ==
  ASSUME Lookup!AccountEvidenceAssumption, FactsWereSeen
  PROVE  Lookup!NoFalseClear
<1> SUFFICES ASSUME lookup = "done", Lookup!Rules!Decision(Lookup!Rules!Signals) = "approved"
             PROVE  /\ Lookup!Absent \notin seen \/ Lookup!Cardinality(seen) > 1
                    /\ \E a \in seen : a # Lookup!Absent /\ a.balance >= DustMotes
                    /\ \E a \in seen : a # Lookup!Absent /\ (a.keys = 1 \/ a.threshold > 1)
  BY DEF Lookup!NoFalseClear
<1>0. DustMotes \in Nat \ {0}
  BY DEF Lookup!AccountEvidenceAssumption
<1>1. DOMAIN found = {"exists", "balanceMotes", "associatedKeyCount", "deploymentThreshold",
                      "keyManagementThreshold", "ageBlocks"}
  BY DEF FactsWereSeen, Lookup!Nothing, Lookup!NotFound, Describes
<1>2. /\ found.exists \notin {FALSE, Null}
      /\ found.balanceMotes # Null /\ ~ found.balanceMotes < DustMotes
      /\ found.associatedKeyCount # Null /\ found.keyManagementThreshold # Null
      /\ found.associatedKeyCount > 1 => ~ found.keyManagementThreshold <= 1
  BY <1>1, ApprovedIsKnown
<1>3. found # Lookup!Nothing /\ found # Lookup!NotFound
  <2>1. Lookup!Nothing.exists = Null /\ Lookup!NotFound.exists = FALSE
    BY DEF Lookup!Nothing, Lookup!NotFound
  <2> QED BY <1>2, <2>1
<1>4. PICK a \in seen, b \in seen :
        /\ a # Lookup!Absent /\ b # Lookup!Absent
        /\ Describes(found, a) /\ found.balanceMotes \in {Null, b.balance}
  BY <1>3 DEF FactsWereSeen
<1>5. a \in Lookup!Accounts /\ b \in Lookup!Accounts
  BY <1>4 DEF FactsWereSeen
<1>6. b.balance >= DustMotes
  <2>1. b.balance \in Int
    BY <1>0, <1>5 DEF Lookup!Accounts
  <2> QED BY <1>0, <1>2, <1>4, <2>1
<1>7. a.keys = 1 \/ a.threshold > 1
  <2>1. a.keys \in 1..2 /\ a.threshold \in 1..2
    BY <1>5 DEF Lookup!Accounts
  <2> QED BY <1>2, <1>4, <2>1 DEF Describes
<1>8. Lookup!Absent \in seen => Cardinality(seen) > 1
  <2> SUFFICES ASSUME Lookup!Absent \in seen PROVE Cardinality(seen) > 1
    OBVIOUS
  <2> DEFINE pair == {Lookup!Absent, a}
  <2>1. pair \subseteq seen /\ IsFiniteSet(seen)
    BY DEF FactsWereSeen
  <2>2. Cardinality(pair) = 2
    <3>1. IsFiniteSet({a}) /\ Cardinality({a}) = 1 /\ Lookup!Absent \notin {a}
      BY <1>4, FS_Singleton
    <3>2. Cardinality({a} \cup {Lookup!Absent}) = Cardinality({a}) + 1
      BY <3>1, FS_AddElement
    <3>3. pair = {a} \cup {Lookup!Absent}
      OBVIOUS
    <3> QED BY <3>1, <3>2, <3>3
  <2>3. Cardinality(pair) <= Cardinality(seen) /\ Cardinality(seen) \in Nat
    BY <2>1, FS_Subset, FS_CardinalityType
  <2> QED BY <2>2, <2>3
<1> QED BY <1>4, <1>6, <1>7, <1>8, Zenon DEF Lookup!Cardinality, Cardinality

(* Both kinds of answers of the report API: a PAY rests on calls that all   *)
(* succeeded and on windows that were open, and an approved account on an   *)
(* entity and a balance that were read.                                     *)
THEOREM AnswersRestOnTheChainCorrect ==
  ASSUME Evaluation!EvaluationAssumption, Lookup!AccountEvidenceAssumption
  PROVE  Evaluation!Spec /\ Lookup!Spec => []AnswersRestOnTheChain
<1>1. DecisionsRest /\ [Evaluation!Next]_(Evaluation!vars) => DecisionsRest'
  BY DecisionsStep
<1>2. FactsWereSeen /\ [Lookup!Next]_(Lookup!vars) => FactsWereSeen'
  BY LookupStep
<1>3. DecisionsRest /\ FactsWereSeen => AnswersRestOnTheChain
  BY NoFalseClearHolds DEF DecisionsRest, AnswersRestOnTheChain
<1>4. Evaluation!Spec => []DecisionsRest
  BY <1>1, DecisionsStart, PTL DEF Evaluation!Spec
<1>5. Lookup!Spec => []FactsWereSeen
  BY <1>2, LookupInit, PTL DEF Lookup!Spec
<1> QED BY <1>3, <1>4, <1>5, PTL

-----------------------------------------------------------------------------
(* The trust rules.                                                         *)

TokenFactNames ==
  {"mintBurnEnabled", "publicMintEntrypoint", "holderCount", "topHolderPct", "contractAgeBlocks", "lpHolderCount"}

AccountFactNames ==
  {"exists", "balanceMotes", "associatedKeyCount", "deploymentThreshold", "keyManagementThreshold", "ageBlocks"}

FactNames == IF subject = "token" THEN TokenFactNames ELSE AccountFactNames

(* Each fact has a value of its rule, or none, or one of another type.     *)
FactsTyped ==
  /\ subject \in {"token", "account"}
  /\ facts = [fact \in FactNames |-> facts[fact]]
  /\ \A fact \in FactNames : facts[fact] \in Rules!Given(Rules!RiskOf(subject)[fact])

LEMMA FactsStart == Rules!Init => FactsTyped
<1>1. ASSUME subject = "token", facts \in Rules!TokenFacts PROVE FactsTyped
  <2>1. facts = [fact \in TokenFactNames |-> facts[fact]]
    BY <1>1 DEF Rules!TokenFacts, TokenFactNames
  <2>2. \A fact \in TokenFactNames : facts[fact] \in Rules!Given(Rules!TokenRisk[fact])
    BY <1>1 DEF Rules!TokenFacts, TokenFactNames, Rules!TokenRisk
  <2> QED BY <1>1, <2>1, <2>2 DEF FactsTyped, FactNames, Rules!RiskOf
<1>2. ASSUME subject = "account", facts \in Rules!AccountFacts PROVE FactsTyped
  <2>1. facts = [fact \in AccountFactNames |-> facts[fact]]
    BY <1>2 DEF Rules!AccountFacts, AccountFactNames
  <2>2. \A fact \in AccountFactNames : facts[fact] \in Rules!Given(Rules!AccountRisk[fact])
    BY <1>2 DEF Rules!AccountFacts, AccountFactNames, Rules!AccountRisk
  <2> QED BY <1>2, <2>1, <2>2 DEF FactsTyped, FactNames, Rules!RiskOf
<1> QED BY <1>1, <1>2 DEF Rules!Init

LEMMA FactsStay ==
  ASSUME FactsTyped, [Rules!Next]_(Rules!vars)
  PROVE  FactsTyped'
<1> DEFINE risk == Rules!RiskOf(subject)
<1>1. ASSUME NEW fact \in FactNames, NEW v \in Rules!Given(risk[fact]), subject' = subject,
             facts' = [facts EXCEPT ![fact] = v]
      PROVE  FactsTyped'
  <2> HIDE DEF risk
  <2>1. facts' = [f \in FactNames |-> IF f = fact THEN v ELSE facts[f]]
    BY <1>1 DEF FactsTyped
  <2>2. FactNames' = FactNames /\ Rules!RiskOf(subject)' = risk
    BY <1>1 DEF FactNames, risk, Rules!RiskOf
  <2> QED BY <1>1, <2>1, <2>2 DEF FactsTyped, risk
<1>2. ASSUME NEW fact \in DOMAIN facts
      PROVE  /\ fact \in FactNames /\ DOMAIN risk[fact] = {1, 2}
             /\ {risk[fact][1], risk[fact][2], Null} \subseteq Rules!Given(risk[fact])
  <2>1. fact \in FactNames
    BY DEF FactsTyped
  <2> QED BY <2>1 DEF FactNames, TokenFactNames, AccountFactNames, Rules!RiskOf, Rules!TokenRisk, Rules!AccountRisk,
                      Rules!Given
<1> QED
  BY <1>1, <1>2 DEF Rules!Next, Rules!Learn, Rules!Forget, Rules!Worsen, Rules!vars, FactsTyped, FactNames

(* A fact that gets worse changes one signal, from its safe value to the   *)
(* risky one.                                                              *)
LEMMA OneSignalWorsens ==
  ASSUME Rules!TrustRulesAssumption, FactsTyped, NEW fact \in DOMAIN facts, Rules!Worsen(fact),
         NEW s, s = Rules!Signals, NEW t, t = Rules!Signals'
  PROVE  /\ fact \in FactNames
         /\ s[fact] = Rules!RiskOf(subject)[fact][1] /\ t[fact] = Rules!RiskOf(subject)[fact][2]
         /\ \A f \in FactNames : f # fact => t[f] = s[f]
<1>1. DOMAIN facts = FactNames /\ fact \in FactNames
  BY DEF FactsTyped
<1>2. {YoungBlocks - 1, YoungAccountBlocks - 1, DustMotes - 1, 1, 2, 95} \subseteq Int
  <2>1. {YoungBlocks, YoungAccountBlocks, DustMotes} \subseteq Nat
    BY DEF Rules!TrustRulesAssumption
  <2> QED BY <2>1
<1>3. Rules!RiskOf(subject)[fact][2] # Junk
  <2>1. Junk # TRUE /\ Junk # FALSE
        /\ Junk \notin {YoungBlocks - 1, YoungAccountBlocks - 1, DustMotes - 1, 1, 2, 95}
    BY <1>2, Zenon DEF Rules!TrustRulesAssumption
  <2>2. \A f \in TokenFactNames : Rules!TokenRisk[f][2] # Junk
    <3>1. /\ Rules!TokenRisk.mintBurnEnabled[2] # Junk /\ Rules!TokenRisk.publicMintEntrypoint[2] # Junk
          /\ Rules!TokenRisk.holderCount[2] # Junk /\ Rules!TokenRisk.topHolderPct[2] # Junk
          /\ Rules!TokenRisk.contractAgeBlocks[2] # Junk /\ Rules!TokenRisk.lpHolderCount[2] # Junk
      BY <2>1 DEF Rules!TokenRisk
    <3> QED BY <3>1 DEF TokenFactNames
  <2>3. \A f \in AccountFactNames : Rules!AccountRisk[f][2] # Junk
    <3>1. /\ Rules!AccountRisk.exists[2] # Junk /\ Rules!AccountRisk.balanceMotes[2] # Junk
          /\ Rules!AccountRisk.associatedKeyCount[2] # Junk /\ Rules!AccountRisk.deploymentThreshold[2] # Junk
          /\ Rules!AccountRisk.keyManagementThreshold[2] # Junk /\ Rules!AccountRisk.ageBlocks[2] # Junk
      BY <2>1 DEF Rules!AccountRisk
    <3> QED BY <3>1 DEF AccountFactNames
  <2> QED BY <1>1, <2>2, <2>3 DEF FactNames, Rules!RiskOf
<1> DEFINE v == Rules!RiskOf(subject)[fact][2]
<1> HIDE DEF v
<1>4. facts' = [f \in FactNames |-> IF f = fact THEN v ELSE facts[f]]
  BY <1>1 DEF FactsTyped, Rules!Worsen, v
<1>5. \A f \in FactNames : s[f] = IF facts[f] = Junk THEN Null ELSE facts[f]
  BY <1>1 DEF Rules!Signals
<1>6. \A f \in FactNames : t[f] = IF facts'[f] = Junk THEN Null ELSE facts'[f]
  BY <1>4 DEF Rules!Signals
<1>7. s[fact] = Rules!RiskOf(subject)[fact][1]
  BY DEF Rules!Worsen
<1> QED BY <1>1, <1>3, <1>4, <1>5, <1>6, <1>7 DEF v

LEMMA TokenWorsens ==
  ASSUME Rules!TrustRulesAssumption, NEW fact \in TokenFactNames, NEW s, NEW t,
         s[fact] = Rules!TokenRisk[fact][1], t[fact] = Rules!TokenRisk[fact][2],
         \A f \in TokenFactNames : f # fact => t[f] = s[f]
  PROVE  /\ Rules!TokenDangers(s) # {} => Rules!TokenDangers(t) # {}
         /\ Rules!TokenCautions(s) \cup Rules!TokenNotChecked(s) # {} =>
              Rules!TokenDangers(t) # {} \/ Rules!TokenCautions(t) \cup Rules!TokenNotChecked(t) # {}
<1>1. /\ Null \notin BOOLEAN \cup Int /\ {YoungBlocks, YoungAccountBlocks, DustMotes} \subseteq Nat \ {0}
  BY DEF Rules!TrustRulesAssumption
<1> USE DEF Rules!TokenDangers, Rules!TokenCautions, Rules!TokenNotChecked, Rules!When, Rules!Known,
            Rules!TokenRisk, TokenFactNames, Rules!ManyKeys
<1>2. CASE fact = "mintBurnEnabled"
  BY <1>1, <1>2
<1>3. CASE fact = "publicMintEntrypoint"
  BY <1>1, <1>3
<1>4. CASE fact = "holderCount"
  BY <1>1, <1>4
<1>5. CASE fact = "topHolderPct"
  BY <1>1, <1>5
<1>6. CASE fact = "contractAgeBlocks"
  BY <1>1, <1>6
<1>7. CASE fact = "lpHolderCount"
  BY <1>1, <1>7
<1> QED BY <1>2, <1>3, <1>4, <1>5, <1>6, <1>7

LEMMA AccountWorsens ==
  ASSUME Rules!TrustRulesAssumption, NEW fact \in AccountFactNames, NEW s, NEW t,
         s[fact] = Rules!AccountRisk[fact][1], t[fact] = Rules!AccountRisk[fact][2],
         \A f \in AccountFactNames : f # fact => t[f] = s[f]
  PROVE  /\ Rules!AccountDangers(s) # {} => Rules!AccountDangers(t) # {}
         /\ Rules!AccountCautions(s) \cup Rules!AccountNotChecked(s) # {} =>
              Rules!AccountDangers(t) # {} \/ Rules!AccountCautions(t) \cup Rules!AccountNotChecked(t) # {}
<1>1. /\ Null \notin BOOLEAN \cup Int /\ {YoungBlocks, YoungAccountBlocks, DustMotes} \subseteq Nat \ {0}
  BY DEF Rules!TrustRulesAssumption
<1> USE DEF Rules!AccountDangers, Rules!AccountCautions, Rules!AccountNotChecked, Rules!When, Rules!Known,
            Rules!AccountRisk, AccountFactNames, Rules!ManyKeys
<1>2. CASE fact = "exists"
  BY <1>1, <1>2
<1>3. CASE fact = "balanceMotes"
  BY <1>1, <1>3
<1>4. CASE fact = "associatedKeyCount"
  BY <1>1, <1>4
<1>5. CASE fact = "deploymentThreshold"
  BY <1>1, <1>5
<1>6. CASE fact = "keyManagementThreshold"
  BY <1>1, <1>6
<1>7. CASE fact = "ageBlocks"
  BY <1>1, <1>7
<1> QED BY <1>2, <1>3, <1>4, <1>5, <1>6, <1>7

(* A subject is never judged better because one of its facts got worse.    *)
THEOREM RiskNeverHelpsCorrect ==
  ASSUME Rules!TrustRulesAssumption
  PROVE  Rules!Spec => RiskNeverHelps
<1>1. ASSUME FactsTyped, NEW fact \in DOMAIN facts, Rules!Worsen(fact)
      PROVE  Rules!Rank(Rules!Decision(Rules!Signals')) >= Rules!Rank(Rules!Decision(Rules!Signals))
  <2> PICK s, t : s = Rules!Signals /\ t = Rules!Signals'
    OBVIOUS
  <2>1. /\ fact \in FactNames
        /\ s[fact] = Rules!RiskOf(subject)[fact][1] /\ t[fact] = Rules!RiskOf(subject)[fact][2]
        /\ \A f \in FactNames : f # fact => t[f] = s[f]
    BY <1>1, OneSignalWorsens
  <2>2. /\ Rules!Dangers(s) # {} => Rules!Dangers(t) # {}
        /\ Rules!Cautions(s) \cup Rules!NotChecked(s) # {} =>
             Rules!Dangers(t) # {} \/ Rules!Cautions(t) \cup Rules!NotChecked(t) # {}
    BY <2>1, TokenWorsens, AccountWorsens DEF FactNames, Rules!RiskOf, Rules!Dangers, Rules!Cautions,
       Rules!NotChecked
  <2>3. Rules!Rank(Rules!Decision(t)) >= Rules!Rank(Rules!Decision(s))
    BY <2>2 DEF Rules!Rank, Rules!Decision
  <2> QED BY <2>3
<1>2. FactsTyped /\ [Rules!Next]_(Rules!vars) =>
        [(\E fact \in DOMAIN facts : Rules!Worsen(fact)) =>
           Rules!Rank(Rules!Decision(Rules!Signals')) >= Rules!Rank(Rules!Decision(Rules!Signals))]_(Rules!vars)
  BY <1>1
<1>3. FactsTyped /\ [Rules!Next]_(Rules!vars) => FactsTyped'
  BY FactsStay
<1>4. Rules!Spec => []FactsTyped
  BY <1>3, FactsStart, PTL DEF Rules!Spec
<1> QED BY <1>2, <1>4, PTL DEF RiskNeverHelps, Rules!RiskNeverHelps, Rules!Spec

-----------------------------------------------------------------------------
(* The Merkle proofs of a dataset.                                          *)

(* Induction over the naturals: a set of them without a gap is all of them. *)
LEMMA AllNaturals ==
  ASSUME NEW Q \in SUBSET Nat, 0 \in Q, \A n \in Q : n + 1 \in Q
  PROVE  \A n \in Nat : n \in Q
<1> SUFFICES ASSUME NEW n \in Nat, n \notin Q PROVE FALSE
  OBVIOUS
<1> DEFINE Gaps == Nat \ Q
<1>1. n \in Gaps /\ Gaps \subseteq Nat
  OBVIOUS
<1>2. PICK m \in Gaps : \A k \in Gaps : <<k, m>> \notin OpToRel(<, Nat)
  BY <1>1, WFMin, NatLessThanWellFounded, Zenon
<1>3. \A k \in Gaps : ~(k < m)
  BY <1>1, <1>2, Zenon DEF OpToRel
<1>4. m \in Nat /\ m # 0 /\ m \notin Q
  OBVIOUS
<1>5. m - 1 \in Nat /\ m - 1 < m /\ (m - 1) + 1 = m
  BY <1>4
<1>6. m - 1 \in Q
  BY <1>3, <1>5, Zenon
<1> QED
  BY <1>4, <1>5, <1>6

(* The first n levels, one from the other. *)
FirstLevels(h, d, n) ==
  h = [k \in 0..n |-> IF k = 0 THEN [i \in DOMAIN d |-> Proofs!hashReport(d[i])] ELSE Proofs!Paired(h[k - 1])]

LEMMA FirstLevelsExist == ASSUME NEW d PROVE \A n \in Nat : \E h : FirstLevels(h, d, n)
<1> DEFINE base == [i \in DOMAIN d |-> Proofs!hashReport(d[i])]
           Q == {n \in Nat : \E h : FirstLevels(h, d, n)}
<1>1. 0 \in Q
  <2> DEFINE h == [k \in 0..0 |-> base]
  <2>1. FirstLevels(h, d, 0)
    BY DEF FirstLevels
  <2> QED BY <2>1
<1>2. ASSUME NEW n \in Q PROVE n + 1 \in Q
  <2>1. PICK h : FirstLevels(h, d, n)
    OBVIOUS
  <2> DEFINE hh == [k \in 0..(n + 1) |-> IF k = n + 1 THEN Proofs!Paired(h[n]) ELSE h[k]]
  <2> HIDE DEF base
  <2>2. \A k \in 0..n : h[k] = IF k = 0 THEN base ELSE Proofs!Paired(h[k - 1])
    BY <2>1 DEF FirstLevels, base
  <2>3. \A k \in 0..(n + 1) : hh[k] = IF k = 0 THEN base ELSE Proofs!Paired(hh[k - 1])
    BY <2>2
  <2>4. FirstLevels(hh, d, n + 1)
    <3> DEFINE g == [k \in 0..(n + 1) |-> IF k = 0 THEN base ELSE Proofs!Paired(hh[k - 1])]
    <3>1. hh = g
      BY <2>3
    <3> QED BY <3>1 DEF FirstLevels, base
  <2> QED BY <2>4
<1>3. Q \in SUBSET Nat
  OBVIOUS
<1> HIDE DEF Q
<1>4. \A n \in Nat : n \in Q
  BY <1>1, <1>2, <1>3, AllNaturals
<1> QED BY <1>4 DEF Q

LEMMA FirstLevelsAgree ==
  ASSUME NEW d, NEW m \in Nat, NEW n \in Nat, NEW g, NEW h, FirstLevels(g, d, m), FirstLevels(h, d, n)
  PROVE  \A k \in Nat : k <= m /\ k <= n => g[k] = h[k]
<1> DEFINE base == [i \in DOMAIN d |-> Proofs!hashReport(d[i])]
           Q == {k \in Nat : k <= m /\ k <= n => g[k] = h[k]}
<1> HIDE DEF base
<1>1. /\ \A k \in 0..m : g[k] = IF k = 0 THEN base ELSE Proofs!Paired(g[k - 1])
      /\ \A k \in 0..n : h[k] = IF k = 0 THEN base ELSE Proofs!Paired(h[k - 1])
  BY DEF FirstLevels, base
<1>2. 0 \in Q
  BY <1>1
<1>3. ASSUME NEW k \in Q PROVE k + 1 \in Q
  BY <1>1
<1>4. Q \in SUBSET Nat
  OBVIOUS
<1> HIDE DEF Q
<1>5. \A k \in Nat : k \in Q
  BY <1>2, <1>3, <1>4, AllNaturals
<1> QED BY <1>5 DEF Q

(* The levels of a dataset are what their recursive definition says. *)
LEMMA LevelsDefined ==
  ASSUME NEW d
  PROVE  /\ Proofs!LevelsOf(d)[0] = [i \in DOMAIN d |-> Proofs!hashReport(d[i])]
         /\ \A k \in Nat : Proofs!LevelsOf(d)[k + 1] = Proofs!Paired(Proofs!LevelsOf(d)[k])
<1> DEFINE base == [i \in DOMAIN d |-> Proofs!hashReport(d[i])]
           first(n) == CHOOSE h : FirstLevels(h, d, n)
           all == [k \in Nat |-> first(k)[k]]
           levels == Proofs!LevelsOf(d)
<1> HIDE DEF base
<1>1. \A n \in Nat : FirstLevels(first(n), d, n)
  BY FirstLevelsExist, Zenon
<1> HIDE DEF first
<1>2. \A k \in Nat : all[k] = IF k = 0 THEN base ELSE Proofs!Paired(all[k - 1])
  <2> SUFFICES ASSUME NEW k \in Nat PROVE all[k] = IF k = 0 THEN base ELSE Proofs!Paired(all[k - 1])
    OBVIOUS
  <2>1. first(k)[k] = IF k = 0 THEN base ELSE Proofs!Paired(first(k)[k - 1])
    <3>1. FirstLevels(first(k), d, k)
      BY <1>1
    <3> QED BY <3>1 DEF FirstLevels, base
  <2>2. k # 0 => first(k)[k - 1] = first(k - 1)[k - 1]
    <3> SUFFICES ASSUME k # 0 PROVE first(k)[k - 1] = first(k - 1)[k - 1]
      OBVIOUS
    <3>1. k - 1 \in Nat
      OBVIOUS
    <3>2. FirstLevels(first(k), d, k) /\ FirstLevels(first(k - 1), d, k - 1)
      BY <1>1, <3>1
    <3> QED BY <3>1, <3>2, FirstLevelsAgree
  <2> QED BY <2>1, <2>2
<1>3. all = [k \in Nat |-> IF k = 0 THEN base ELSE Proofs!Paired(all[k - 1])]
  BY <1>2
<1> HIDE DEF all
<1>4. levels = [k \in Nat |-> IF k = 0 THEN base ELSE Proofs!Paired(levels[k - 1])]
  BY <1>3, Zenon DEF Proofs!LevelsOf, base
<1> HIDE DEF levels
<1>5. \A k \in Nat : levels[k] = IF k = 0 THEN base ELSE Proofs!Paired(levels[k - 1])
  BY <1>4
<1>6. levels[0] = base
  BY <1>5
<1>7. ASSUME NEW k \in Nat PROVE levels[k + 1] = Proofs!Paired(levels[k])
  <2>1. k + 1 \in Nat /\ k + 1 # 0 /\ (k + 1) - 1 = k
    OBVIOUS
  <2> QED BY <1>5, <2>1
<1> QED BY <1>6, <1>7 DEF base, levels

(* The first n indices, each from the one below. *)
FirstIndices(h, leaf, n) == h = [k \in 0..n |-> IF k = 0 THEN leaf ELSE h[k - 1] \div 2]

LEMMA FirstIndicesExist == ASSUME NEW leaf PROVE \A n \in Nat : \E h : FirstIndices(h, leaf, n)
<1> DEFINE Q == {n \in Nat : \E h : FirstIndices(h, leaf, n)}
<1>1. 0 \in Q
  <2> DEFINE h == [k \in 0..0 |-> leaf]
  <2>1. FirstIndices(h, leaf, 0)
    BY DEF FirstIndices
  <2> QED BY <2>1
<1>2. ASSUME NEW n \in Q PROVE n + 1 \in Q
  <2>1. PICK h : FirstIndices(h, leaf, n)
    OBVIOUS
  <2> DEFINE hh == [k \in 0..(n + 1) |-> IF k = n + 1 THEN h[n] \div 2 ELSE h[k]]
  <2>2. \A k \in 0..n : h[k] = IF k = 0 THEN leaf ELSE h[k - 1] \div 2
    BY <2>1 DEF FirstIndices
  <2>3. \A k \in 0..(n + 1) : hh[k] = IF k = 0 THEN leaf ELSE hh[k - 1] \div 2
    BY <2>2
  <2>4. FirstIndices(hh, leaf, n + 1)
    <3> DEFINE g == [k \in 0..(n + 1) |-> IF k = 0 THEN leaf ELSE hh[k - 1] \div 2]
    <3>1. hh = g
      BY <2>3
    <3> QED BY <3>1 DEF FirstIndices
  <2> QED BY <2>4
<1>3. Q \in SUBSET Nat
  OBVIOUS
<1> HIDE DEF Q
<1>4. \A n \in Nat : n \in Q
  BY <1>1, <1>2, <1>3, AllNaturals
<1> QED BY <1>4 DEF Q

LEMMA FirstIndicesAgree ==
  ASSUME NEW leaf, NEW m \in Nat, NEW n \in Nat, NEW g, NEW h,
         FirstIndices(g, leaf, m), FirstIndices(h, leaf, n)
  PROVE  \A k \in Nat : k <= m /\ k <= n => g[k] = h[k]
<1> DEFINE Q == {k \in Nat : k <= m /\ k <= n => g[k] = h[k]}
<1>1. /\ \A k \in 0..m : g[k] = IF k = 0 THEN leaf ELSE g[k - 1] \div 2
      /\ \A k \in 0..n : h[k] = IF k = 0 THEN leaf ELSE h[k - 1] \div 2
  BY DEF FirstIndices
<1>2. 0 \in Q
  BY <1>1
<1>3. ASSUME NEW k \in Q PROVE k + 1 \in Q
  BY <1>1
<1>4. Q \in SUBSET Nat
  OBVIOUS
<1> HIDE DEF Q
<1>5. \A k \in Nat : k \in Q
  BY <1>2, <1>3, <1>4, AllNaturals
<1> QED BY <1>5 DEF Q

(* The indices above a leaf are what their recursive definition says. *)
LEMMA IndicesDefined ==
  ASSUME NEW leaf \in Nat
  PROVE  /\ Proofs!IndexOf(leaf)[0] = leaf
         /\ \A k \in Nat : /\ Proofs!IndexOf(leaf)[k] \in Nat
                           /\ Proofs!IndexOf(leaf)[k + 1] = Proofs!IndexOf(leaf)[k] \div 2
<1> DEFINE first(n) == CHOOSE h : FirstIndices(h, leaf, n)
           all == [k \in Nat |-> first(k)[k]]
           index == Proofs!IndexOf(leaf)
<1>1. \A n \in Nat : FirstIndices(first(n), leaf, n)
  BY FirstIndicesExist, Zenon
<1> HIDE DEF first
<1>2. \A k \in Nat : all[k] = IF k = 0 THEN leaf ELSE all[k - 1] \div 2
  <2> SUFFICES ASSUME NEW k \in Nat PROVE all[k] = IF k = 0 THEN leaf ELSE all[k - 1] \div 2
    OBVIOUS
  <2>1. first(k)[k] = IF k = 0 THEN leaf ELSE first(k)[k - 1] \div 2
    <3>1. FirstIndices(first(k), leaf, k)
      BY <1>1
    <3> QED BY <3>1 DEF FirstIndices
  <2>2. k # 0 => first(k)[k - 1] = first(k - 1)[k - 1]
    <3> SUFFICES ASSUME k # 0 PROVE first(k)[k - 1] = first(k - 1)[k - 1]
      OBVIOUS
    <3>1. k - 1 \in Nat
      OBVIOUS
    <3>2. FirstIndices(first(k), leaf, k) /\ FirstIndices(first(k - 1), leaf, k - 1)
      BY <1>1, <3>1
    <3> QED BY <3>1, <3>2, FirstIndicesAgree
  <2> QED BY <2>1, <2>2
<1>3. all = [k \in Nat |-> IF k = 0 THEN leaf ELSE all[k - 1] \div 2]
  BY <1>2
<1> HIDE DEF all
<1>4. index = [k \in Nat |-> IF k = 0 THEN leaf ELSE index[k - 1] \div 2]
  BY <1>3, Zenon DEF Proofs!IndexOf
<1> HIDE DEF index
<1>5. \A k \in Nat : index[k] = IF k = 0 THEN leaf ELSE index[k - 1] \div 2
  BY <1>4
<1>6. index[0] = leaf
  BY <1>5
<1>7. ASSUME NEW k \in Nat PROVE index[k + 1] = index[k] \div 2
  <2>1. k + 1 \in Nat /\ k + 1 # 0 /\ (k + 1) - 1 = k
    OBVIOUS
  <2> QED BY <1>5, <2>1
<1> DEFINE Q == {k \in Nat : index[k] \in Nat}
<1>8. 0 \in Q
  BY <1>6
<1>9. ASSUME NEW k \in Q PROVE k + 1 \in Q
  BY <1>7
<1>10. Q \in SUBSET Nat
  OBVIOUS
<1> HIDE DEF Q
<1>11. \A k \in Nat : k \in Q
  BY <1>8, <1>9, <1>10, AllNaturals
<1>12. \A k \in Nat : index[k] \in Nat
  BY <1>11 DEF Q
<1> QED BY <1>6, <1>7, <1>12 DEF index

(* A level of n hashes. *)
IsLevel(level, n) == n \in Nat \ {0} /\ level = [i \in 1..n |-> level[i]] /\ Len(level) = n /\ DOMAIN level = 1..n

LEMMA LenOfFunction ==
  ASSUME NEW n \in Nat, NEW f, f = [i \in 1..n |-> f[i]]
  PROVE  Len(f) = n
<1> DEFINE S == {f[i] : i \in 1..n}
<1>1. f \in [1..n -> S]
  OBVIOUS
<1>2. f \in Seq(S)
  BY <1>1, SeqDef
<1> HIDE DEF S
<1>3. Len(f) \in Nat /\ DOMAIN f = 1..Len(f)
  BY <1>2, LenProperties
<1> QED BY <1>1, <1>3

LEMMA PairedLevel ==
  ASSUME NEW level, NEW n, IsLevel(level, n)
  PROVE  /\ IsLevel(Proofs!Paired(level), (n + 1) \div 2)
         /\ \A i \in 1..((n + 1) \div 2) :
              Proofs!Paired(level)[i] =
                Proofs!hashPair(level[2 * i - 1], level[IF 2 * i <= n THEN 2 * i ELSE 2 * i - 1])
         /\ n > 1 => (n + 1) \div 2 < n
<1> DEFINE above == Proofs!Paired(level)  m == (n + 1) \div 2
<1>1. n \in Nat \ {0} /\ Len(level) = n
  BY DEF IsLevel
<1>2. m \in Nat \ {0} /\ (n > 1 => m < n)
  BY <1>1
<1>3. above = [i \in 1..m |->
         Proofs!hashPair(level[2 * i - 1], level[IF 2 * i <= n THEN 2 * i ELSE 2 * i - 1])]
  BY <1>1 DEF Proofs!Paired
<1> HIDE DEF above, m
<1>4. above = [i \in 1..m |-> above[i]] /\ DOMAIN above = 1..m
  BY <1>3
<1>5. Len(above) = m
  BY <1>2, <1>4, LenOfFunction
<1>6. \A i \in 1..m : above[i] =
                Proofs!hashPair(level[2 * i - 1], level[IF 2 * i <= n THEN 2 * i ELSE 2 * i - 1])
  BY <1>3
<1>7. IsLevel(above, m)
  BY <1>2, <1>4, <1>5 DEF IsLevel
<1> QED BY <1>2, <1>6, <1>7 DEF above, m

(* Each level has fewer hashes than the one below, until it has one. *)
LEMMA LevelSizes ==
  ASSUME NEW d, NEW size, IsLevel(d, size)
  PROVE  \A k \in Nat : \E n : IsLevel(Proofs!LevelsOf(d)[k], n) /\ (n = 1 \/ n + k <= size)
<1> DEFINE levels == Proofs!LevelsOf(d)
           Q == {k \in Nat : \E n : IsLevel(levels[k], n) /\ (n = 1 \/ n + k <= size)}
<1>1. /\ levels[0] = [i \in DOMAIN d |-> Proofs!hashReport(d[i])]
      /\ \A k \in Nat : levels[k + 1] = Proofs!Paired(levels[k])
  BY LevelsDefined
<1> HIDE DEF levels
<1>2. 0 \in Q
  <2>1. size \in Nat \ {0} /\ DOMAIN d = 1..size
    BY DEF IsLevel
  <2>2. levels[0] = [i \in 1..size |-> levels[0][i]] /\ DOMAIN levels[0] = 1..size
    BY <1>1, <2>1
  <2>3. Len(levels[0]) = size
    BY <2>1, <2>2, LenOfFunction
  <2>4. IsLevel(levels[0], size)
    BY <2>1, <2>2, <2>3 DEF IsLevel
  <2> QED BY <2>1, <2>4
<1>3. ASSUME NEW k \in Q PROVE k + 1 \in Q
  <2>1. PICK n : IsLevel(levels[k], n) /\ (n = 1 \/ n + k <= size)
    OBVIOUS
  <2>2. IsLevel(levels[k + 1], (n + 1) \div 2) /\ (n > 1 => (n + 1) \div 2 < n)
    BY <1>1, <2>1, PairedLevel
  <2>3. n \in Nat \ {0} /\ size \in Nat
    BY <2>1 DEF IsLevel
  <2>4. (n + 1) \div 2 = 1 \/ (n + 1) \div 2 + (k + 1) <= size
    BY <2>1, <2>2, <2>3
  <2> QED BY <2>2, <2>4
<1>4. Q \in SUBSET Nat
  OBVIOUS
<1> HIDE DEF Q
<1>5. \A k \in Nat : k \in Q
  BY <1>2, <1>3, <1>4, AllNaturals
<1> QED BY <1>5 DEF Q, levels

(* The top level of a dataset is its first of one hash. *)
LEMMA HeightDefined ==
  ASSUME NEW d, NEW size, IsLevel(d, size)
  PROVE  /\ Proofs!Height(d) \in Nat
         /\ Len(Proofs!LevelsOf(d)[Proofs!Height(d)]) = 1
         /\ \A j \in 0..(Proofs!Height(d) - 1) : Len(Proofs!LevelsOf(d)[j]) > 1
<1> DEFINE levels == Proofs!LevelsOf(d)
           Alone == {k \in Nat : Len(levels[k]) = 1}
<1>1. \A k \in Nat : \E n : IsLevel(levels[k], n) /\ (n = 1 \/ n + k <= size)
  BY LevelSizes
<1>2. size \in Nat /\ Len(d) = size
  BY DEF IsLevel
<1>3. size \in Alone
  <2>1. PICK n : IsLevel(levels[size], n) /\ (n = 1 \/ n + size <= size)
    BY <1>1, <1>2
  <2>2. n \in Nat \ {0} /\ Len(levels[size]) = n
    BY <2>1 DEF IsLevel
  <2>3. n = 1
    BY <1>2, <2>1, <2>2
  <2> QED BY <1>2, <2>2, <2>3
<1>4. PICK m \in Alone : \A k \in Alone : <<k, m>> \notin OpToRel(<, Nat)
  BY <1>3, WFMin, NatLessThanWellFounded, Zenon
<1>5. \A k \in Alone : ~(k < m)
  BY <1>4, Zenon DEF OpToRel
<1>6. m <= size
  BY <1>2, <1>3, <1>5
<1>7. \A j \in 0..(m - 1) : Len(levels[j]) > 1
  <2> SUFFICES ASSUME NEW j \in 0..(m - 1) PROVE Len(levels[j]) > 1
    OBVIOUS
  <2>1. j \in Nat /\ j \notin Alone
    BY <1>5
  <2>2. PICK n : IsLevel(levels[j], n)
    BY <1>1, <2>1
  <2>3. n \in Nat \ {0} /\ Len(levels[j]) = n
    BY <2>2 DEF IsLevel
  <2>4. n # 1
    BY <2>1, <2>3
  <2> QED BY <2>3, <2>4
<1>8. m \in 0..Len(d) /\ Len(levels[m]) = 1 /\ \A j \in 0..(m - 1) : Len(levels[j]) > 1
  BY <1>2, <1>6, <1>7
<1> DEFINE h == Proofs!Height(d)
<1>9. h \in 0..Len(d) /\ Len(levels[h]) = 1 /\ \A j \in 0..(h - 1) : Len(levels[j]) > 1
  BY <1>8, Zenon DEF Proofs!Height
<1> QED BY <1>2, <1>9

LEMMA TreeDefined ==
  ASSUME NEW d, NEW size, IsLevel(d, size)
  PROVE  /\ Len(Proofs!buildLevels(d)) = Proofs!Height(d) + 1
         /\ Proofs!Root(d) = Proofs!LevelsOf(d)[Proofs!Height(d)][1]
         /\ \A k \in 1..(Proofs!Height(d) + 1) : Proofs!buildLevels(d)[k] = Proofs!LevelsOf(d)[k - 1]
         /\ \A x : x \in Proofs!Nodes(d) <=>
              \E k \in 0..Proofs!Height(d) : \E i \in DOMAIN Proofs!LevelsOf(d)[k] : x = Proofs!LevelsOf(d)[k][i]
<1> DEFINE levels == Proofs!LevelsOf(d)  h == Proofs!Height(d)  built == Proofs!buildLevels(d)
<1>1. h \in Nat
  BY HeightDefined
<1>2. built = [k \in 1..(h + 1) |-> levels[k - 1]]
  BY Zenon DEF Proofs!buildLevels
<1> HIDE DEF levels, h, built
<1>3. DOMAIN built = 1..(h + 1) /\ \A k \in 1..(h + 1) : built[k] = levels[k - 1]
  BY <1>2
<1>4. Len(built) = h + 1
  BY <1>1, <1>2, <1>3, LenOfFunction
<1>5. built[Len(built)][1] = levels[h][1]
  BY <1>1, <1>3, <1>4
<1>6. Proofs!Root(d) = built[Len(built)][1]
  BY DEF Proofs!Root, Proofs!Last, built
<1>7. ASSUME NEW x
      PROVE  x \in Proofs!Nodes(d) <=> \E k \in 0..h : \E i \in DOMAIN levels[k] : x = levels[k][i]
  <2>1. x \in Proofs!Nodes(d) <=> \E k \in DOMAIN built : \E i \in DOMAIN built[k] : x = built[k][i]
    <3>1. \A f, y : y \in Proofs!Range(f) <=> \E i \in DOMAIN f : y = f[i]
      BY Zenon DEF Proofs!Range
    <3>2. x \in Proofs!Nodes(d) <=> \E level \in Proofs!Range(built) : x \in Proofs!Range(level)
      BY Zenon DEF Proofs!Nodes, built
    <3>3. ASSUME NEW level \in Proofs!Range(built), x \in Proofs!Range(level)
          PROVE  \E k \in DOMAIN built : \E i \in DOMAIN built[k] : x = built[k][i]
      <4>1. PICK k \in DOMAIN built : level = built[k]
        BY <3>1
      <4>2. PICK i \in DOMAIN level : x = level[i]
        BY <3>1, <3>3
      <4> QED BY <4>1, <4>2
    <3>4. ASSUME NEW k \in DOMAIN built, NEW i \in DOMAIN built[k], x = built[k][i]
          PROVE  \E level \in Proofs!Range(built) : x \in Proofs!Range(level)
      <4>1. built[k] \in Proofs!Range(built) /\ x \in Proofs!Range(built[k])
        BY <3>1, <3>4
      <4> QED BY <4>1
    <3> QED BY <3>2, <3>3, <3>4
  <2>2. ASSUME NEW k \in DOMAIN built, NEW i \in DOMAIN built[k], x = built[k][i]
        PROVE  \E n \in 0..h : \E j \in DOMAIN levels[n] : x = levels[n][j]
    <3>1. k - 1 \in 0..h /\ built[k] = levels[k - 1]
      BY <1>1, <1>3
    <3> QED BY <2>2, <3>1
  <2>3. ASSUME NEW k \in 0..h, NEW i \in DOMAIN levels[k], x = levels[k][i]
        PROVE  \E n \in DOMAIN built : \E j \in DOMAIN built[n] : x = built[n][j]
    <3>1. k + 1 \in DOMAIN built /\ built[k + 1] = levels[k]
      BY <1>1, <1>3
    <3> QED BY <2>3, <3>1
  <2> QED BY <2>1, <2>2, <2>3
<1> QED BY <1>3, <1>4, <1>5, <1>6, <1>7 DEF levels, h, built

(* The two sides of a pair in the tree are in the tree, and a record in the *)
(* tree is one of the dataset.                                              *)
LEMMA TreeClosed ==
  ASSUME NEW d, NEW size, IsLevel(d, size)
  PROVE  /\ \A l, r : Proofs!hashPair(l, r) \in Proofs!Nodes(d) => l \in Proofs!Nodes(d) /\ r \in Proofs!Nodes(d)
         /\ \A x : Proofs!hashReport(x) \in Proofs!Nodes(d) => x \in Proofs!Range(d)
<1> DEFINE levels == Proofs!LevelsOf(d)  h == Proofs!Height(d)
<1>1. /\ levels[0] = [i \in DOMAIN d |-> Proofs!hashReport(d[i])]
      /\ \A k \in Nat : levels[k + 1] = Proofs!Paired(levels[k])
  BY LevelsDefined
<1>2. h \in Nat
  BY HeightDefined
<1>3. \A x : x \in Proofs!Nodes(d) <=> \E k \in 0..h : \E i \in DOMAIN levels[k] : x = levels[k][i]
  BY TreeDefined
<1>4. \A k \in Nat : \E n : IsLevel(levels[k], n)
  BY LevelSizes
<1> HIDE DEF levels, h
<1>5. \A l, r, x : Proofs!hashPair(l, r) # Proofs!hashReport(x)
  BY DEF Proofs!hashPair, Proofs!hashReport
<1>6. \A l, r, a, b : Proofs!hashPair(l, r) = Proofs!hashPair(a, b) => l = a /\ r = b
  BY DEF Proofs!hashPair
<1>7. \A x, y : Proofs!hashReport(x) = Proofs!hashReport(y) => x = y
  BY DEF Proofs!hashReport
<1>8. ASSUME NEW k \in Nat \ {0}, NEW i \in DOMAIN levels[k]
      PROVE  \E j, m \in DOMAIN levels[k - 1] : levels[k][i] = Proofs!hashPair(levels[k - 1][j], levels[k - 1][m])
  <2>1. PICK n : IsLevel(levels[k - 1], n)
    BY <1>4
  <2>2. levels[k] = Proofs!Paired(levels[k - 1])
    <3>1. k - 1 \in Nat /\ (k - 1) + 1 = k
      OBVIOUS
    <3> QED BY <1>1, <3>1
  <2>3. /\ IsLevel(levels[k], (n + 1) \div 2)
        /\ \A j \in 1..((n + 1) \div 2) : levels[k][j] =
             Proofs!hashPair(levels[k - 1][2 * j - 1], levels[k - 1][IF 2 * j <= n THEN 2 * j ELSE 2 * j - 1])
    BY <2>1, <2>2, PairedLevel
  <2>4. i \in 1..((n + 1) \div 2) /\ n \in Nat \ {0} /\ DOMAIN levels[k - 1] = 1..n
    BY <2>1, <2>3 DEF IsLevel
  <2>5. 2 * i - 1 \in 1..n /\ (IF 2 * i <= n THEN 2 * i ELSE 2 * i - 1) \in 1..n
    BY <2>4
  <2> QED BY <2>3, <2>4, <2>5
<1>9. ASSUME NEW l, NEW r, Proofs!hashPair(l, r) \in Proofs!Nodes(d)
      PROVE  l \in Proofs!Nodes(d) /\ r \in Proofs!Nodes(d)
  <2>1. PICK k \in 0..h : \E i \in DOMAIN levels[k] : Proofs!hashPair(l, r) = levels[k][i]
    BY <1>3, <1>9
  <2>2. PICK i \in DOMAIN levels[k] : Proofs!hashPair(l, r) = levels[k][i]
    BY <2>1
  <2>3. k # 0
    BY <1>1, <1>5, <2>2
  <2>4. PICK j \in DOMAIN levels[k - 1], m \in DOMAIN levels[k - 1] :
          levels[k][i] = Proofs!hashPair(levels[k - 1][j], levels[k - 1][m])
    BY <1>2, <1>8, <2>3
  <2>5. l = levels[k - 1][j] /\ r = levels[k - 1][m]
    BY <1>6, <2>2, <2>4
  <2>6. k - 1 \in 0..h
    BY <1>2, <2>3
  <2> QED BY <1>3, <2>5, <2>6
<1>10. ASSUME NEW x, Proofs!hashReport(x) \in Proofs!Nodes(d)
       PROVE  x \in Proofs!Range(d)
  <2>1. PICK k \in 0..h : \E i \in DOMAIN levels[k] : Proofs!hashReport(x) = levels[k][i]
    BY <1>3, <1>10
  <2>2. PICK i \in DOMAIN levels[k] : Proofs!hashReport(x) = levels[k][i]
    BY <2>1
  <2>3. k = 0
    <3> SUFFICES ASSUME k # 0 PROVE FALSE
      OBVIOUS
    <3>1. k \in Nat \ {0}
      BY <1>2
    <3> QED BY <1>5, <1>8, <2>2, <3>1
  <2>4. i \in DOMAIN d /\ levels[0][i] = Proofs!hashReport(d[i])
    BY <1>1, <2>3
  <2>5. x = d[i]
    BY <1>7, <2>2, <2>3, <2>4
  <2> QED BY <2>4, <2>5, Zenon DEF Proofs!Range
<1> QED BY <1>9, <1>10

(* A step with the neighbour of a node leads to the node above. *)
LEMMA SiblingLeadsUp ==
  ASSUME NEW level, NEW n, IsLevel(level, n), NEW at \in 0..(n - 1), NEW here, here = level[at + 1],
         NEW step, step = Proofs!SiblingOn(level, at)
  PROVE  /\ at \div 2 \in 0..((n + 1) \div 2 - 1)
         /\ Proofs!Paired(level)[at \div 2 + 1] =
              IF step.position = "left" THEN Proofs!hashPair(step.hash, here)
              ELSE Proofs!hashPair(here, step.hash)
<1>1. n \in Nat \ {0} /\ Len(level) = n
  BY DEF IsLevel
<1>2. at \div 2 \in 0..((n + 1) \div 2 - 1)
  BY <1>1
<1> DEFINE j == at \div 2 + 1
<1>3. j \in 1..((n + 1) \div 2)
  BY <1>1
<1>4. Proofs!Paired(level)[j] =
        Proofs!hashPair(level[2 * j - 1], level[IF 2 * j <= n THEN 2 * j ELSE 2 * j - 1])
  BY <1>3, PairedLevel
<1>5. CASE at % 2 = 0
  <2>1. 2 * j - 1 = at + 1 /\ 2 * j = at + 2
    BY <1>1, <1>5
  <2>2. step.position = "right" /\ step.hash = level[1 + IF at + 1 < n THEN at + 1 ELSE at]
    BY <1>1, <1>5 DEF Proofs!SiblingOn
  <2>3. (1 + IF at + 1 < n THEN at + 1 ELSE at) = (IF 2 * j <= n THEN 2 * j ELSE 2 * j - 1)
    BY <1>1, <2>1
  <2> QED BY <1>2, <1>4, <2>1, <2>2, <2>3
<1>6. CASE at % 2 # 0
  <2>1. 2 * j - 1 = at /\ 2 * j = at + 1 /\ 2 * j <= n
    BY <1>1, <1>6
  <2>2. step.position = "left" /\ step.hash = level[1 + IF at - 1 < n THEN at - 1 ELSE at]
    BY <1>1, <1>6 DEF Proofs!SiblingOn
  <2>3. (1 + IF at - 1 < n THEN at - 1 ELSE at) = at
    BY <1>1
  <2> QED BY <1>2, <1>4, <2>1, <2>2, <2>3
<1> QED BY <1>5, <1>6

(* The steps so far are those of the proof of the i-th record. *)
BuiltSoFar(i) ==
  /\ record = dataset[i] /\ Len(proof) <= Proofs!Height(dataset)
  /\ \A k \in 1..Len(proof) : proof[k] = Proofs!buildProof(dataset, i)[k]

(* The node above the i-th record on the level the steps lead to. *)
AboveLeaf(i) == Proofs!IndexOf(i - 1)[Len(proof)]

(* A foreign record is outside the tree, and so is what it is combined to; *)
(* the steps of a built proof lead up from node to node.                   *)
ProofInv ==
  /\ IsLevel(dataset, Len(dataset))
  /\ Len(proof) \in Nat /\ proof = [k \in 1..Len(proof) |-> proof[k]]
  /\ record \notin Proofs!Range(dataset) => current \notin Proofs!Nodes(dataset)
  /\ \A i \in DOMAIN dataset : BuiltSoFar(i) =>
       /\ AboveLeaf(i) \in 0..(Len(Proofs!LevelsOf(dataset)[Len(proof)]) - 1)
       /\ current = Proofs!LevelsOf(dataset)[Len(proof)][AboveLeaf(i) + 1]

LEMMA ProofInitInv ==
  ASSUME Proofs!MerkleDatasetAssumption
  PROVE  Proofs!Init => ProofInv
<1> SUFFICES ASSUME Proofs!Init PROVE ProofInv
  OBVIOUS
<1>1. PICK n \in 1..MaxLeaves : dataset = SubSeq(Evidence, 1, n)
  BY DEF Proofs!Init
<1>2. IsLevel(dataset, Len(dataset))
  <2> DEFINE S == Proofs!Range(Evidence)
  <2>1. Evidence \in Seq(S) /\ MaxLeaves \in 1..Len(Evidence)
    BY DEF Proofs!MerkleDatasetAssumption
  <2> HIDE DEF S
  <2>2. dataset \in Seq(S) /\ Len(dataset) = n
    BY <1>1, <2>1
  <2>3. DOMAIN dataset = 1..Len(dataset) /\ Len(dataset) \in Nat \ {0} /\ dataset = [i \in 1..Len(dataset) |-> dataset[i]]
    BY <1>1, <2>2
  <2> QED BY <2>3 DEF IsLevel
<1>3. Len(proof) = 0 /\ proof = [k \in 1..Len(proof) |-> proof[k]]
  BY DEF Proofs!Init
<1>4. current = Proofs!hashReport(record)
  BY DEF Proofs!Init, Proofs!FirstHash
<1>5. record \notin Proofs!Range(dataset) => current \notin Proofs!Nodes(dataset)
  BY <1>2, <1>4, TreeClosed
<1>6. ASSUME NEW i \in DOMAIN dataset, BuiltSoFar(i)
      PROVE  /\ AboveLeaf(i) \in 0..(Len(Proofs!LevelsOf(dataset)[Len(proof)]) - 1)
             /\ current = Proofs!LevelsOf(dataset)[Len(proof)][AboveLeaf(i) + 1]
  <2>1. i \in 1..Len(dataset) /\ Len(dataset) \in Nat
    BY <1>2 DEF IsLevel
  <2>2. AboveLeaf(i) = i - 1
    BY <1>3, <2>1, IndicesDefined DEF AboveLeaf
  <2>3. Proofs!LevelsOf(dataset)[0] = [j \in 1..Len(dataset) |-> Proofs!hashReport(dataset[j])]
    BY <1>2, LevelsDefined DEF IsLevel
  <2> DEFINE level == Proofs!LevelsOf(dataset)[0]
  <2> HIDE DEF level
  <2>4. level = [j \in 1..Len(dataset) |-> level[j]]
    BY <2>3 DEF level
  <2>5. Len(level) = Len(dataset)
    BY <2>1, <2>4, LenOfFunction
  <2>6. level[i] = Proofs!hashReport(dataset[i])
    BY <2>1, <2>3 DEF level
  <2> QED BY <1>3, <1>4, <1>6, <2>1, <2>2, <2>5, <2>6 DEF level, BuiltSoFar
<1> QED BY <1>2, <1>3, <1>5, <1>6 DEF ProofInv

LEMMA ProofStepInv ==
  ASSUME ProofInv, NEW step, Proofs!Apply(step)
  PROVE  ProofInv'
<1> DEFINE level == Proofs!LevelsOf(dataset)[Len(proof)]
           above == Proofs!LevelsOf(dataset)[Len(proof) + 1]
<1>1. IsLevel(dataset, Len(dataset)) /\ Len(proof) \in Nat
  BY DEF ProofInv
<1>2. dataset' = dataset /\ record' = record /\ proof' = Append(proof, step)
  BY DEF Proofs!Apply
<1>3. current' = IF step.position = "left" THEN Proofs!hashPair(step.hash, current)
                 ELSE Proofs!hashPair(current, step.hash)
  BY DEF Proofs!Apply, Proofs!After
<1>4. /\ Len(proof') = Len(proof) + 1 /\ proof' = [k \in 1..Len(proof') |-> proof'[k]]
      /\ \A k \in 1..Len(proof) : proof'[k] = proof[k]
      /\ proof'[Len(proof) + 1] = step
  <2> DEFINE S == {proof[k] : k \in 1..Len(proof)} \cup {step}
  <2>1. proof \in Seq(S)
    <3>1. proof \in [1..Len(proof) -> S]
      BY DEF ProofInv
    <3> QED BY <1>1, <3>1, SeqDef
  <2>2. step \in S
    OBVIOUS
  <2> HIDE DEF S
  <2> DEFINE longer == Append(proof, step)
  <2>3. /\ longer \in Seq(S) /\ Len(longer) = Len(proof) + 1
        /\ \A k \in 1..Len(proof) : longer[k] = proof[k]
        /\ longer[Len(proof) + 1] = step
    BY <2>1, <2>2, AppendProperties
  <2> HIDE DEF longer
  <2>4. longer = [k \in 1..Len(longer) |-> longer[k]]
    BY <2>3
  <2> QED BY <1>2, <2>3, <2>4 DEF longer
<1>5. record \notin Proofs!Range(dataset) => current' \notin Proofs!Nodes(dataset)
  <2>1. record \notin Proofs!Range(dataset) => current \notin Proofs!Nodes(dataset)
    BY DEF ProofInv
  <2> QED BY <1>1, <1>3, <2>1, TreeClosed
<1>6. ASSUME NEW i \in DOMAIN dataset, BuiltSoFar(i)'
      PROVE  /\ AboveLeaf(i)' \in 0..(Len(above) - 1)
             /\ current' = above[AboveLeaf(i)' + 1]
  <2>1. i - 1 \in Nat
    BY <1>1 DEF IsLevel
  <2>2. /\ record = dataset[i] /\ Len(proof) + 1 <= Proofs!Height(dataset)
        /\ \A k \in 1..(Len(proof) + 1) : proof'[k] = Proofs!buildProof(dataset, i)[k]
    BY <1>2, <1>4, <1>6 DEF BuiltSoFar
  <2>3. BuiltSoFar(i)
    <3>1. \A k \in 1..Len(proof) : proof[k] = Proofs!buildProof(dataset, i)[k]
      BY <1>1, <1>4, <2>2
    <3>2. Len(proof) <= Proofs!Height(dataset)
      BY <1>1, <2>2, HeightDefined
    <3> QED BY <2>2, <3>1, <3>2 DEF BuiltSoFar
  <2>4. /\ AboveLeaf(i) \in 0..(Len(level) - 1)
        /\ current = level[AboveLeaf(i) + 1]
    BY <2>3 DEF ProofInv
  <2>5. PICK n : IsLevel(level, n)
    BY <1>1, LevelSizes
  <2>6. above = Proofs!Paired(level)
    BY <1>1, LevelsDefined
  <2>7. IsLevel(above, (n + 1) \div 2) /\ Len(above) = (n + 1) \div 2 /\ Len(level) = n
    <3> HIDE DEF level, above
    <3>1. IsLevel(above, (n + 1) \div 2)
      BY <2>5, <2>6, PairedLevel
    <3> QED BY <2>5, <3>1 DEF IsLevel
  <2>8. AboveLeaf(i)' = AboveLeaf(i) \div 2
    BY <1>1, <1>4, <2>1, IndicesDefined DEF AboveLeaf
  <2>9. step = Proofs!SiblingOn(level, AboveLeaf(i))
    <3>1. Len(Proofs!buildLevels(dataset)) = Proofs!Height(dataset) + 1 /\ Proofs!Height(dataset) \in Nat
      BY <1>1, TreeDefined, HeightDefined
    <3>2. Len(proof) + 1 \in 1..Proofs!Height(dataset)
      BY <1>1, <2>2, <3>1
    <3>3. Proofs!buildLevels(dataset)[Len(proof) + 1] = level
      BY <1>1, <3>1, <3>2, TreeDefined
    <3>4. Proofs!buildProof(dataset, i)[Len(proof) + 1] = Proofs!SiblingOn(level, AboveLeaf(i))
      BY <1>1, <3>1, <3>2, <3>3 DEF Proofs!buildProof, AboveLeaf
    <3> QED BY <1>1, <1>4, <2>2, <3>4
  <2> DEFINE at == AboveLeaf(i)
  <2> HIDE DEF level, above, at
  <2>10. /\ at \div 2 \in 0..((n + 1) \div 2 - 1)
         /\ Proofs!Paired(level)[at \div 2 + 1] = current'
    <3>1. at \in 0..(n - 1) /\ current = level[at + 1] /\ step = Proofs!SiblingOn(level, at)
      BY <2>4, <2>7, <2>9 DEF at
    <3>2. /\ at \div 2 \in 0..((n + 1) \div 2 - 1)
          /\ Proofs!Paired(level)[at \div 2 + 1] =
               IF step.position = "left" THEN Proofs!hashPair(step.hash, current)
               ELSE Proofs!hashPair(current, step.hash)
      BY <2>5, <3>1, SiblingLeadsUp
    <3> QED BY <1>3, <3>2
  <2> QED BY <2>6, <2>7, <2>8, <2>10 DEF at
<1>7. \A i \in DOMAIN dataset' : BuiltSoFar(i)' =>
       /\ AboveLeaf(i)' \in 0..(Len(Proofs!LevelsOf(dataset')[Len(proof')]) - 1)
       /\ current' = Proofs!LevelsOf(dataset')[Len(proof')][AboveLeaf(i)' + 1]
  BY <1>2, <1>4, <1>6
<1> QED BY <1>1, <1>2, <1>4, <1>5, <1>7 DEF ProofInv

(* No steps lead a foreign record to the root, and built proofs verify. *)
THEOREM OnlyRecordsVerifyCorrect ==
  ASSUME Proofs!MerkleDatasetAssumption
  PROVE  Proofs!Spec => []OnlyRecordsVerify
<1>1. ProofInv /\ UNCHANGED Proofs!vars => ProofInv'
  BY DEF Proofs!vars, ProofInv, BuiltSoFar, AboveLeaf
<1>2. ProofInv /\ [Proofs!Next]_(Proofs!vars) => ProofInv'
  BY <1>1, ProofStepInv DEF Proofs!Next
<1>3. ProofInv => OnlyRecordsVerify
  <2> SUFFICES ASSUME ProofInv PROVE OnlyRecordsVerify
    OBVIOUS
  <2> DEFINE h == Proofs!Height(dataset)
  <2>1. IsLevel(dataset, Len(dataset))
    BY DEF ProofInv
  <2>2. Proofs!Root(dataset) = Proofs!LevelsOf(dataset)[h][1] /\ h \in Nat /\ Len(Proofs!LevelsOf(dataset)[h]) = 1
    BY <2>1, TreeDefined, HeightDefined
  <2>3. Proofs!Root(dataset) \in Proofs!Nodes(dataset)
    <3>1. PICK n : IsLevel(Proofs!LevelsOf(dataset)[h], n)
      BY <2>1, <2>2, LevelSizes
    <3>2. 1 \in DOMAIN Proofs!LevelsOf(dataset)[h] /\ h \in 0..h
      BY <2>2, <3>1 DEF IsLevel
    <3> QED BY <2>1, <2>2, <3>2, TreeDefined
  <2>4. Proofs!OnlyRecordsVerify
    BY <2>3 DEF ProofInv, Proofs!OnlyRecordsVerify, Proofs!Verified
  <2>5. ASSUME NEW i \in DOMAIN dataset, record = dataset[i], proof = Proofs!buildProof(dataset, i)
        PROVE  Proofs!Verified
    <3>1. Len(Proofs!buildLevels(dataset)) = h + 1
      BY <2>1, TreeDefined
    <3> DEFINE built == Proofs!buildProof(dataset, i)
    <3>2. built = [k \in 1..h |-> built[k]]
      BY <2>2, <3>1 DEF Proofs!buildProof
    <3> HIDE DEF built
    <3>3. Len(proof) = h
      BY <2>2, <2>5, <3>2, LenOfFunction DEF built
    <3>4. BuiltSoFar(i)
      BY <2>2, <2>5, <3>3 DEF BuiltSoFar
    <3>5. /\ AboveLeaf(i) \in 0..(Len(Proofs!LevelsOf(dataset)[Len(proof)]) - 1)
          /\ current = Proofs!LevelsOf(dataset)[Len(proof)][AboveLeaf(i) + 1]
      BY <3>4 DEF ProofInv
    <3> DEFINE level == Proofs!LevelsOf(dataset)[h]
    <3> HIDE DEF level, h
    <3>6. AboveLeaf(i) \in 0..(Len(level) - 1) /\ current = level[AboveLeaf(i) + 1]
      BY <3>3, <3>5 DEF level
    <3>7. Len(level) = 1
      BY <2>2 DEF level
    <3>8. AboveLeaf(i) + 1 = 1
      BY <3>6, <3>7
    <3> QED BY <2>2, <3>6, <3>8 DEF Proofs!Verified, level
  <2> QED BY <2>4, <2>5 DEF OnlyRecordsVerify, Proofs!BuiltProofsVerify
<1> QED BY <1>2, <1>3, ProofInitInv, PTL DEF Proofs!Spec
==============================================================================
