---------------------------- MODULE WebAuthProofs ----------------------------
(***************************************************************************)
(* The portal's authentication for any number of browsers, addresses,      *)
(* slots and codes, and any limits.                                        *)
(*                                                                         *)
(* The strengthening ties sessions to codes: wherever a session is, in a   *)
(* browser or in a request, its code was issued for that browser, and a    *)
(* code that has let someone in is no longer stored (CodesOK).  For the    *)
(* bound on failures, the failures that count are added to the requests    *)
(* that are past the check and may still fail (CountOK).                   *)
(***************************************************************************)
EXTENDS WebAuth, FiniteSetTheorems, SequenceTheorems, TLAPS

SessionOK(b, s) == (s.otp # None => issued[s.otp] = b) /\ Earned(b, s)

CookiesOK == \A b \in Browsers : SessionOK(b, cookie[b])

SlotOK(r) ==
    /\ SessionOK(r.browser, r.session)
    /\ r.stage = "mail" => r.session.otp # None

SlotsOK == \A q \in Slots : requests[q] # None => SlotOK(requests[q])

CodeOnce ==
    \A m, n \in DOMAIN grants :
       grants[m].code = grants[n].code /\ grants[m].code # None => m = n

CodesOK ==
    /\ \A c \in Codes : issued[c] = None => codes[c] = None
    /\ \A n \in DOMAIN grants : grants[n].code # None =>
          codes[grants[n].code] = None /\ issued[grants[n].code] = grants[n].browser
    /\ CodeOnce

IInv == TypeOK /\ CookiesOK /\ SlotsOK /\ CodesOK

InService(a) ==
    {q \in Slots : /\ requests[q] # None
                   /\ requests[q].kind = "submit" /\ requests[q].stage \in {"work", "fail"}
                   /\ AddressOf[requests[q].browser] = a}

CountOK ==
    \A a \in Addresses :
       Cardinality(Recent(a)) + Cardinality(InService(a)) <= MaxFailures - 1 + Cardinality(Slots)

FailsAreSubmits ==
    \A q \in Slots : Serving(q, "fail") => requests[q].kind = "submit"

CInv == CountOK /\ FailsAreSubmits

-----------------------------------------------------------------------------
(* Steps that serve one request.                                           *)

\* A request value keeps its promises as long as the codes stay issued and
\* the grants stay.
Kept ==
    /\ \A c \in Codes : issued[c] # None => issued'[c] = issued[c]
    /\ \A n \in DOMAIN grants : n \in DOMAIN grants' /\ grants'[n] = grants[n]

\* SessionOK and SlotOK of the values b, s and r, after the step.
SessionAfter(b, s) ==
    /\ s.otp # None => issued'[s.otp] = b
    /\ s.auth => \E n \in DOMAIN grants' : grants'[n].browser = b

SlotAfter(r) ==
    /\ SessionAfter(r.browser, r.session)
    /\ r.stage = "mail" => r.session.otp # None

LEMMA SessionKept ==
  ASSUME Kept, NEW b \in Browsers, NEW s \in Sessions, SessionOK(b, s)
  PROVE  SessionAfter(b, s)
<1>1. s.otp # None => s.otp \in Codes /\ issued[s.otp] = b /\ b # None
  BY NoneAssumption DEF SessionOK, Sessions
<1>2. s.auth => \E n \in DOMAIN grants : grants[n].browser = b
  BY DEF SessionOK, Earned
<1> QED
  BY <1>1, <1>2 DEF Kept, SessionAfter

LEMMA CookiesKept ==
  ASSUME IInv, Kept, UNCHANGED cookie
  PROVE  CookiesOK'
<1> SUFFICES ASSUME NEW b \in Browsers PROVE SessionOK(b, cookie[b])'
  BY DEF CookiesOK
<1>1. cookie[b] \in Sessions /\ SessionOK(b, cookie[b])
  BY DEF IInv, TypeOK, CookiesOK
<1>2. SessionAfter(b, cookie[b])
  BY <1>1, SessionKept
<1> QED
  BY <1>2 DEF SessionAfter, SessionOK, Earned

\* What is known of a request that is being served.
LEMMA Served ==
  ASSUME IInv, NEW q \in Slots, requests[q] # None
  PROVE  /\ requests[q] \in Requests /\ SlotOK(requests[q])
         /\ requests[q].browser \in Browsers /\ requests[q].session \in Sessions
         /\ Kept => SessionAfter(requests[q].browser, requests[q].session)
<1>1. requests[q] \in Requests /\ SlotOK(requests[q])
  BY DEF IInv, TypeOK, SlotsOK
<1>2. requests[q].browser \in Browsers /\ requests[q].session \in Sessions
  BY <1>1 DEF Requests
<1> QED
  BY <1>1, <1>2, SessionKept DEF SlotOK

\* One slot gets a new value, all the others keep theirs.
LEMMA SlotStep ==
  ASSUME IInv, Kept, NEW q \in Slots, NEW x,
         requests' = [requests EXCEPT ![q] = x],
         x = None \/ (x \in Requests /\ SlotAfter(x))
  PROVE  requests' \in [Slots -> Requests \cup {None}] /\ SlotsOK'
<1>1. requests' \in [Slots -> Requests \cup {None}]
  BY DEF IInv, TypeOK
<1>2. ASSUME NEW p \in Slots, requests'[p] # None PROVE SlotAfter(requests'[p])
  <2>1. CASE p = q
    BY <2>1, <1>2 DEF IInv, TypeOK
  <2>2. CASE p # q
    <3>1. requests'[p] = requests[p]
      BY <2>2 DEF IInv, TypeOK
    <3> QED
      BY <3>1, <1>2, Served DEF SlotAfter, SlotOK
  <2> QED
    BY <2>1, <2>2
<1>3. SlotsOK'
  BY <1>2 DEF SlotAfter, SessionAfter, SlotsOK, SlotOK, SessionOK, Earned
<1> QED
  BY <1>1, <1>3

\* A step that issues no code and grants nothing.
LEMMA CodesKept ==
  ASSUME IInv, UNCHANGED <<codes, issued, grants>>
  PROVE  Kept /\ CodesOK'
BY DEF IInv, CodesOK, CodeOnce, Kept

LEMMA GrantCodes ==
  ASSUME IInv
  PROVE  \A n \in DOMAIN grants : grants[n] \in Grants /\ (grants[n].code # None =>
            /\ grants[n].code \in Codes
            /\ codes[grants[n].code] = None /\ issued[grants[n].code] = grants[n].browser)
<1>1. grants \in Seq(Grants)
  BY DEF IInv, TypeOK
<1>2. \A n \in DOMAIN grants : grants[n] \in Grants
  BY <1>1
<1> QED
  BY <1>2 DEF IInv, CodesOK, Grants

LEMMA AnswerType ==
  ASSUME NEW r \in Requests, NEW s \in Sessions, NEW w \in BOOLEAN
  PROVE  /\ Answer(r, s, w) \in Requests
         /\ Answer(r, s, w).browser = r.browser /\ Answer(r, s, w).session = s
         /\ Answer(r, s, w).stage = "answer"
BY DEF Answer, Requests

LEMMA RequestType ==
  ASSUME NEW k \in AllKinds, NEW b \in Browsers, NEW s \in Sessions,
         NEW right \in SUBSET {"basic", "password"},
         NEW otp \in Codes \cup {Wrong, None},
         NEW st \in {"check", "work", "mail", "fail", "answer"}
  PROVE  /\ Request(k, b, s, right, otp, st) \in Requests
         /\ Request(k, b, s, right, otp, st).browser = b
         /\ Request(k, b, s, right, otp, st).session = s
         /\ Request(k, b, s, right, otp, st).stage = st
BY DEF Request, Requests

-----------------------------------------------------------------------------
(* One lemma per action. *)

LEMMA SendIInv ==
  ASSUME IInv, NEW q \in Slots, NEW b \in Browsers, NEW kind \in AllKinds,
         NEW right \in SUBSET {"basic", "password"},
         NEW otp \in Codes \cup {Wrong, None},
         Send(q, b, kind, right, otp)
  PROVE  IInv'
<1>1. Kept /\ CodesOK'
  BY CodesKept DEF Send
<1>2. CookiesOK'
  BY <1>1, CookiesKept DEF Send
<1>3. cookie[b] \in Sessions /\ SessionAfter(b, cookie[b])
  BY <1>1, SessionKept DEF IInv, TypeOK, CookiesOK
<1> DEFINE x == Request(kind, b, cookie[b], right, otp, FirstStage(kind))
<1>4. x \in Requests /\ SlotAfter(x)
  <2> DEFINE st == FirstStage(kind)
  <2>1. st \in {"check", "work"}
    BY DEF FirstStage
  <2> HIDE DEF st
  <2>2. LET y == Request(kind, b, cookie[b], right, otp, st) IN
        y \in Requests /\ y.browser = b /\ y.session = cookie[b] /\ y.stage = st
    BY <1>3, <2>1, RequestType
  <2>3. SlotAfter(Request(kind, b, cookie[b], right, otp, st))
    BY <1>3, <2>1, <2>2 DEF SlotAfter
  <2> QED
    BY <2>2, <2>3 DEF st
<1>5. requests' = [requests EXCEPT ![q] = x]
  BY DEF Send
<1> HIDE DEF x
<1>6. requests' \in [Slots -> Requests \cup {None}] /\ SlotsOK'
  BY <1>1, <1>4, <1>5, SlotStep
<1>7. TypeOK'
  BY <1>6 DEF IInv, TypeOK, Send
<1> QED
  BY <1>1, <1>2, <1>6, <1>7 DEF IInv

LEMMA VisitSubmitIInv ==
  ASSUME IInv, NEW q \in Slots, NEW b \in Browsers, Visit(q, b) \/ Submit(q, b)
  PROVE  IInv'
<1>1. CASE Visit(q, b)
  BY <1>1, SendIInv DEF Visit, AllKinds
<1>2. CASE Submit(q, b)
  <2>1. PICK right \in SUBSET (Factors \ {"otp"}), otp \in inbox \cup {Wrong, None} :
               Send(q, b, "submit", right, otp)
    BY <1>2 DEF Submit
  <2>2. right \in SUBSET {"basic", "password"}
    BY ChainAssumption DEF Factors
  <2>3. otp \in Codes \cup {Wrong, None}
    BY DEF IInv, TypeOK
  <2> QED
    BY <2>1, <2>2, <2>3, SendIInv DEF AllKinds
<1> QED
  BY <1>1, <1>2

LEMMA DeliverIInv ==
  ASSUME IInv, NEW q \in Slots, Deliver(q)
  PROVE  IInv'
<1> DEFINE r == requests[q]
<1>0. requests[q] # None
  BY DEF Deliver, Serving
<1>1. Kept /\ CodesOK'
  BY CodesKept DEF Deliver
<1>2. /\ r \in Requests /\ r.browser \in Browsers /\ r.session \in Sessions
      /\ SessionAfter(r.browser, r.session)
  BY <1>0, <1>1, Served
<1>3. CookiesOK' /\ cookie' \in [Browsers -> Sessions]
  <2>1. cookie' \in [Browsers -> Sessions]
    BY <1>2 DEF Deliver, IInv, TypeOK
  <2>2. ASSUME NEW b \in Browsers PROVE SessionAfter(b, cookie'[b])
    <3>1. cookie'[b] = cookie[b] \/ (b = r.browser /\ cookie'[b] = r.session)
      BY <1>2 DEF Deliver, IInv, TypeOK
    <3>2. SessionAfter(b, cookie[b])
      BY <1>1, SessionKept DEF IInv, TypeOK, CookiesOK
    <3> QED
      BY <3>1, <3>2, <1>2
  <2> QED
    BY <2>1, <2>2 DEF SessionAfter, CookiesOK, SessionOK, Earned
<1> DEFINE x == IF r.kind = "form" THEN Redirected(r) ELSE None
<1>4. x = None \/ (x \in Requests /\ SlotAfter(x))
  BY <1>2 DEF Redirected, Requests, AllKinds, SlotAfter
<1>5. requests' = [requests EXCEPT ![q] = x]
  BY DEF Deliver
<1> HIDE DEF x
<1>6. requests' \in [Slots -> Requests \cup {None}] /\ SlotsOK'
  BY <1>1, <1>4, <1>5, SlotStep
<1>7. TypeOK'
  BY <1>3, <1>6 DEF IInv, TypeOK, Deliver
<1> QED
  BY <1>1, <1>3, <1>6, <1>7 DEF IInv

LEMMA LoseIInv ==
  ASSUME IInv, NEW q \in Slots, Lose(q)
  PROVE  IInv'
<1>1. Kept /\ CodesOK' /\ CookiesOK'
  BY CodesKept, CookiesKept DEF Lose
<1>2. requests' \in [Slots -> Requests \cup {None}] /\ SlotsOK'
  BY <1>1, SlotStep DEF Lose
<1>3. TypeOK'
  BY <1>2 DEF IInv, TypeOK, Lose
<1> QED
  BY <1>1, <1>2, <1>3 DEF IInv

LEMMA CheckIInv ==
  ASSUME IInv, NEW q \in Slots, Check(q)
  PROVE  IInv'
<1> DEFINE r == requests[q]
<1>9. PICK writes \in BOOLEAN : requests' = [requests EXCEPT ![q] =
          IF Locked(AddressOf[r.browser]) THEN Answer(r, r.session, TRUE)
          ELSE IF r.kind = "submit" THEN [r EXCEPT !.stage = "work"]
          ELSE IF "otp" \in Factors
               THEN Answer(r, [otp |-> None, auth |-> r.session.auth], TRUE)
               ELSE Answer(r, r.session, writes)]
  BY DEF Check
<1> DEFINE x == IF Locked(AddressOf[r.browser]) THEN Answer(r, r.session, TRUE)
                ELSE IF r.kind = "submit" THEN [r EXCEPT !.stage = "work"]
                ELSE IF "otp" \in Factors
                     THEN Answer(r, [otp |-> None, auth |-> r.session.auth], TRUE)
                     ELSE Answer(r, r.session, writes)
<1>0. requests[q] # None
  BY DEF Check, Serving
<1>1. Kept /\ CodesOK' /\ CookiesOK'
  BY CodesKept, CookiesKept DEF Check
<1>2. /\ r \in Requests /\ r.browser \in Browsers /\ r.session \in Sessions
      /\ SessionAfter(r.browser, r.session)
  BY <1>0, <1>1, Served
<1>3. SlotAfter(x) /\ x \in Requests
  <2>1. /\ SlotAfter(Answer(r, r.session, TRUE)) /\ Answer(r, r.session, TRUE) \in Requests
        /\ SlotAfter(Answer(r, r.session, writes)) /\ Answer(r, r.session, writes) \in Requests
    BY <1>2, AnswerType DEF SlotAfter
  <2>2. SlotAfter([r EXCEPT !.stage = "work"]) /\ [r EXCEPT !.stage = "work"] \in Requests
    BY <1>2 DEF SlotAfter, Requests
  <2> DEFINE s == [otp |-> None, auth |-> r.session.auth]
  <2>3. s \in Sessions /\ SessionAfter(r.browser, s)
    BY <1>2 DEF Sessions, SessionAfter
  <2> HIDE DEF s
  <2>4. SlotAfter(Answer(r, s, TRUE)) /\ Answer(r, s, TRUE) \in Requests
    BY <1>2, <2>3, AnswerType DEF SlotAfter
  <2> QED
    BY <2>1, <2>2, <2>4 DEF s
<1>4. requests' = [requests EXCEPT ![q] = x]
  BY <1>9
<1> HIDE DEF x
<1>5. requests' \in [Slots -> Requests \cup {None}] /\ SlotsOK'
  BY <1>1, <1>3, <1>4, SlotStep
<1>6. TypeOK'
  BY <1>5 DEF IInv, TypeOK, Check
<1> QED
  BY <1>1, <1>5, <1>6 DEF IInv

LEMMA RecordFailureIInv ==
  ASSUME IInv, NEW q \in Slots, RecordFailure(q)
  PROVE  IInv'
<1> DEFINE r == requests[q]
<1>0. requests[q] # None
  BY DEF RecordFailure, Serving
<1>1. Kept /\ CodesOK' /\ CookiesOK'
  BY CodesKept, CookiesKept DEF RecordFailure
<1>2. /\ r \in Requests /\ r.browser \in Browsers /\ r.session \in Sessions
      /\ SessionAfter(r.browser, r.session)
  BY <1>0, <1>1, Served
<1>3. PICK w \in BOOLEAN : requests' = [requests EXCEPT ![q] = Answer(r, r.session, w)]
  BY DEF RecordFailure
<1> DEFINE x == Answer(r, r.session, w)
<1>4. x \in Requests /\ SlotAfter(x)
  BY <1>2, AnswerType DEF SlotAfter
<1> HIDE DEF x
<1>5. requests' \in [Slots -> Requests \cup {None}] /\ SlotsOK'
  BY <1>1, <1>3, <1>4, SlotStep DEF x
<1>6. failures' \in [Rows -> Failures \cup {None}]
  <2>1. [address |-> AddressOf[r.browser], age |-> 0] \in Failures
    BY <1>2, AddressAssumption, LimitsAssumption DEF Failures
  <2> QED
    BY <2>1 DEF RecordFailure, IInv, TypeOK
<1>7. TypeOK'
  BY <1>5, <1>6 DEF IInv, TypeOK, RecordFailure
<1> QED
  BY <1>1, <1>5, <1>7 DEF IInv

\* The code that is looked up is popped, and no other is touched.
LEMMA Popped ==
  ASSUME IInv, NEW r \in Requests, Pop(r)
  PROVE  /\ codes' \in [Codes -> 0..(Expiry + 1) \cup {None}]
         /\ \A c \in Codes : codes'[c] = codes[c] \/ codes'[c] = None
         /\ Looks(r) => r.session.otp \in Codes /\ codes'[r.session.otp] = None
<1>1. r.session.otp \in Codes \cup {None}
  BY DEF Requests, Sessions
<1>2. Looks(r) => r.session.otp \in Codes
  BY <1>1 DEF Looks
<1> QED
  BY <1>2 DEF Pop, IInv, TypeOK

\* A request that succeeds with a code has looked it up, and it was stored.
LEMMA SucceedsLooks ==
  ASSUME NEW r \in Requests, Succeeds(r), "otp" \in Factors
  PROVE  /\ Looks(r) /\ r.session.otp # None /\ codes[r.session.otp] # None
         /\ r.otp = r.session.otp
<1>1. PICK n \in DOMAIN Chain : Chain[n] = "otp"
  BY DEF Factors
<1>2. Matches(r)
  BY <1>1 DEF Succeeds, Passes
<1>3. \A m \in 1..(n - 1) : m \in DOMAIN Chain
  BY <1>1, ChainAssumption
<1>4. r.session.otp # None /\ r.otp = r.session.otp /\ codes[r.session.otp] # None
  BY <1>2 DEF Matches
<1> QED
  BY <1>1, <1>3, <1>4 DEF Looks, Succeeds

LEMMA AuthenticateIInv ==
  ASSUME IInv, NEW q \in Slots, Authenticate(q)
  PROVE  IInv'
<1> DEFINE r == requests[q]
           g == Grant(r)
<1>0. requests[q] # None /\ r.stage = "work" /\ r.kind = "submit" /\ Pop(r)
  BY DEF Authenticate, Serving
<1>1. /\ r \in Requests /\ r.browser \in Browsers /\ r.session \in Sessions
      /\ SessionOK(r.browser, r.session)
  BY <1>0, Served DEF SlotOK
<1>2. /\ codes' \in [Codes -> 0..(Expiry + 1) \cup {None}]
      /\ \A c \in Codes : codes'[c] = codes[c] \/ codes'[c] = None
      /\ Looks(r) => r.session.otp \in Codes /\ codes'[r.session.otp] = None
  BY <1>0, <1>1, Popped
<1>3. g.browser = r.browser /\ (Succeeds(r) => g \in Grants)
  <2>1. CASE Succeeds(r) /\ "otp" \in Factors
    <3>1. r.otp = r.session.otp /\ Looks(r)
      BY <1>1, <2>1, SucceedsLooks
    <3> QED
      BY <1>1, <1>2, <2>1, <3>1 DEF Grant, Grants
  <2>2. CASE "otp" \notin Factors
    BY <1>1, <2>2 DEF Grant, Grants
  <2> QED
    BY <2>1, <2>2 DEF Grant
<1>4. /\ grants \in Seq(Grants) /\ issued' = issued /\ cookie' = cookie
      /\ inbox' = inbox /\ failures' = failures
  BY DEF IInv, TypeOK, Authenticate
<1>5. grants' = IF Succeeds(r) THEN Append(grants, g) ELSE grants
  BY DEF Authenticate
<1> HIDE DEF g
<1>6. /\ grants' \in Seq(Grants)
      /\ DOMAIN grants' = IF Succeeds(r) THEN 1..(Len(grants) + 1) ELSE 1..Len(grants)
      /\ DOMAIN grants = 1..Len(grants) /\ Len(grants) \in Nat
      /\ \A n \in DOMAIN grants : grants'[n] = grants[n]
      /\ Succeeds(r) => grants'[Len(grants) + 1] = g
  BY <1>3, <1>4, <1>5, AppendProperties, LenProperties
<1>7. Kept
  BY <1>4, <1>6 DEF Kept
<1>8. CookiesOK'
  BY <1>4, <1>7, CookiesKept
<1>9. CodesOK'
  <2> DEFINE fresh == Len(grants) + 1
  <2>1. ASSUME Succeeds(r), g.code # None
        PROVE  /\ g.code \in Codes /\ codes[g.code] # None /\ codes'[g.code] = None
               /\ issued[g.code] = g.browser
    <3>1. "otp" \in Factors /\ g.code = r.otp
      BY <2>1 DEF g, Grant
    <3>2. Looks(r) /\ codes[r.session.otp] # None /\ r.otp = r.session.otp
      BY <1>1, <2>1, <3>1, SucceedsLooks
    <3> QED
      BY <1>1, <1>2, <1>3, <2>1, <3>1, <3>2 DEF SessionOK
  <2>2. \A n \in DOMAIN grants : grants[n].code # None =>
           /\ grants[n].code \in Codes
           /\ codes[grants[n].code] = None /\ issued[grants[n].code] = grants[n].browser
    BY GrantCodes
  <2>3. \A n \in DOMAIN grants' : grants'[n].code # None =>
           codes'[grants'[n].code] = None /\ issued'[grants'[n].code] = grants'[n].browser
    <3> SUFFICES ASSUME NEW n \in DOMAIN grants', grants'[n].code # None
                 PROVE  /\ codes'[grants'[n].code] = None
                        /\ issued'[grants'[n].code] = grants'[n].browser
      OBVIOUS
    <3>1. CASE n \in DOMAIN grants
      BY <3>1, <1>2, <1>4, <1>6, <2>2
    <3>2. CASE n \notin DOMAIN grants
      <4>1. Succeeds(r) /\ grants'[n] = g
        BY <3>2, <1>6
      <4> QED
        BY <4>1, <2>1, <1>4
    <3> QED
      BY <3>1, <3>2
  <2>4. CodeOnce'
    <3> SUFFICES ASSUME NEW m \in DOMAIN grants', NEW n \in DOMAIN grants',
                        grants'[m].code = grants'[n].code, grants'[m].code # None
                 PROVE  m = n
      BY DEF CodeOnce
    <3>1. CASE m \in DOMAIN grants /\ n \in DOMAIN grants
      BY <3>1, <1>6 DEF IInv, CodesOK, CodeOnce
    <3>2. ASSUME NEW i \in DOMAIN grants, NEW j \in DOMAIN grants' \ DOMAIN grants,
                 grants'[i].code = grants'[j].code, grants'[i].code # None
          PROVE  FALSE
      <4>1. Succeeds(r) /\ grants'[j] = g /\ grants'[i] = grants[i]
        BY <1>6
      <4> QED
        BY <3>2, <4>1, <2>1, <2>2
    <3>3. CASE m \notin DOMAIN grants /\ n \notin DOMAIN grants
      BY <3>3, <1>6
    <3> QED
      BY <3>1, <3>2, <3>3
  <2>5. \A c \in Codes : issued'[c] = None => codes'[c] = None
    BY <1>2, <1>4 DEF IInv, CodesOK
  <2> QED
    BY <2>3, <2>4, <2>5 DEF CodesOK
<1> DEFINE x == IF Succeeds(r) THEN Answer(r, [otp |-> r.session.otp, auth |-> TRUE], TRUE)
                ELSE Request(r.kind, r.browser, r.session, {}, None, "fail")
<1>10. x \in Requests /\ SlotAfter(x)
  <2>1. SessionAfter(r.browser, r.session)
    BY <1>1, <1>7, SessionKept
  <2>2. CASE Succeeds(r)
    <3> DEFINE s == [otp |-> r.session.otp, auth |-> TRUE]
    <3>1. s \in Sessions
      BY <1>1 DEF Sessions
    <3>2. SessionAfter(r.browser, s)
      <4>1. Len(grants) + 1 \in DOMAIN grants' /\ grants'[Len(grants) + 1].browser = r.browser
        BY <2>2, <1>3, <1>6
      <4> QED
        BY <2>1, <4>1 DEF SessionAfter
    <3> HIDE DEF s
    <3>3. Answer(r, s, TRUE) \in Requests /\ SlotAfter(Answer(r, s, TRUE))
      BY <1>1, <3>1, <3>2, AnswerType DEF SlotAfter
    <3> QED
      BY <2>2, <3>3 DEF s
  <2>3. CASE ~Succeeds(r)
    <3> DEFINE y == Request(r.kind, r.browser, r.session, {}, None, "fail")
    <3>1. /\ y \in Requests /\ y.browser = r.browser /\ y.session = r.session
          /\ y.stage = "fail"
      <4>1. r.kind \in AllKinds
        BY <1>1 DEF Requests
      <4>2. {} \in SUBSET {"basic", "password"} /\ None \in Codes \cup {Wrong, None}
        OBVIOUS
      <4> QED
        BY <1>1, <4>1, <4>2, RequestType
    <3> HIDE DEF y
    <3>2. SlotAfter(y)
      BY <2>1, <3>1 DEF SlotAfter
    <3> QED
      BY <2>3, <3>1, <3>2 DEF y
  <2> QED
    BY <2>2, <2>3
<1>11. requests' = [requests EXCEPT ![q] = x]
  BY DEF Authenticate
<1> HIDE DEF x
<1>12. requests' \in [Slots -> Requests \cup {None}] /\ SlotsOK'
  BY <1>7, <1>10, <1>11, SlotStep
<1>13. TypeOK'
  BY <1>2, <1>4, <1>6, <1>12 DEF IInv, TypeOK
<1> QED
  BY <1>8, <1>9, <1>12, <1>13 DEF IInv

LEMMA StoreCodeIInv ==
  ASSUME IInv, NEW q \in Slots, NEW c \in Codes, StoreCode(q, c)
  PROVE  IInv'
<1> DEFINE r == requests[q]
           s == [otp |-> c, auth |-> r.session.auth]
           x == Request(r.kind, r.browser, s, {}, None, "mail")
<1>0. requests[q] # None
  BY DEF StoreCode, Serving
<1>1. /\ r \in Requests /\ r.browser \in Browsers /\ r.session \in Sessions
      /\ SessionOK(r.browser, r.session) /\ r.kind \in AllKinds
  BY <1>0, Served DEF SlotOK, Requests
<1>2. /\ issued[c] = None /\ issued' = [issued EXCEPT ![c] = r.browser]
      /\ codes' = [codes EXCEPT ![c] = 0] /\ grants' = grants /\ cookie' = cookie
      /\ inbox' = inbox /\ failures' = failures
  BY DEF StoreCode
<1>3. issued \in [Codes -> Browsers \cup {None}] /\ codes \in [Codes -> 0..(Expiry + 1) \cup {None}]
  BY DEF IInv, TypeOK
<1>4. Kept
  BY <1>2, <1>3 DEF Kept
<1>5. CookiesOK'
  BY <1>2, <1>4, CookiesKept
<1>6. CodesOK'
  <2>1. \A n \in DOMAIN grants : grants[n].code # None => grants[n].code # c
    <3> SUFFICES ASSUME NEW n \in DOMAIN grants, grants[n].code = c PROVE FALSE
      OBVIOUS
    <3>1. grants[n].code # None /\ grants[n].browser \in Browsers
      BY NoneAssumption, GrantCodes DEF Grants
    <3>2. issued[c] \in Browsers
      BY <3>1, GrantCodes
    <3> QED
      BY <1>2, <3>2, NoneAssumption
  <2>2. \A n \in DOMAIN grants : grants[n].code # None => grants[n].code \in Codes
    BY GrantCodes
  <2>3. CodeOnce'
    BY <1>2 DEF IInv, CodesOK, CodeOnce
  <2>4. \A i \in Codes : issued'[i] = None => codes'[i] = None
    BY <1>1, <1>2, <1>3, NoneAssumption DEF IInv, CodesOK
  <2> QED
    BY <1>2, <1>3, <2>1, <2>2, <2>3, <2>4 DEF IInv, CodesOK
<1>7. s \in Sessions /\ SessionAfter(r.browser, s)
  <2>1. SessionAfter(r.browser, r.session)
    BY <1>1, <1>4, SessionKept
  <2> QED
    BY <1>1, <1>2, <1>3, <2>1 DEF Sessions, SessionAfter
<1> HIDE DEF s
<1>8. x \in Requests /\ SlotAfter(x)
  <2>1. {} \in SUBSET {"basic", "password"} /\ None \in Codes \cup {Wrong, None}
    OBVIOUS
  <2>2. x \in Requests /\ x.browser = r.browser /\ x.session = s
    BY <1>1, <1>7, <2>1, RequestType
  <2>3. s.otp # None
    BY NoneAssumption DEF s
  <2> QED
    BY <1>7, <2>2, <2>3 DEF SlotAfter
<1>9. requests' = [requests EXCEPT ![q] = x]
  BY DEF StoreCode, s
<1> HIDE DEF x
<1>10. requests' \in [Slots -> Requests \cup {None}] /\ SlotsOK'
  BY <1>4, <1>8, <1>9, SlotStep
<1>11. TypeOK'
  <2>1. 0 \in 0..(Expiry + 1)
    BY LimitsAssumption
  <2> QED
    BY <1>1, <1>2, <1>3, <1>10, <2>1 DEF IInv, TypeOK
<1> QED
  BY <1>5, <1>6, <1>10, <1>11 DEF IInv

LEMMA MailCodeIInv ==
  ASSUME IInv, NEW q \in Slots, MailCode(q)
  PROVE  IInv'
<1> DEFINE r == requests[q]
           a(sent) == [Answer(r, r.session, TRUE) EXCEPT !.sent = sent]
<1>0. requests[q] # None /\ r.stage = "mail"
  BY DEF MailCode, Serving
<1>1. Kept /\ CodesOK' /\ CookiesOK'
  BY CodesKept, CookiesKept DEF MailCode
<1>2. /\ r \in Requests /\ SlotOK(r) /\ r.browser \in Browsers /\ r.session \in Sessions
      /\ SessionAfter(r.browser, r.session)
  BY <1>0, <1>1, Served
<1>3. r.session.otp \in Codes
  BY <1>0, <1>2 DEF SlotOK, Sessions
<1>4. PICK sent \in Codes \cup {None} : requests' = [requests EXCEPT ![q] = a(sent)]
  BY <1>3 DEF MailCode
<1> DEFINE x == a(sent)
<1>5. x \in Requests /\ SlotAfter(x)
  <2> DEFINE y == Answer(r, r.session, TRUE)
  <2>1. y \in Requests /\ y.browser = r.browser /\ y.session = r.session /\ y.stage = "answer"
    BY <1>2, AnswerType
  <2> HIDE DEF y
  <2>2. [y EXCEPT !.sent = sent] \in Requests /\ SlotAfter([y EXCEPT !.sent = sent])
    BY <1>2, <2>1 DEF Requests, SlotAfter
  <2> QED
    BY <2>2 DEF y
<1> HIDE DEF x
<1>6. requests' \in [Slots -> Requests \cup {None}] /\ SlotsOK'
  BY <1>1, <1>4, <1>5, SlotStep DEF x
<1>7. inbox' \subseteq Codes
  BY <1>3 DEF MailCode, IInv, TypeOK
<1>8. TypeOK'
  BY <1>6, <1>7 DEF IInv, TypeOK, MailCode
<1> QED
  BY <1>1, <1>6, <1>8 DEF IInv

LEMMA TickIInv ==
  ASSUME IInv, Tick
  PROVE  IInv'
<1>1. failures' \in [Rows -> Failures \cup {None}]
  <2> SUFFICES ASSUME NEW f \in Rows, failures[f] # None, ~(failures[f].age + 1 >= Lockout)
               PROVE  [address |-> failures[f].address, age |-> failures[f].age + 1] \in Failures
    BY DEF Tick
  <2>1. failures[f] \in Failures
    BY DEF IInv, TypeOK
  <2> QED
    BY <2>1, LimitsAssumption DEF Failures
<1>2. codes' \in [Codes -> 0..(Expiry + 1) \cup {None}]
  <2>1. ASSUME NEW c \in Codes, codes[c] # None PROVE Older(codes[c]) \in 0..(Expiry + 1)
    <3>1. codes[c] \in 0..(Expiry + 1)
      BY <2>1 DEF IInv, TypeOK
    <3> QED
      BY <3>1, LimitsAssumption DEF Older
  <2> QED
    BY <2>1 DEF Tick
<1>3. Kept
  BY DEF Tick, Kept
<1>4. CookiesOK'
  BY <1>3, CookiesKept DEF Tick
<1>5. SlotsOK'
  BY DEF IInv, SlotsOK, SlotOK, SessionOK, Earned, Tick
<1>6. CodesOK'
  <2>1. \A c \in Codes : codes[c] = None => codes'[c] = None
    BY DEF Tick
  <2>2. \A n \in DOMAIN grants : grants[n].code # None => grants[n].code \in Codes
    BY GrantCodes
  <2> QED
    BY <2>1, <2>2 DEF Tick, IInv, CodesOK, CodeOnce
<1>7. TypeOK'
  BY <1>1, <1>2 DEF IInv, TypeOK, Tick
<1> QED
  BY <1>4, <1>5, <1>6, <1>7 DEF IInv

LEMMA ServerRestartIInv ==
  ASSUME IInv, ServerRestart
  PROVE  IInv'
<1>1. Kept
  BY DEF ServerRestart, Kept
<1>2. cookie' \in [Browsers -> Sessions]
  <2>1. [otp |-> None, auth |-> FALSE] \in Sessions
    BY DEF Sessions
  <2> QED
    BY <2>1 DEF ServerRestart, IInv, TypeOK
<1>3. CookiesOK'
  <2>1. CASE UNCHANGED cookie
    BY <1>1, <2>1, CookiesKept
  <2>2. CASE cookie' = [b \in Browsers |-> [otp |-> None, auth |-> FALSE]]
    BY <2>2 DEF CookiesOK, SessionOK, Earned
  <2> QED
    BY <2>1, <2>2 DEF ServerRestart
<1>4. SlotsOK' /\ requests' \in [Slots -> Requests \cup {None}]
  BY DEF ServerRestart, SlotsOK
<1>5. CodesOK' /\ codes' \in [Codes -> 0..(Expiry + 1) \cup {None}]
  <2>1. \A n \in DOMAIN grants : grants[n].code # None => grants[n].code \in Codes
    BY GrantCodes
  <2> QED
    BY <2>1 DEF ServerRestart, IInv, CodesOK, CodeOnce
<1>6. TypeOK'
  BY <1>2, <1>4, <1>5 DEF IInv, TypeOK, ServerRestart
<1> QED
  BY <1>3, <1>4, <1>5, <1>6 DEF IInv

LEMMA InitIInv ==
  Init => IInv
<1> SUFFICES ASSUME Init PROVE IInv
  OBVIOUS
<1>1. TypeOK
  BY DEF Init, TypeOK, Sessions
<1>2. CookiesOK
  BY DEF Init, CookiesOK, SessionOK, Earned
<1>3. SlotsOK
  BY DEF Init, SlotsOK
<1>4. CodesOK
  BY DEF Init, CodesOK, CodeOnce
<1> QED
  BY <1>1, <1>2, <1>3, <1>4 DEF IInv

LEMMA NextIInv ==
  ASSUME IInv, [Next]_vars
  PROVE  IInv'
<1>1. CASE UNCHANGED vars
  BY <1>1 DEF vars, IInv, TypeOK, CookiesOK, SlotsOK, SlotOK, SessionOK, Earned, CodesOK, CodeOnce
<1>2. ASSUME NEW q \in Slots, Serve(q) PROVE IInv'
  BY <1>2, CheckIInv, AuthenticateIInv, RecordFailureIInv, MailCodeIInv, StoreCodeIInv DEF Serve
<1> QED
  BY <1>1, <1>2, VisitSubmitIInv, DeliverIInv, LoseIInv, TickIInv, ServerRestartIInv DEF Next

-----------------------------------------------------------------------------
(* How far the count of failures can go. *)

LEMMA Sizes ==
  /\ Cardinality(Slots) \in Nat \ {0}
  /\ \A S \in SUBSET Slots : /\ IsFiniteSet(S) /\ Cardinality(S) \in Nat
                              /\ Cardinality(S) <= Cardinality(Slots)
  /\ \A S \in SUBSET Rows : IsFiniteSet(S) /\ Cardinality(S) \in Nat
<1>1. Cardinality(Slots) \in Nat /\ Cardinality(Slots) # 0
  BY FiniteAssumption, FS_CardinalityType, FS_EmptySet
<1>2. \A S \in SUBSET Slots : /\ IsFiniteSet(S) /\ Cardinality(S) \in Nat
                              /\ Cardinality(S) <= Cardinality(Slots)
  BY FiniteAssumption, FS_Subset, FS_CardinalityType
<1>3. \A S \in SUBSET Rows : IsFiniteSet(S) /\ Cardinality(S) \in Nat
  BY FiniteAssumption, FS_Subset, FS_CardinalityType
<1> QED
  BY <1>1, <1>2, <1>3

Bound == MaxFailures - 1 + Cardinality(Slots)

\* Sets that only shrink stay within the bound.
LEMMA Shrinks ==
  ASSUME NEW R \in SUBSET Rows, NEW S \in SUBSET Slots,
         NEW R2 \in SUBSET R, NEW S2 \in SUBSET S,
         Cardinality(R) + Cardinality(S) <= Bound
  PROVE  Cardinality(R2) + Cardinality(S2) <= Bound
<1>1. /\ IsFiniteSet(R) /\ Cardinality(R) \in Nat /\ IsFiniteSet(S) /\ Cardinality(S) \in Nat
      /\ R2 \in SUBSET Rows /\ S2 \in SUBSET Slots
  BY Sizes
<1>2. Cardinality(R2) <= Cardinality(R) /\ Cardinality(S2) <= Cardinality(S)
  BY <1>1, FS_Subset
<1>3. Cardinality(R2) \in Nat /\ Cardinality(S2) \in Nat /\ Bound \in Int
  BY <1>1, Sizes, LimitsAssumption DEF Bound
<1> QED
  BY <1>1, <1>2, <1>3

\* A failure moves from the requests in service to the rows.
LEMMA Moves ==
  ASSUME NEW R \in SUBSET Rows, NEW S \in SUBSET Slots,
         NEW f \in Rows, NEW q \in S,
         Cardinality(R) + Cardinality(S) <= Bound
  PROVE  Cardinality(R \cup {f}) + Cardinality(S \ {q}) <= Bound
<1>1. IsFiniteSet(R) /\ Cardinality(R) \in Nat /\ IsFiniteSet(S) /\ Cardinality(S) \in Nat
  BY Sizes
<1>2. Cardinality(S \ {q}) = Cardinality(S) - 1
  BY <1>1, FS_RemoveElement
<1>3. Cardinality(R \cup {f}) = Cardinality(R) \/ Cardinality(R \cup {f}) = Cardinality(R) + 1
  BY <1>1, FS_AddElement
<1>4. Bound \in Int
  BY Sizes, LimitsAssumption DEF Bound
<1> QED
  BY <1>1, <1>2, <1>3, <1>4

\* Nobody is taken past the check, no failure is added.
Fewer ==
    \A a \in Addresses : Recent(a)' \subseteq Recent(a) /\ InService(a)' \subseteq InService(a)

\* Nobody fails who was not let through, no row appears.
LEMMA CountShrinks ==
  ASSUME CInv, Fewer
  PROVE  CountOK'
<1> SUFFICES ASSUME NEW a \in Addresses
             PROVE  Cardinality(Recent(a)') + Cardinality(InService(a)') <= Bound
  BY DEF CountOK, Bound
<1>1. Recent(a) \in SUBSET Rows /\ InService(a) \in SUBSET Slots
  BY DEF Recent, InService
<1>2. Cardinality(Recent(a)) + Cardinality(InService(a)) <= Bound
  BY DEF CInv, CountOK, Bound
<1> QED
  BY <1>1, <1>2, Shrinks DEF Fewer

\* The check lets nobody in while the address is locked out.
LEMMA CheckServes ==
  ASSUME IInv, NEW q \in Slots, Check(q)
  PROVE  \A a \in Addresses : /\ Recent(a)' = Recent(a)
                              /\ Locked(a) => InService(a)' \subseteq InService(a)
<1> DEFINE r == requests[q]
           here == AddressOf[r.browser]
<1>0. r # None /\ r \in Requests /\ r.browser \in Browsers /\ here \in Addresses
  BY Served, AddressAssumption DEF Check, Serving
<1>1. \A a \in Addresses : Recent(a)' = Recent(a)
  BY DEF Check, Recent
<1>2. \A p \in Slots : p # q => requests'[p] = requests[p]
  BY DEF Check, IInv, TypeOK
<1>3. requests'[q] # None /\ requests'[q].browser = r.browser
  <2>1. \A s, w : Answer(r, s, w).browser = r.browser /\ Answer(r, s, w).kind = r.kind
    BY DEF Answer
  <2> DEFINE s == [otp |-> None, auth |-> r.session.auth]
  <2>2. \/ \E w \in BOOLEAN : requests'[q] \in {Answer(r, r.session, w), Answer(r, s, w)}
        \/ requests'[q] = [r EXCEPT !.stage = "work"]
    BY DEF Check, IInv, TypeOK
  <2>3. r.session \in Sessions /\ s \in Sessions
    BY <1>0 DEF Requests, Sessions
  <2>4. [r EXCEPT !.stage = "work"] \in Requests /\ [r EXCEPT !.stage = "work"].browser = r.browser
    BY <1>0 DEF Requests
  <2> HIDE DEF s
  <2>5. \A w \in BOOLEAN : Answer(r, r.session, w) \in Requests /\ Answer(r, s, w) \in Requests
    BY <1>0, <2>3, AnswerType
  <2>6. \A w \in BOOLEAN : /\ Answer(r, r.session, w).browser = r.browser
                          /\ Answer(r, s, w).browser = r.browser
    BY <2>1
  <2> DEFINE y == requests'[q]
  <2>7. y \in Requests /\ y.browser = r.browser
    <3>1. CASE \E w \in BOOLEAN : y \in {Answer(r, r.session, w), Answer(r, s, w)}
      <4> HIDE DEF y
      <4> QED
        BY <2>5, <2>6, <3>1
    <3>2. CASE y = [r EXCEPT !.stage = "work"]
      <4> HIDE DEF y
      <4> QED
        BY <2>4, <3>2
    <3> QED
      BY <2>2, <3>1, <3>2
  <2> QED
    BY <2>7, NoneAssumption
<1>4. Locked(here) => requests'[q].stage = "answer"
  BY <1>0 DEF Check, IInv, TypeOK, Answer
<1>5. \A a \in Addresses : a # here \/ Locked(here) => InService(a)' \subseteq InService(a)
  BY <1>2, <1>3, <1>4 DEF InService
<1> QED
  BY <1>1, <1>5

LEMMA CheckCounts ==
  ASSUME IInv, CInv, NEW q \in Slots, Check(q)
  PROVE  CountOK'
<1> SUFFICES ASSUME NEW a \in Addresses
             PROVE  Cardinality(Recent(a)') + Cardinality(InService(a)') <= Bound
  BY DEF CountOK, Bound
<1>1. /\ Recent(a)' = Recent(a)
      /\ Locked(a) => InService(a)' \subseteq InService(a)
  BY CheckServes
<1>2. /\ Recent(a) \in SUBSET Rows /\ InService(a) \in SUBSET Slots
      /\ InService(a)' \in SUBSET Slots
      /\ Cardinality(Recent(a)) + Cardinality(InService(a)) <= Bound
  BY DEF Recent, InService, CInv, CountOK, Bound
<1>3. CASE Locked(a)
  BY <1>1, <1>2, <1>3, Shrinks
<1>4. CASE ~Locked(a)
  <2>1. Cardinality(Recent(a)) <= MaxFailures - 1
    BY <1>2, <1>4, Sizes, LimitsAssumption DEF Locked
  <2>2. Cardinality(InService(a)') <= Cardinality(Slots)
    BY <1>2, Sizes
  <2> QED
    BY <1>1, <1>2, <2>1, <2>2, Sizes, LimitsAssumption DEF Bound
<1> QED
  BY <1>3, <1>4

\* A failure that is recorded is that of a request in service, which leaves.
LEMMA RecordFailureServes ==
  ASSUME IInv, CInv, NEW q \in Slots, RecordFailure(q)
  PROVE  \A a \in Addresses :
            /\ InService(a)' \subseteq InService(a) \ {q}
            /\ \/ Recent(a)' \subseteq Recent(a)
               \/ /\ q \in InService(a)
                  /\ \E f \in Rows : Recent(a)' \subseteq Recent(a) \cup {f}
<1> DEFINE r == requests[q]
           here == AddressOf[r.browser]
<1>0. /\ r # None /\ r \in Requests /\ r.browser \in Browsers /\ here \in Addresses
      /\ r.kind = "submit" /\ r.stage = "fail"
  BY Served, AddressAssumption DEF RecordFailure, Serving, CInv, FailsAreSubmits
<1>1. \A p \in Slots : p # q => requests'[p] = requests[p]
  BY DEF RecordFailure, IInv, TypeOK
<1>2. requests'[q].stage = "answer"
  BY DEF RecordFailure, IInv, TypeOK, Answer
<1>3. q \in InService(here)
  BY <1>0 DEF InService
<1>4. \A a \in Addresses : InService(a)' \subseteq InService(a) \ {q}
  BY <1>1, <1>2 DEF InService
<1>5. CASE UNCHANGED failures
  BY <1>4, <1>5 DEF Recent
<1>6. CASE /\ \E f \in Rows : failures[f] = None
           /\ failures' = [failures EXCEPT ![FreeRow] = [address |-> here, age |-> 0]]
  <2>1. FreeRow \in Rows /\ failures[FreeRow] = None
    BY <1>6 DEF FreeRow
  <2>2. \A f \in Rows : f # FreeRow => failures'[f] = failures[f]
    BY <1>6 DEF IInv, TypeOK
  <2>3. failures'[FreeRow] = [address |-> here, age |-> 0]
    BY <1>6, <2>1 DEF IInv, TypeOK
  <2>4. \A a \in Addresses : Recent(a)' \subseteq Recent(a) \cup {FreeRow}
    BY <2>2 DEF Recent
  <2>5. \A a \in Addresses : a # here => Recent(a)' \subseteq Recent(a)
    BY <2>2, <2>3 DEF Recent
  <2> QED
    BY <1>3, <1>4, <2>1, <2>4, <2>5
<1> QED
  BY <1>5, <1>6 DEF RecordFailure

LEMMA RecordFailureCounts ==
  ASSUME IInv, CInv, NEW q \in Slots, RecordFailure(q)
  PROVE  CountOK'
<1> SUFFICES ASSUME NEW a \in Addresses
             PROVE  Cardinality(Recent(a)') + Cardinality(InService(a)') <= Bound
  BY DEF CountOK, Bound
<1>1. /\ InService(a)' \subseteq InService(a) \ {q}
      /\ \/ Recent(a)' \subseteq Recent(a)
         \/ /\ q \in InService(a)
            /\ \E f \in Rows : Recent(a)' \subseteq Recent(a) \cup {f}
  BY RecordFailureServes
<1>2. /\ Recent(a) \in SUBSET Rows /\ InService(a) \in SUBSET Slots
      /\ Cardinality(Recent(a)) + Cardinality(InService(a)) <= Bound
  BY DEF Recent, InService, CInv, CountOK, Bound
<1>3. CASE Recent(a)' \subseteq Recent(a)
  BY <1>1, <1>2, <1>3, Shrinks
<1>4. CASE ~(Recent(a)' \subseteq Recent(a))
  <2>1. PICK f \in Rows : q \in InService(a) /\ Recent(a)' \subseteq Recent(a) \cup {f}
    BY <1>1, <1>4
  <2>2. Cardinality(Recent(a) \cup {f}) + Cardinality(InService(a) \ {q}) <= Bound
    BY <1>1, <1>2, <2>1, Moves
  <2>3. Recent(a) \cup {f} \in SUBSET Rows /\ InService(a) \ {q} \in SUBSET Slots
    BY <1>2
  <2> QED
    BY <1>1, <2>1, <2>2, <2>3, Shrinks
<1> QED
  BY <1>3, <1>4

\* A step of q that leaves the rows alone and takes no request past the check.
LEMMA OtherServes ==
  ASSUME IInv, NEW q \in Slots, UNCHANGED failures,
         NEW x, requests' = [requests EXCEPT ![q] = x],
         x = None \/ x.stage \notin {"work", "fail"} \/ x.kind # "submit" \/
            (/\ Serving(q, "work") /\ requests[q].kind = "submit"
             /\ x.browser = requests[q].browser)
  PROVE  Fewer
<1>1. \A a \in Addresses : Recent(a)' = Recent(a)
  BY DEF Recent
<1>2. \A a \in Addresses : InService(a)' \subseteq InService(a)
  <2> SUFFICES ASSUME NEW a \in Addresses, NEW p \in InService(a)'
               PROVE  p \in InService(a)
    OBVIOUS
  <2>1. p \in Slots
    BY DEF InService
  <2>2. CASE p # q
    BY <2>1, <2>2 DEF InService, IInv, TypeOK
  <2>3. CASE p = q
    <3>1. requests'[p] = x
      BY <2>3 DEF IInv, TypeOK
    <3>2. /\ x # None /\ x.kind = "submit" /\ x.stage \in {"work", "fail"}
          /\ AddressOf[x.browser] = a
      BY <3>1 DEF InService
    <3> QED
      BY <2>3, <3>2 DEF InService, Serving
  <2> QED
    BY <2>2, <2>3
<1> QED
  BY <1>1, <1>2 DEF Fewer

\* Only the check and the record of a failure change what a lockout counts.
LEMMA NextServes ==
  ASSUME IInv, [Next]_vars
  PROVE  Fewer \/ \E q \in Slots : Check(q) \/ RecordFailure(q)
<1>1. CASE ServerRestart
  <2>1. \A a \in Addresses : Recent(a)' = Recent(a) /\ InService(a)' = {}
    BY <1>1 DEF ServerRestart, Recent, InService
  <2> QED
    BY <2>1 DEF Fewer
<1>2. CASE Tick
  <2>1. \A f \in Rows : failures'[f] # None => /\ failures[f] # None
                                              /\ failures'[f].address = failures[f].address
    BY <1>2 DEF Tick
  <2>2. \A a \in Addresses : Recent(a)' \subseteq Recent(a) /\ InService(a)' = InService(a)
    BY <1>2, <2>1 DEF Tick, Recent, InService
  <2> QED
    BY <2>2 DEF Fewer
<1>3. CASE UNCHANGED vars
  BY <1>3 DEF Fewer, vars, Recent, InService
<1>4. ASSUME NEW q \in Slots, NEW b \in Browsers, Visit(q, b) \/ Submit(q, b) PROVE Fewer
  BY <1>4, OtherServes DEF Visit, Submit, Send, Request, FirstStage
<1>5. ASSUME NEW q \in Slots, Deliver(q) \/ Lose(q) PROVE Fewer
  <2>1. CASE Deliver(q)
    <3> DEFINE x == IF requests[q].kind = "form" THEN Redirected(requests[q]) ELSE None
    <3>1. x = None \/ x.kind # "submit"
      BY DEF Redirected
    <3>2. requests' = [requests EXCEPT ![q] = x] /\ UNCHANGED failures
      BY <2>1 DEF Deliver
    <3> HIDE DEF x
    <3> QED
      BY <3>1, <3>2, OtherServes
  <2>2. CASE Lose(q)
    BY <2>2, OtherServes DEF Lose
  <2> QED
    BY <1>5, <2>1, <2>2
<1>6. ASSUME NEW q \in Slots, Authenticate(q) PROVE Fewer
  <2> DEFINE r == requests[q]
             x == IF Succeeds(r) THEN Answer(r, [otp |-> r.session.otp, auth |-> TRUE], TRUE)
                  ELSE Request(r.kind, r.browser, r.session, {}, None, "fail")
  <2>1. requests' = [requests EXCEPT ![q] = x] /\ UNCHANGED failures
    BY <1>6 DEF Authenticate
  <2>2. x.browser = r.browser
    BY DEF Answer, Request
  <2>3. Serving(q, "work") /\ r.kind = "submit"
    BY <1>6 DEF Authenticate
  <2> HIDE DEF x
  <2> QED
    BY <2>1, <2>2, <2>3, OtherServes
<1>7. ASSUME NEW q \in Slots, MailCode(q) PROVE Fewer
  <2> DEFINE a(sent) == [Answer(requests[q], requests[q].session, TRUE) EXCEPT !.sent = sent]
  <2>1. PICK sent : requests' = [requests EXCEPT ![q] = a(sent)]
    BY <1>7 DEF MailCode
  <2>2. a(sent).stage = "answer"
    BY DEF Answer
  <2> DEFINE x == a(sent)
  <2> HIDE DEF x
  <2> QED
    BY <1>7, <2>1, <2>2, OtherServes DEF MailCode, x
<1>8. ASSUME NEW q \in Slots, NEW c \in Codes, StoreCode(q, c) PROVE Fewer
  BY <1>8, OtherServes DEF StoreCode, Request
<1> QED
  BY <1>1, <1>2, <1>3, <1>4, <1>5, <1>6, <1>7, <1>8 DEF Next, Serve

LEMMA NextCInv ==
  ASSUME IInv, CInv, [Next]_vars
  PROVE  CInv'
<1>1. FailsAreSubmits'
  <2> SUFFICES ASSUME NEW p \in Slots, Serving(p, "fail")' PROVE requests'[p].kind = "submit"
    BY DEF FailsAreSubmits, Serving
  <2>0. requests'[p] # None /\ requests'[p].stage = "fail"
    BY DEF Serving
  <2>1. CASE requests'[p] = requests[p]
    BY <2>0, <2>1 DEF CInv, FailsAreSubmits, Serving
  <2>2. CASE requests'[p] # requests[p]
    <3>1. CASE ServerRestart
      BY <3>1, <2>0 DEF ServerRestart
    <3>2. CASE Tick \/ UNCHANGED vars
      BY <3>2, <2>2 DEF Tick, vars
    <3>3. ASSUME NEW q \in Slots, NEW x, requests' = [requests EXCEPT ![q] = x]
          PROVE  x = requests'[p] /\ q = p
      BY <3>3, <2>2 DEF IInv, TypeOK
    <3>4. ASSUME NEW q \in Slots, NEW b \in Browsers, Visit(q, b) \/ Submit(q, b) PROVE FALSE
      BY <3>3, <3>4, <2>0 DEF Visit, Submit, Send, Request, FirstStage
    <3>5. ASSUME NEW q \in Slots, Deliver(q) \/ Lose(q) PROVE FALSE
      BY <3>3, <3>5, <2>0 DEF Deliver, Lose, Redirected
    <3>6. ASSUME NEW q \in Slots, Check(q) PROVE FALSE
      <4>1. requests[q] \in Requests /\ q = p
        BY <3>3, <3>6, Served DEF Check, Serving
      <4> QED
        BY <3>6, <4>1, <2>0 DEF Check, Answer, IInv, TypeOK, Requests
    <3>7. ASSUME NEW q \in Slots, RecordFailure(q) PROVE FALSE
      BY <3>3, <3>7, <2>0 DEF RecordFailure, Answer
    <3>8. ASSUME NEW q \in Slots, Authenticate(q) PROVE requests'[p].kind = "submit"
      <4> DEFINE r == requests[q]
                 x == IF Succeeds(r) THEN Answer(r, [otp |-> r.session.otp, auth |-> TRUE], TRUE)
                      ELSE Request(r.kind, r.browser, r.session, {}, None, "fail")
      <4>1. requests' = [requests EXCEPT ![q] = x] /\ r.kind = "submit"
        BY <3>8 DEF Authenticate
      <4>2. x.kind = r.kind
        BY DEF Answer, Request
      <4> HIDE DEF x
      <4> QED
        BY <3>3, <4>1, <4>2
    <3>9. ASSUME NEW q \in Slots, MailCode(q) PROVE FALSE
      <4> DEFINE a(sent) == [Answer(requests[q], requests[q].session, TRUE) EXCEPT !.sent = sent]
      <4>1. PICK sent : requests' = [requests EXCEPT ![q] = a(sent)]
        BY <3>9 DEF MailCode
      <4>2. a(sent).stage = "answer"
        BY DEF Answer
      <4> DEFINE x == a(sent)
      <4> HIDE DEF x
      <4>3. requests' = [requests EXCEPT ![q] = x] /\ x.stage = "answer"
        BY <4>1, <4>2 DEF x
      <4> QED
        BY <3>3, <4>3, <2>0
    <3>10. ASSUME NEW q \in Slots, NEW c \in Codes, StoreCode(q, c) PROVE FALSE
      <4> DEFINE r == requests[q]
                 x == Request(r.kind, r.browser, [otp |-> c, auth |-> r.session.auth],
                              {}, None, "mail")
      <4>1. requests' = [requests EXCEPT ![q] = x]
        BY <3>10 DEF StoreCode
      <4>2. x.stage = "mail"
        BY DEF Request
      <4> HIDE DEF x
      <4> QED
        BY <3>3, <4>1, <4>2, <2>0
    <3> QED
      BY <3>1, <3>2, <3>4, <3>5, <3>6, <3>7, <3>8, <3>9, <3>10 DEF Next, Serve
  <2> QED
    BY <2>1, <2>2
<1>2. CountOK'
  BY NextServes, CountShrinks, CheckCounts, RecordFailureCounts DEF Fewer
<1> QED
  BY <1>1, <1>2 DEF CInv

LEMMA InitCInv ==
  Init => CInv
<1> SUFFICES ASSUME Init PROVE CInv
  OBVIOUS
<1>1. \A a \in Addresses : Recent(a) = {} /\ InService(a) = {}
  BY DEF Init, Recent, InService
<1>2. CountOK
  BY <1>1, Sizes, LimitsAssumption, FS_EmptySet DEF CountOK
<1>3. FailsAreSubmits
  BY DEF Init, FailsAreSubmits, Serving
<1> QED
  BY <1>2, <1>3 DEF CInv

-----------------------------------------------------------------------------
(* Theorems. *)

\* Every state of the portal is of the type written down in TypeOK: an age
\* never leaves its range, a slot holds a request the code can be serving.
THEOREM TypeCorrect == Spec => []TypeOK
<1>1. IInv => TypeOK
  BY DEF IInv
<1> QED
  BY <1>1, InitIInv, NextIInv, PTL DEF Spec

\* A code lets at most one request in, however requests interleave: the store
\* pops it in one step (otp_service.py), before the digits are compared.  That
\* request is of the browser whose session asked for the code.
THEOREM CodeForOneCorrect == Spec => []CodeForOne
<1>1. IInv => CodeForOne
  BY DEF IInv, CodesOK, CodeOnce, CodeForOne
<1> QED
  BY <1>1, InitIInv, NextIInv, PTL DEF Spec

\* No browser's session, and no answer under way, is marked authenticated
\* unless the whole chain passed for that browser (suspect.py, auth).
THEOREM AuthEarnedCorrect == Spec => []AuthEarned
<1>1. IInv => AuthEarned
  BY DEF IInv, CookiesOK, SlotsOK, SlotOK, SessionOK, AuthEarned
<1> QED
  BY <1>1, InitIInv, NextIInv, PTL DEF Spec

\* However many attempts are under way at a time, an address never has more
\* failures that count than AUTH_MAX_FAILURES and the other requests in
\* service (the count and the insert are two transactions).
THEOREM FailureBoundCorrect == Spec => []FailureBound
<1>1. IInv /\ CInv => FailureBound
  <2> SUFFICES ASSUME CInv, NEW a \in Addresses PROVE Cardinality(Recent(a)) <= Bound
    BY DEF FailureBound, Bound
  <2>1. Recent(a) \in SUBSET Rows /\ InService(a) \in SUBSET Slots
    BY DEF Recent, InService
  <2>2. Cardinality(Recent(a)) + Cardinality(InService(a)) <= Bound
    BY DEF CInv, CountOK, Bound
  <2> QED
    BY <2>1, <2>2, Sizes, LimitsAssumption DEF Bound
<1> QED
  BY <1>1, InitIInv, NextIInv, InitCInv, NextCInv, PTL DEF Spec

-----------------------------------------------------------------------------
(* Why a lockout ends.                                                     *)

\* While an address is locked out the check lets none of its requests in, and
\* each failure that is still recorded is that of a request let in before: it
\* uses that request up.  So a lockout is prolonged at most once by each of
\* the requests it found in service (suspect.py, auth).
LockoutRunsOut ==
    [][\A a \in Addresses : Locked(a) =>
          /\ InService(a)' \subseteq InService(a)
          /\ ~(Recent(a)' \subseteq Recent(a)) => InService(a)' # InService(a)]_vars

\* The argument behind LockoutEnds for every number of browsers, addresses and
\* slots: refused attempts are not counted, those in service run out.
THEOREM LockoutRunsOutCorrect == Spec => LockoutRunsOut
<1> DEFINE RunsOut(a) == /\ InService(a)' \subseteq InService(a)
                         /\ ~(Recent(a)' \subseteq Recent(a)) => InService(a)' # InService(a)
<1>1. ASSUME IInv, CInv, [Next]_vars, NEW a \in Addresses, Locked(a)
      PROVE  RunsOut(a)
  <2>1. CASE Fewer
    BY <2>1 DEF Fewer
  <2>2. ASSUME NEW q \in Slots, Check(q)
        PROVE  Recent(a)' = Recent(a) /\ InService(a)' \subseteq InService(a)
    BY <1>1, <2>2, CheckServes
  <2>3. ASSUME NEW q \in Slots, RecordFailure(q)
        PROVE  RunsOut(a)
    BY <1>1, <2>3, RecordFailureServes
  <2> QED
    BY <1>1, <2>1, <2>2, <2>3, NextServes
<1>2. IInv /\ CInv /\ [Next]_vars => [\A a \in Addresses : Locked(a) => RunsOut(a)]_vars
  BY <1>1
<1> QED
  BY <1>2, InitIInv, NextIInv, InitCInv, NextCInv, PTL DEF Spec, LockoutRunsOut

=============================================================================
