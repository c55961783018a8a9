------------------------------- MODULE WebAuth -------------------------------
(***************************************************************************)
(* How a suspect proves who he is on the web portal: the pages             *)
(* /suspect/auth and /suspect/send-otp (web/routes/suspect.py) with the    *)
(* chain of authenticators and the one-time codes (web/auth).              *)
(*                                                                         *)
(* One case, and several browsers, each with a session cookie of its own.  *)
(* Flask keeps the session in the cookie: a request works on the session   *)
(* the browser sent, and its answer replaces the whole of it.  Requests    *)
(* are served side by side, a step of one between two of another.          *)
(*                                                                         *)
(* Time passes in Ticks; failures and codes have ages in ticks.            *)
(***************************************************************************)
EXTENDS Naturals, Sequences, FiniteSets

CONSTANTS
    Browsers,
    Addresses,      \* client addresses, which browsers may share
    AddressOf,      \* [Browsers -> Addresses]
    Chain,          \* the case's auth_level: names of authenticators
    Kinds,          \* requests that are sent, see AllKinds
    Slots,          \* requests the server serves at a time
    Codes,          \* one-time codes, each with the uuid it is stored under
    Rows,           \* room for rows of auth_failures that still count
    MaxFailures,    \* AUTH_MAX_FAILURES
    Lockout,        \* AUTH_LOCKOUT_SECONDS
    Expiry,         \* OTP_EXPIRY_SECONDS
    Wrong,          \* digits of no code
    None

Factors == {Chain[n] : n \in DOMAIN Chain}

ASSUME ChainAssumption ==
    /\ Chain \in Seq({"basic", "password", "otp"})
    /\ \A m, n \in DOMAIN Chain : Chain[m] = Chain[n] => m = n
ASSUME AddressAssumption == AddressOf \in [Browsers -> Addresses]
ASSUME FiniteAssumption == IsFiniteSet(Slots) /\ IsFiniteSet(Rows) /\ Slots # {}
ASSUME LimitsAssumption ==
    MaxFailures \in Nat \ {0} /\ Lockout \in Nat \ {0} /\ Expiry \in Nat

VARIABLES
    cookie,         \* the session in each browser
    requests,       \* what each slot serves
    codes,          \* OTPService._store: the age of a stored code
    issued,         \* the browser that a code was drawn for
    inbox,          \* codes that arrived in the suspect's mailbox
    failures,       \* the table auth_failures
    grants          \* the authentications that succeeded, in order

vars == <<cookie, requests, codes, issued, inbox, failures, grants>>

-----------------------------------------------------------------------------

\* otp: the session id under otp_session_<seal_id>, None if no code was ever
\* stored under it; auth: auth_<seal_id>.
Sessions == [otp : Codes \cup {None}, auth : BOOLEAN]

AllKinds == {"view",        \* GET auth
             "submit",      \* POST auth
             "fetch",       \* POST send-otp by the page's script
             "form"}        \* POST send-otp by a plain form: redirected to view

\* right: the factors filled in correctly; otp: the digits typed, None for an
\* empty field; writes: the answer sets the cookie; sent: the code mailed.
Requests == [kind : AllKinds, browser : Browsers, session : Sessions,
             right : SUBSET {"basic", "password"}, otp : Codes \cup {Wrong, None},
             stage : {"check", "work", "mail", "fail", "answer"},
             writes : BOOLEAN, sent : Codes \cup {None}]

Failures == [address : Addresses, age : 0..Lockout]
Grants == [browser : Browsers, code : Codes \cup {None}]

ASSUME KindsAssumption == Kinds \subseteq AllKinds
ASSUME NoneAssumption ==
    /\ None \notin Codes \cup Requests \cup Browsers \cup Failures \cup Nat
    /\ Wrong \notin Codes \cup {None}

TypeOK ==
    /\ cookie \in [Browsers -> Sessions]
    /\ requests \in [Slots -> Requests \cup {None}]
    /\ codes \in [Codes -> 0..(Expiry + 1) \cup {None}]
    /\ issued \in [Codes -> Browsers \cup {None}]
    /\ inbox \subseteq Codes
    /\ failures \in [Rows -> Failures \cup {None}]
    /\ grants \in Seq(Grants)

Init ==
    /\ cookie = [b \in Browsers |-> [otp |-> None, auth |-> FALSE]]
    /\ requests = [q \in Slots |-> None]
    /\ codes = [c \in Codes |-> None] /\ issued = [c \in Codes |-> None]
    /\ inbox = {}
    /\ failures = [f \in Rows |-> None]
    /\ grants = <<>>

-----------------------------------------------------------------------------
(* Requests come in, and answers go out.                                   *)

Request(kind, b, s, right, otp, stage) ==
    [kind |-> kind, browser |-> b, session |-> s, right |-> right, otp |-> otp,
     stage |-> stage, writes |-> FALSE, sent |-> None]

FirstStage(kind) == IF kind \in {"fetch", "form"} THEN "work" ELSE "check"

\* The browser sends its cookie as it is now.
Send(q, b, kind, right, otp) ==
    /\ kind \in Kinds /\ requests[q] = None
    /\ requests' = [requests EXCEPT ![q] =
                       Request(kind, b, cookie[b], right, otp, FirstStage(kind))]
    /\ UNCHANGED <<cookie, codes, issued, inbox, failures, grants>>

Visit(q, b) == \E kind \in {"view", "fetch", "form"} : Send(q, b, kind, {}, None)

\* The form is filled in with what the person knows and received.
Submit(q, b) ==
    \E right \in SUBSET (Factors \ {"otp"}), otp \in inbox \cup {Wrong, None} :
       Send(q, b, "submit", right, otp)

Serving(q, stage) == requests[q] # None /\ requests[q].stage = stage

\* The answer to r is ready: the session it carries, whether it sets it.
Answer(r, s, writes) ==
    [kind |-> r.kind, browser |-> r.browser, session |-> s, right |-> {},
     otp |-> None, stage |-> "answer", writes |-> writes, sent |-> r.sent]

\* The redirect of a plain form is followed in the same slot.
Redirected(r) ==
    [kind |-> "view", browser |-> r.browser, session |-> r.session, right |-> {},
     otp |-> None, stage |-> "check", writes |-> FALSE, sent |-> r.sent]

Deliver(q) ==
    LET r == requests[q] IN
    /\ Serving(q, "answer")
    /\ cookie' = IF r.writes THEN [cookie EXCEPT ![r.browser] = r.session] ELSE cookie
    /\ requests' = [requests EXCEPT ![q] =
                       IF r.kind = "form" THEN Redirected(r) ELSE None]
    /\ UNCHANGED <<codes, issued, inbox, failures, grants>>

\* The browser has gone, or the connection.
Lose(q) ==
    /\ Serving(q, "answer")
    /\ requests' = [requests EXCEPT ![q] = None]
    /\ UNCHANGED <<cookie, codes, issued, inbox, failures, grants>>

-----------------------------------------------------------------------------
(* auth: the lockout, then the page or the chain.                          *)

\* count_recent_auth_failures.
Recent(a) == {f \in Rows : failures[f] # None /\ failures[f].address = a}

LockedLate(a) == Cardinality(Recent(a)) > MaxFailures      \* Faulty

Locked(a) == Cardinality(Recent(a)) >= MaxFailures

\* GET: a new session id replaces the one in the session, without a code.  A
\* page that shows messages of earlier answers takes them from the session, so
\* any answer may set the cookie.
Check(q) ==
    LET r == requests[q] IN
    /\ Serving(q, "check")
    /\ \E writes \in BOOLEAN : requests' = [requests EXCEPT ![q] =
          IF Locked(AddressOf[r.browser]) THEN Answer(r, r.session, TRUE)
          ELSE IF r.kind = "submit" THEN [r EXCEPT !.stage = "work"]
          ELSE IF "otp" \in Factors
               THEN Answer(r, [otp |-> None, auth |-> r.session.auth], TRUE)
               ELSE Answer(r, r.session, writes)]
    /\ UNCHANGED <<cookie, codes, issued, inbox, failures, grants>>

\* Faulty: any code that is stored will do.
MatchesAny(r) ==
    /\ r.otp \in Codes /\ codes[r.otp] # None /\ codes[r.otp] <= Expiry

\* verify_otp, once the code has been popped.
Matches(r) ==
    LET c == r.session.otp IN
    /\ c # None /\ r.otp = c
    /\ codes[c] # None /\ codes[c] <= Expiry

Passes(r, factor) == IF factor = "otp" THEN Matches(r) ELSE factor \in r.right

\* The chain stops at the first authenticator that fails; an empty one fails.
Succeeds(r) == Chain # <<>> /\ \A n \in DOMAIN Chain : Passes(r, Chain[n])

\* The authenticator of the code is reached and looks the code up.
Looks(r) ==
    /\ r.otp # None /\ r.session.otp # None
    /\ \E n \in DOMAIN Chain : Chain[n] = "otp" /\ \A m \in 1..(n - 1) : Passes(r, Chain[m])

\* Faulty: a code is removed once it has expired only.
PopExpired(r) ==
    codes' = IF Looks(r) /\ codes[r.session.otp] # None /\ codes[r.session.otp] > Expiry
             THEN [codes EXCEPT ![r.session.otp] = None] ELSE codes

\* The code is popped, whether it matches or not.
Pop(r) == codes' = IF Looks(r) THEN [codes EXCEPT ![r.session.otp] = None] ELSE codes

Grant(r) == [browser |-> r.browser, code |-> IF "otp" \in Factors THEN r.otp ELSE None]

\* Faulty: the session is marked before the chain has run.
AuthenticateEarly(q) ==
    LET r == requests[q]
        marked == [otp |-> r.session.otp, auth |-> TRUE] IN
    /\ Serving(q, "work") /\ r.kind = "submit"
    /\ Pop(r)
    /\ requests' = [requests EXCEPT ![q] =
          IF Succeeds(r) THEN Answer(r, marked, TRUE)
          ELSE [Request(r.kind, r.browser, marked, {}, None, "fail")
                  EXCEPT !.sent = r.sent]]
    /\ grants' = IF Succeeds(r) THEN Append(grants, Grant(r)) ELSE grants
    /\ UNCHANGED <<cookie, issued, inbox, failures>>

\* Faulty: what was typed is kept for the page in place of the session id.
AuthenticateRemembers(q) ==
    LET r == requests[q]
        typed == [otp |-> r.otp, auth |-> r.session.auth] IN
    /\ Serving(q, "work") /\ r.kind = "submit"
    /\ Pop(r)
    /\ requests' = [requests EXCEPT ![q] =
          IF Succeeds(r) THEN Answer(r, [otp |-> r.session.otp, auth |-> TRUE], TRUE)
          ELSE Request(r.kind, r.browser, typed, {}, None, "fail")]
    /\ grants' = IF Succeeds(r) THEN Append(grants, Grant(r)) ELSE grants
    /\ UNCHANGED <<cookie, issued, inbox, failures>>

Authenticate(q) ==
    LET r == requests[q] IN
    /\ Serving(q, "work") /\ r.kind = "submit"
    /\ Pop(r)
    /\ requests' = [requests EXCEPT ![q] =
          IF Succeeds(r) THEN Answer(r, [otp |-> r.session.otp, auth |-> TRUE], TRUE)
          ELSE Request(r.kind, r.browser, r.session, {}, None, "fail")]
    /\ grants' = IF Succeeds(r) THEN Append(grants, Grant(r)) ELSE grants
    /\ UNCHANGED <<cookie, issued, inbox, failures>>

FreeRow == CHOOSE f \in Rows : failures[f] = None

\* record_auth_failure, a transaction of its own, and the answer 401; if it
\* raises, an answer 500.
RecordFailure(q) ==
    LET r == requests[q] IN
    /\ Serving(q, "fail")
    /\ \/ /\ \E f \in Rows : failures[f] = None
          /\ failures' = [failures EXCEPT ![FreeRow] =
                             [address |-> AddressOf[r.browser], age |-> 0]]
          /\ requests' = [requests EXCEPT ![q] = Answer(r, r.session, TRUE)]
       \/ /\ UNCHANGED failures
          /\ \E writes \in BOOLEAN :
                requests' = [requests EXCEPT ![q] = Answer(r, r.session, writes)]
    /\ UNCHANGED <<cookie, codes, issued, inbox, grants>>

-----------------------------------------------------------------------------
(* send-otp.  It does not look at the lockout.                             *)

\* A fresh code under a fresh session id, before it is mailed.
StoreCode(q, c) ==
    LET r == requests[q] IN
    /\ Serving(q, "work") /\ r.kind \in {"fetch", "form"}
    /\ issued[c] = None
    /\ issued' = [issued EXCEPT ![c] = r.browser]
    /\ codes' = [codes EXCEPT ![c] = 0]
    /\ requests' = [requests EXCEPT ![q] =
          Request(r.kind, r.browser, [otp |-> c, auth |-> r.session.auth], {}, None, "mail")]
    /\ UNCHANGED <<cookie, inbox, failures, grants>>

\* The mail arrives or is lost, and sendmail and quit succeed or not.
MailCode(q) ==
    LET r == requests[q]
        c == r.session.otp IN
    /\ Serving(q, "mail")
    /\ inbox' \in {inbox, inbox \cup {c}}
    /\ \E sent \in {c, None} : requests' = [requests EXCEPT ![q] =
                                [Answer(r, r.session, TRUE) EXCEPT !.sent = sent]]
    /\ UNCHANGED <<cookie, codes, issued, failures, grants>>

-----------------------------------------------------------------------------

\* An age beyond the expiry is as good as another.
Older(age) == IF age > Expiry THEN age ELSE age + 1

\* Faulty: failures are counted without a window.
TickWithoutWindow ==
    /\ codes' = [c \in Codes |-> IF codes[c] = None THEN None ELSE Older(codes[c])]
    /\ UNCHANGED <<cookie, requests, issued, inbox, failures, grants>>

\* Rows older than the window are no longer counted; they are dropped here.
Tick ==
    /\ failures' = [f \in Rows |->
          IF failures[f] = None \/ failures[f].age + 1 >= Lockout THEN None
          ELSE [address |-> failures[f].address, age |-> failures[f].age + 1]]
    /\ codes' = [c \in Codes |-> IF codes[c] = None THEN None ELSE Older(codes[c])]
    /\ UNCHANGED <<cookie, requests, issued, inbox, grants>>

\* The codes are in memory.  Without FLASK_SECRET_KEY in the environment the
\* new process has a key of its own and no cookie is valid any more.
ServerRestart ==
    /\ requests' = [q \in Slots |-> None]
    /\ codes' = [c \in Codes |-> None]
    /\ \/ UNCHANGED cookie
       \/ cookie' = [b \in Browsers |-> [otp |-> None, auth |-> FALSE]]
    /\ UNCHANGED <<issued, inbox, failures, grants>>

Serve(q) ==
    \/ Check(q) \/ Authenticate(q) \/ RecordFailure(q)
    \/ MailCode(q) \/ \E c \in Codes : StoreCode(q, c)

Next ==
    \/ \E q \in Slots : \/ \E b \in Browsers : Visit(q, b) \/ Submit(q, b)
                        \/ Serve(q) \/ Deliver(q) \/ Lose(q)
    \/ Tick \/ ServerRestart

Spec == Init /\ [][Next]_vars

\* Time passes, whatever the server and the browsers do.
FairSpec == Spec /\ WF_vars(Tick)

-----------------------------------------------------------------------------
(* What holds.                                                             *)

\* The count and the row of a failure are two transactions, so requests that
\* are served together may all pass the check: the limit of AUTH_MAX_FAILURES
\* is exceeded, but by no more than the other requests in service.
FailureBound ==
    \A a \in Addresses : Cardinality(Recent(a)) <= MaxFailures - 1 + Cardinality(Slots)

\* A code lets at most one request in, although two of them may carry the
\* same session and the same digits (test_auth_chain: "Second verify:
\* consumed, fails"), also after restarts and lost answers; and that one is of
\* the browser the code was drawn for, whatever else is in the mailbox.
CodeForOne ==
    \A n \in DOMAIN grants : grants[n].code # None =>
       /\ issued[grants[n].code] = grants[n].browser
       /\ \A m \in DOMAIN grants : grants[m].code = grants[n].code => m = n

\* A browser's session, and any answer under way that would set it, says
\* authenticated only if the chain passed for that browser.
Earned(b, s) == s.auth => \E n \in DOMAIN grants : grants[n].browser = b
AuthEarned ==
    /\ \A b \in Browsers : Earned(b, cookie[b])
    /\ \A q \in Slots : requests[q] # None => Earned(requests[q].browser, requests[q].session)

\* A lockout ends by itself, even for someone who keeps trying: refused
\* attempts are not counted, and those in service when it began run out.
LockoutEnds == \A a \in Addresses : Locked(a) ~> ~Locked(a)

=============================================================================
