-------------------------- MODULE KeyCustodyProofs --------------------------
(***************************************************************************)
(* The keys from the sealing to the recovery, for every number of seals,   *)
(* splits, keys, databases and requests.                                   *)
(*                                                                         *)
(* The strengthening follows the state of the seal process from step to    *)
(* step.  A step that runs, or failed and may be repeated, is one that the *)
(* process is at; Progress says what is in the state when it is at each.   *)
(* Newest says that the last key drawn is that of the container unless S1  *)
(* did not finish with it.  Together they keep the parts of a bundle of    *)
(* one key.  For the recovery, OneSplit says that a seal id has one split, *)
(* that of the bundle stored, however often S7 is repeated.                *)
(***************************************************************************)
EXTENDS KeyCustody, TLAPS

At(p) == pc = p \/ (pc = "idle" /\ failed = p)

\* S5, S6 or S7 is to come: the record describes the key of s1.
Described == At("s5") \/ At("s6") \/ At("s7") \/ pc = "answer"

Progress ==
    /\ At("s4") => state.s1 # 0
    /\ Described => /\ state.s1 # 0 /\ state.described = state.s1
                    /\ state.seal # 0
    /\ At("s5") \/ At("s6") => ~Stored(state.seal)
    /\ At("s7") \/ pc = "answer" =>
          /\ state.s6 \in 1..Len(splits) /\ splits[state.s6] = state.described
          /\ Stored(state.seal) => bundles[state.seal].split = state.s6
    /\ pc = "answer" => Stored(state.seal)

Newest ==
    /\ state.s1 <= drawn /\ state.described <= drawn
    /\ pc = "s1" => state.s1 < drawn
    /\ state.s1 = drawn => container = drawn
    /\ \A s \in Seals :
          /\ bundles[s].described <= drawn
          /\ pc = "s1" => bundles[s].described < drawn
          /\ Stored(s) /\ bundles[s].described = drawn => container = drawn

OneSplit ==
    /\ state.seal <= seals
    /\ \A s \in Seals :
          /\ Stored(s) => /\ s <= seals
                          /\ bundles[s].split \in 1..Len(splits)
                          /\ splits[bundles[s].split] = bundles[s].described
          /\ \A n \in handed[s] : Stored(s) /\ n = bundles[s].split
    /\ state.seal # 0 /\ Stored(state.seal) =>
          bundles[state.seal].described = state.described

SealInv == SealTypeOK /\ Progress /\ Newest /\ OneSplit

IInv == SealInv /\ PortalTypeOK /\ RecoversKey

-----------------------------------------------------------------------------
(* The sealing.                                                            *)

LEMMA SealInitInv == SealInit => SealInv
<1> SUFFICES ASSUME SealInit PROVE SealInv
  OBVIOUS
<1> USE KeySharesAssumption, MaxKeysAssumption DEF SealInit
<1>1. state \in States /\ NoBundle \in Bundles
  BY DEF NoState, States, NoBundle, Bundles
<1>2. SealTypeOK
  BY <1>1 DEF SealTypeOK, Seals, Steps
<1>3. Progress
  BY DEF Progress, Described, At
<1>4. Newest
  BY DEF Newest, Stored, NoState, NoBundle, Seals
<1>5. OneSplit
  BY DEF OneSplit, Stored, NoState, NoBundle, Seals
<1> QED
  BY <1>2, <1>3, <1>4, <1>5 DEF SealInv

\* The fields of the state and of a bundle.
LEMMA Fields ==
  ASSUME SealTypeOK
  PROVE  /\ state.s1 \in Nat /\ state.described \in Nat /\ state.seal \in Nat
         /\ state.s6 \in Nat /\ drawn \in Nat /\ container \in Nat /\ seals \in Nat
         /\ Len(splits) \in Nat
         /\ \A s \in Seals : bundles[s].described \in Nat /\ bundles[s].split \in Nat
  BY KeySharesAssumption, MaxKeysAssumption DEF SealTypeOK, States, Bundles, Seals

LEMMA StartS1Inv == ASSUME SealInv, StartS1 PROVE SealInv'
<1> USE DEF StartS1
<1>0. SealTypeOK
  BY DEF SealInv
<1>1. SealTypeOK'
  <2>1. drawn' \in 0..MaxKeys /\ container' \in 0..drawn'
    BY <1>0, MaxKeysAssumption DEF SealTypeOK
  <2>2. splits \in Seq(1..drawn')
    <3>1. \A i \in 1..Len(splits) : splits[i] \in 1..drawn'
      BY <1>0, MaxKeysAssumption DEF SealTypeOK
    <3> QED
      BY <1>0, <3>1 DEF SealTypeOK
  <2> QED
    BY <1>0, <2>1, <2>2 DEF SealTypeOK
<1>2. Progress'
  BY DEF SealInv, Progress, Described, At, Stored
<1>3. Newest'
  BY <1>0, Fields DEF SealInv, Newest, Stored
<1>4. OneSplit'
  BY DEF SealInv, OneSplit, Stored
<1> QED
  BY <1>1, <1>2, <1>3, <1>4 DEF SealInv

LEMMA EndS1Inv == ASSUME SealInv, EndS1 PROVE SealInv'
<1> USE DEF EndS1
<1>0. SealTypeOK /\ state' = [state EXCEPT !.s1 = drawn]
  BY DEF SealInv
<1>s. /\ state' \in States /\ state'.s1 = drawn /\ state'.described = state.described
      /\ state'.seal = state.seal /\ state'.s6 = state.s6
  BY <1>0 DEF SealTypeOK, States
<1>1. SealTypeOK'
  BY <1>0, <1>s, Fields DEF SealTypeOK, Steps
<1>2. Progress'
  BY DEF Progress, Described, At
<1>3. Newest'
  BY <1>0, <1>s, Fields DEF SealInv, Newest, Stored
<1>4. OneSplit'
  BY <1>s DEF SealInv, OneSplit, Stored
<1> QED
  BY <1>1, <1>2, <1>3, <1>4 DEF SealInv

LEMMA FailS1Inv == ASSUME SealInv, FailS1 PROVE SealInv'
<1> USE DEF FailS1
<1>0. SealTypeOK
  BY DEF SealInv
<1>1. SealTypeOK'
  BY <1>0, Fields DEF SealTypeOK, Steps
<1>2. Progress'
  BY DEF Progress, Described, At
<1>3. Newest'
  BY <1>0, Fields DEF SealInv, Newest, Stored
<1>4. OneSplit'
  BY DEF SealInv, OneSplit, Stored
<1> QED
  BY <1>1, <1>2, <1>3, <1>4 DEF SealInv

\* Beginning at S4, the repetition of a step and the failure of one: nothing
\* but pc and failed changes.
LEMMA MoveInv == ASSUME SealInv, Begin \/ Retry \/ Fail PROVE SealInv'
<1> USE DEF Begin, Retry, Fail, Steps
<1>0. UNCHANGED <<drawn, container, splits, seals, state, bundles, handed>>
  OBVIOUS
<1>1. SealTypeOK'
  BY <1>0 DEF SealInv, SealTypeOK
<1>2. Progress'
  BY <1>0 DEF SealInv, Progress, Described, At, Stored
<1>3. Newest' /\ OneSplit'
  BY <1>0 DEF SealInv, Newest, OneSplit, Stored
<1> QED
  BY <1>1, <1>2, <1>3 DEF SealInv

LEMMA RunS4Inv == ASSUME SealInv, RunS4 PROVE SealInv'
<1> USE DEF RunS4
<1>0. SealTypeOK /\ state.s1 # 0
  BY DEF SealInv, Progress, At
<1>s. /\ state' \in States /\ state'.s1 = state.s1 /\ state'.described = state.s1
      /\ state'.seal = seals + 1 /\ state'.s6 = state.s6
  <2>1. seals + 1 \in 0..MaxSeals
    BY <1>0, KeySharesAssumption DEF SealTypeOK
  <2> QED
    BY <1>0, <2>1 DEF SealRecord, SealTypeOK, States
<1>1. SealTypeOK'
  BY <1>0, <1>s, KeySharesAssumption DEF SealTypeOK, Steps
<1>n. ~Stored(seals + 1) /\ seals + 1 # 0
  BY <1>0, Fields, KeySharesAssumption DEF SealInv, OneSplit, Seals
<1>2. Progress'
  BY <1>0, <1>s, <1>n DEF Progress, Described, At, Stored
<1>3. Newest'
  BY <1>s DEF SealInv, Newest, Stored
<1>4. OneSplit'
  BY <1>0, <1>s, <1>n, Fields DEF SealInv, OneSplit, Stored, Seals
<1> QED
  BY <1>1, <1>2, <1>3, <1>4 DEF SealInv

LEMMA RunS5Inv == ASSUME SealInv, RunS5 PROVE SealInv'
<1> USE DEF RunS5
<1>0. SealTypeOK
  BY DEF SealInv
<1>s. /\ state' \in States /\ state'.s1 = state.s1 /\ state'.described = state.described
      /\ state'.seal = state.seal /\ state'.s6 = state.s6
  BY <1>0 DEF SealTypeOK, States
<1>1. SealTypeOK'
  BY <1>0, <1>s DEF SealTypeOK, Steps
<1>2. Progress'
  BY <1>s DEF SealInv, Progress, Described, At, Stored
<1>3. Newest' /\ OneSplit'
  BY <1>s DEF SealInv, Newest, OneSplit, Stored
<1> QED
  BY <1>1, <1>2, <1>3 DEF SealInv

LEMMA RunS6Inv == ASSUME SealInv, RunS6 PROVE SealInv'
<1> USE DEF RunS6
<1>0. SealTypeOK /\ state.s1 # 0 /\ state.s1 <= drawn
  BY DEF SealInv, Progress, Described, At, Newest
<1>s. /\ state' \in States /\ state'.s1 = state.s1 /\ state'.described = state.described
      /\ state'.seal = state.seal /\ state'.s6 = Len(splits) + 1
  <2>1. Len(splits) + 1 \in 0..MaxSplits
    BY <1>0, Fields, KeySharesAssumption
  <2> QED
    BY <1>0, <2>1 DEF SealTypeOK, States
<1>p. /\ splits' \in Seq(1..drawn) /\ Len(splits') = Len(splits) + 1
      /\ splits'[Len(splits) + 1] = state.s1
      /\ \A i \in 1..Len(splits) : splits'[i] = splits[i]
  <2>1. state.s1 \in 1..drawn /\ splits \in Seq(1..drawn)
    BY <1>0, Fields DEF SealTypeOK
  <2> QED
    BY <2>1 DEF SplitKey
<1>1. SealTypeOK'
  <2>1. Len(splits') <= MaxSplits
    BY <1>0, <1>p, Fields, KeySharesAssumption
  <2>2. handed' \in [Seals -> SUBSET (1..Len(splits'))]
    BY <1>0, <1>p, Fields DEF SealTypeOK
  <2> QED
    BY <1>0, <1>s, <1>p, <2>1, <2>2 DEF SealTypeOK, Steps
<1>2. Progress'
  BY <1>0, <1>s, <1>p, Fields DEF SealInv, Progress, Described, At, Stored
<1>3. Newest'
  BY <1>s DEF SealInv, Newest, Stored
<1>4. OneSplit'
  <2>1. ASSUME NEW n \in 1..Len(splits) PROVE n \in 1..Len(splits') /\ splits'[n] = splits[n]
    BY <1>0, <1>p, Fields
  <2>2. ASSUME NEW s \in Seals, Stored(s)
        PROVE  /\ s <= seals /\ bundles[s].split \in 1..Len(splits')
               /\ splits'[bundles[s].split] = bundles[s].described
    BY <2>1, <2>2 DEF SealInv, OneSplit
  <2> QED
    BY <1>s, <2>2 DEF SealInv, OneSplit, Stored
<1> QED
  BY <1>1, <1>2, <1>3, <1>4 DEF SealInv

LEMMA RunS7Inv == ASSUME SealInv, RunS7 PROVE SealInv'
<1> USE DEF RunS7
<1>0. /\ SealTypeOK /\ state.s1 # 0 /\ state.described = state.s1 /\ state.seal \in Seals
      /\ state.s6 \in 1..Len(splits) /\ splits[state.s6] = state.described
  BY KeySharesAssumption DEF SealInv, SealTypeOK, States, Seals, Progress, Described, At
<1> DEFINE b == [described |-> state.described, split |-> state.s6]
<1>b. /\ bundles' \in [Seals -> Bundles] /\ bundles'[state.seal] = b
      /\ \A s \in Seals : s # state.seal => bundles'[s] = bundles[s]
  BY <1>0 DEF SealTypeOK, States, Bundles
<1>k. /\ b.described = state.described /\ b.split = state.s6
  OBVIOUS
<1> HIDE DEF b
<1>1. SealTypeOK'
  BY <1>0, <1>b DEF SealTypeOK, Steps
<1>2. Progress'
  BY <1>0, <1>b, <1>k DEF SealInv, Progress, Described, At, Stored
<1>3. Newest'
  BY <1>0, <1>b, <1>k, Fields DEF SealInv, Newest, Stored
<1>4. OneSplit'
  <2>1. Stored(state.seal) => bundles[state.seal].split = state.s6
    BY DEF SealInv, Progress, At
  <2> QED
    BY <1>0, <1>b, <1>k, <2>1 DEF SealInv, OneSplit, Stored
<1> QED
  BY <1>1, <1>2, <1>3, <1>4 DEF SealInv

LEMMA AnswerInv == ASSUME SealInv, Answer PROVE SealInv'
<1> USE DEF Answer
<1>0. /\ SealTypeOK /\ state.seal \in Seals /\ Stored(state.seal)
      /\ state.s6 \in 1..Len(splits) /\ state.s6 = bundles[state.seal].split
  BY KeySharesAssumption DEF SealInv, SealTypeOK, States, Seals, Progress, Described, At
<1>h. /\ handed' \in [Seals -> SUBSET (1..Len(splits))]
      /\ handed'[state.seal] = handed[state.seal] \cup {state.s6}
      /\ \A s \in Seals : s # state.seal => handed'[s] = handed[s]
  BY <1>0 DEF SealTypeOK
<1>1. SealTypeOK'
  BY <1>0, <1>h DEF SealTypeOK, Steps
<1>2. Progress'
  BY DEF SealInv, Progress, Described, At, Stored
<1>3. Newest'
  BY DEF SealInv, Newest, Stored
<1>4. OneSplit'
  BY <1>0, <1>h DEF SealInv, OneSplit, Stored
<1> QED
  BY <1>1, <1>2, <1>3, <1>4 DEF SealInv

LEMMA RestartInv == ASSUME SealInv, Restart PROVE SealInv'
<1> USE DEF Restart
<1>0. SealTypeOK
  BY DEF SealInv
<1>s. NoState \in States /\ NoState.s1 = 0 /\ NoState.described = 0 /\ NoState.seal = 0
  BY KeySharesAssumption, MaxKeysAssumption DEF NoState, States
<1>c. container' = container \/ (pc = "s1" /\ container' = 0)
  OBVIOUS
<1>1. SealTypeOK'
  BY <1>0, <1>s, <1>c, Fields DEF SealTypeOK, Steps
<1>2. Progress'
  BY DEF Progress, Described, At
<1>3. Newest'
  BY <1>0, <1>s, <1>c, Fields DEF SealInv, Newest, Stored, SealTypeOK
<1>4. OneSplit'
  BY <1>0, <1>s, Fields DEF SealInv, OneSplit, Stored
<1> QED
  BY <1>1, <1>2, <1>3, <1>4 DEF SealInv

LEMMA SealNextInv == ASSUME SealInv, SealNext PROVE SealInv'
BY StartS1Inv, EndS1Inv, FailS1Inv, MoveInv, RunS4Inv, RunS5Inv, RunS6Inv,
   RunS7Inv, AnswerInv, RestartInv DEF SealNext

\* A stored bundle is of one key, and its container is on disk or given up.
LEMMA BundleOpensFromSealInv == SealInv => BundleOpens
<1> SUFFICES ASSUME SealInv PROVE BundleOpens
  OBVIOUS
<1>1. SealTypeOK
  BY DEF SealInv
<1> QED
  BY <1>1, Fields DEF SealInv, BundleOpens, OneSplit, Newest

-----------------------------------------------------------------------------
(* The portal.                                                             *)

\* What an answer is about can be told from its fields.
LEMMA AnswersApart ==
         /\ \A a \in Successes : a \notin Recovered /\ a # None
         /\ \A a \in Recovered : a # None
         /\ \A k \in CaseKeys : k \notin ShareKeys /\ k \notin RecordKeys
         /\ \A k \in ShareKeys : k \notin CaseKeys /\ k \notin RecordKeys
         /\ \A k \in RecordKeys : k \notin CaseKeys /\ k \notin ShareKeys
<1>1. \A a \in Successes : DOMAIN a = {"key", "value"}
  BY DEF Successes
<1>2. \A a \in Recovered : DOMAIN a = {"seal", "first", "second"}
  BY DEF Recovered
<1>3. \A k \in CaseKeys : DOMAIN k = {"db", "seal"}
  BY DEF CaseKeys
<1>4. \A k \in ShareKeys : DOMAIN k = {"db", "seal", "index"}
  BY DEF ShareKeys
<1>5. \A k \in RecordKeys : DOMAIN k = {"db", "seal", "event"}
  BY DEF RecordKeys
<1>6. \A a \in Successes \cup Recovered : a # None
  BY NoneAssumption
<1> QED
  BY <1>1, <1>2, <1>3, <1>4, <1>5, <1>6

LEMMA SuccessFields ==
  ASSUME NEW k, NEW v,
         \/ k \in CaseKeys \cup RecordKeys /\ v \in Forms
         \/ k \in ShareKeys /\ v \in Share
  PROVE  /\ [key |-> k, value |-> v] \in Successes
         /\ [key |-> k, value |-> v].key = k
BY DEF Successes

\* No key is shown.
NoKeyShown == answer \in Successes \cup {None}

LEMMA SendRegistrationTyped ==
  ASSUME PortalTypeOK, NEW q \in Slots, Register(q) 
  PROVE  PortalTypeOK' /\ NoKeyShown'
<1> PICK key \in CaseKeys, form \in Forms : SendRegistration(q, key, form)
  BY DEF Register
<1>1. [key |-> key, value |-> form, looked |-> FALSE] \in Registrations
  BY DEF Registrations
<1> QED
  BY <1>1 DEF SendRegistration, PortalTypeOK, NoKeyShown, tables

LEMMA ServeTyped ==
  ASSUME PortalTypeOK, NEW q \in Slots, Serve(q) 
  PROVE  PortalTypeOK' /\ NoKeyShown'
<1>0. requests[q] \in Registrations
  BY DEF Serve, LookUp, InsertCase, Abort, PortalTypeOK
<1>1. CASE LookUp(q)
  <2> DEFINE r == IF cases[requests[q].key] = None
                  THEN [requests[q] EXCEPT !.looked = TRUE] ELSE None
  <2>1. requests' = [requests EXCEPT ![q] = r] /\ answer' = None /\ UNCHANGED tables
    BY <1>1 DEF LookUp
  <2>2. \A w \in BOOLEAN : [requests[q] EXCEPT !.looked = w] \in Registrations
    BY <1>0 DEF Registrations
  <2>3. r \in Registrations \cup {None}
    BY <2>2
  <2> HIDE DEF r
  <2> QED
    BY <2>1, <2>3 DEF PortalTypeOK, NoKeyShown, tables
<1>2. CASE InsertCase(q)
  <2>1. requests[q].key \in CaseKeys /\ requests[q].value \in Forms
    BY <1>0 DEF Registrations
  <2>2. answer' \in Successes \cup {None}
    BY <1>2, <2>1, SuccessFields DEF InsertCase, AnswerTo
  <2>3. cases' \in [CaseKeys -> Forms \cup {None}]
    BY <1>2, <2>1 DEF InsertCase, PortalTypeOK
  <2>4. requests' \in [Slots -> Registrations \cup {None}]
    BY <1>2 DEF InsertCase, PortalTypeOK
  <2> QED
    BY <1>2, <2>2, <2>3, <2>4 DEF InsertCase, PortalTypeOK, NoKeyShown
<1>3. CASE Abort(q)
  BY <1>3 DEF Abort, PortalTypeOK, NoKeyShown, tables
<1> QED
  BY <1>1, <1>2, <1>3 DEF Serve

LEMMA InsertShareTyped ==
  ASSUME PortalTypeOK, NEW key \in ShareKeys, NEW share \in Share,
         InsertShare(key, share)
  PROVE  PortalTypeOK' /\ NoKeyShown'
<1>1. answer' \in Successes \cup {None}
  BY SuccessFields DEF InsertShare, AnswerTo
<1>2. shares' \in [ShareKeys -> Share \cup {None}]
  BY DEF InsertShare, PortalTypeOK
<1> QED
  BY <1>1, <1>2 DEF InsertShare, PortalTypeOK, NoKeyShown

LEMMA UploadRecordTyped ==
  ASSUME PortalTypeOK, NEW key \in RecordKeys, NEW form \in Forms,
         UploadRecord(key, form)
  PROVE  PortalTypeOK' /\ NoKeyShown'
<1>1. answer' \in Successes \cup {None}
  BY SuccessFields DEF UploadRecord, AnswerTo
<1>2. records' \in [RecordKeys -> Forms \cup {None}]
  BY DEF UploadRecord, InsertRecord, PortalTypeOK
<1> QED
  BY <1>1, <1>2 DEF UploadRecord, PortalTypeOK, NoKeyShown

\* A key is shown of two shares of one seal id that are in the table.
LEMMA Shown ==
  ASSUME PortalTypeOK, NEW db \in Databases, NEW s \in Typed,
         Recover(db, s) \/ EmergencyRecover(db, s)
  PROVE  /\ answer' \in Recovered /\ answer'.seal = s
         /\ answer'.first.index # answer'.second.index
         /\ UNCHANGED <<tables, requests>>
<1>1. PICK i, j \in Indexes(db, s) : ShowKey(db, s, i, j)
  BY DEF Recover, EmergencyRecover
<1> DEFINE a == shares[[db |-> db, seal |-> s, index |-> i]]
           b == shares[[db |-> db, seal |-> s, index |-> j]]
<1>2. a \in Share /\ b \in Share
  BY <1>1 DEF Indexes, PortalTypeOK, ShareKeys
<1>3. answer' = [seal |-> s, first |-> a, second |-> b] /\ a.index # b.index
      /\ UNCHANGED <<tables, requests>>
  BY <1>1 DEF ShowKey
<1> HIDE DEF a, b
<1> QED
  BY <1>2, <1>3 DEF Recovered

-----------------------------------------------------------------------------
(* Both together.                                                          *)

\* What is uploaded are shares of splits that were made.
LEMMA UploadsShare ==
  ASSUME SealInv, Upload \/ Deposit
  PROVE  \E key \in ShareKeys, share \in Share : InsertShare(key, share)
<1>1. \A n \in 1..MaxSplits, i \in 1..4 : [split |-> n, index |-> i] \in Share
  BY DEF Share
<1>2. \A key \in ShareKeys : key.seal \in Seals /\ key.index \in 1..4
  BY TypedAssumption DEF ShareKeys
<1>3. \A s \in Seals : handed[s] \subseteq 1..MaxSplits
  BY Fields, KeySharesAssumption DEF SealInv, SealTypeOK
<1>4. CASE Upload
  BY <1>1, <1>2, <1>3, <1>4 DEF Upload, UploadShare
<1>5. CASE Deposit
  <2>1. PICK key \in ShareKeys : \E n \in handed[key.seal] :
           DepositShare4(key, [split |-> n, index |-> 4])
    BY <1>5 DEF Deposit
  <2> QED
    BY <1>1, <1>2, <1>3, <2>1 DEF DepositShare4
<1> QED
  BY <1>4, <1>5

LEMMA UploadTyped == ASSUME SealInv, PortalTypeOK, Upload \/ Deposit
  PROVE  PortalTypeOK' /\ NoKeyShown'
BY UploadsShare, InsertShareTyped

\* The shares handed out with a seal id are of one split, so that any two of
\* them give the key of the bundle.
LEMMA RecoversFromOneSplit ==
  ASSUME SealInv, NEW s \in Seals, NEW a, NEW b, a.index # b.index,
         {a.split, b.split} \subseteq handed[s]
  PROVE  Stored(s) /\ RecoverKey(splits, a, b) = bundles[s].described
<1>1. Stored(s) /\ a.split = bundles[s].split /\ b.split = bundles[s].split
  BY DEF SealInv, OneSplit
<1>2. splits[bundles[s].split] = bundles[s].described
  BY <1>1 DEF SealInv, OneSplit
<1> QED
  BY <1>1, <1>2 DEF RecoverKey

\* A step of the portal answers no key, or one that is shown (Shown).
LEMMA PortalSteps ==
  ASSUME SealInv, PortalTypeOK, Portal
  PROVE  \/ PortalTypeOK' /\ NoKeyShown'
         \/ /\ answer' \in Recovered /\ answer'.seal \in Typed
            /\ answer'.first.index # answer'.second.index
            /\ UNCHANGED <<tables, requests>>
<1>1. CASE \E q \in Slots : Register(q) \/ Serve(q)
  BY <1>1, SendRegistrationTyped, ServeTyped
<1>2. CASE Upload \/ Deposit
  BY <1>2, UploadTyped
<1>3. CASE \E key \in RecordKeys, form \in Forms : UploadRecord(key, form)
  BY <1>3, UploadRecordTyped
<1>4. CASE \E db \in Databases, s \in Typed : Recover(db, s) \/ EmergencyRecover(db, s)
  BY <1>4, Shown
<1> QED
  BY <1>1, <1>2, <1>3, <1>4 DEF Portal

LEMMA PortalIInv == ASSUME IInv, Portal PROVE IInv'
<1>1. SealInv'
  BY DEF IInv, Portal, sealVars, SealInv, SealTypeOK, Progress, Described, At, Newest,
     OneSplit, Stored
<1>2. CASE PortalTypeOK' /\ NoKeyShown'
  <2>1. answer' \notin Recovered
    BY <1>2, AnswersApart DEF NoKeyShown
  <2> QED
    BY <1>1, <1>2, <2>1 DEF IInv, RecoversKey
<1>3. CASE /\ answer' \in Recovered /\ answer'.seal \in Typed
           /\ answer'.first.index # answer'.second.index
           /\ UNCHANGED <<tables, requests>>
  <2>1. PortalTypeOK'
    BY <1>3 DEF IInv, PortalTypeOK, tables
  <2>2. answer'.seal \in Seals /\ UNCHANGED <<splits, handed, bundles>>
    BY <1>3, TypedAssumption DEF Portal, sealVars
  <2>3. {answer'.first.split, answer'.second.split} \subseteq handed[answer'.seal] =>
           /\ Stored(answer'.seal)
           /\ RecoverKey(splits, answer'.first, answer'.second) = bundles[answer'.seal].described
    BY <1>3, <2>2, RecoversFromOneSplit DEF IInv
  <2>4. RecoversKey'
    BY <2>2, <2>3 DEF RecoversKey, Stored
  <2> QED
    BY <1>1, <2>1, <2>4 DEF IInv
<1> QED
  BY <1>2, <1>3, PortalSteps DEF IInv

LEMMA SealIInv == ASSUME IInv, Seal PROVE IInv'
<1>1. SealInv'
  BY SealNextInv DEF IInv, Seal
<1>2. PortalTypeOK'
  BY DEF IInv, Seal, PortalTypeOK, tables
<1>3. RecoversKey'
  BY AnswersApart DEF Seal, RecoversKey
<1> QED
  BY <1>1, <1>2, <1>3 DEF IInv

LEMMA NextIInv == IInv /\ [Next]_vars => IInv'
<1>1. ASSUME IInv, UNCHANGED vars PROVE IInv'
  BY <1>1 DEF IInv, vars, sealVars, portalVars, tables, SealInv, SealTypeOK, Progress,
     Described, At, Newest, OneSplit, Stored, PortalTypeOK, RecoversKey
<1> QED
  BY <1>1, SealIInv, PortalIInv DEF Next

LEMMA InitIInv == Init => IInv
<1> SUFFICES ASSUME Init PROVE IInv
  OBVIOUS
<1>1. SealInv
  BY SealInitInv DEF Init
<1>2. PortalTypeOK
  BY DEF Init, PortalInit, PortalTypeOK
<1>3. RecoversKey
  BY <1>2, AnswersApart DEF Init, PortalInit, RecoversKey
<1> QED
  BY <1>1, <1>2, <1>3 DEF IInv

\* The strengthened invariant holds throughout.
THEOREM Invariance == Spec => []IInv
BY InitIInv, NextIInv, PTL DEF Spec

-----------------------------------------------------------------------------

\* Every variable of the sealing and of the portal keeps its type.
THEOREM TypeCorrect == Spec => []TypeOK
<1>1. IInv => TypeOK
  BY DEF IInv, SealInv, TypeOK
<1> QED
  BY <1>1, Invariance, PTL

\* Whatever step fails, is repeated or is interrupted, the shares of a stored
\* bundle are of the key of the container that its record describes, and that
\* container lies on disk unless S1 was run again (run_s1 to run_s7).
THEOREM BundleOpensCorrect == Spec => []BundleOpens
<1>1. IInv => BundleOpens
  BY BundleOpensFromSealInv DEF IInv
<1> QED
  BY <1>1, Invariance, PTL

\* The key that the portal recovers from shares handed out with a seal id is
\* that of the container of the id's record (run_s7 against recover_key).
THEOREM RecoversKeyCorrect == Spec => []RecoversKey
<1>1. IInv => RecoversKey
  BY DEF IInv
<1> QED
  BY <1>1, Invariance, PTL

-----------------------------------------------------------------------------
(* The tables are ledgers.                                                 *)

\* Who is told of a success that a step may have answered.
LEMMA ToldOf ==
  ASSUME NEW K, NEW k, NEW v, AnswerTo(k, v),
         \/ k \in CaseKeys \cup RecordKeys /\ v \in Forms
         \/ k \in ShareKeys /\ v \in Share
  PROVE  Told(K)' = None \/ (k \in K /\ Told(K)' = [key |-> k, value |-> v])
BY SuccessFields, AnswersApart DEF Told, AnswerTo

\* And of a record that can be relied on.
LEMMA ToldRecord ==
  ASSUME NEW k, NEW v, AnswerTo(k, v),
         \/ k \in CaseKeys \cup RecordKeys /\ v \in Forms
         \/ k \in ShareKeys /\ v \in Share
  PROVE  \/ Told(ReliableRecordKeys)' = None
         \/ /\ k \in RecordKeys /\ k \in ReliableRecordKeys'
            /\ Told(ReliableRecordKeys)' = [key |-> k, value |-> v]
BY SuccessFields, AnswersApart DEF Told, AnswerTo, ReliableRecordKeys

LEMMA ToldNothing ==
  ASSUME NEW K, answer' \notin Successes
  PROVE  Told(K)' = None /\ Told(ReliableRecordKeys)' = None
BY DEF Told

LEMMA CasesInitially == Init => CaseLedger!Init
BY AnswersApart DEF Init, PortalInit, CaseLedger!Init, Told

LEMMA SharesInitially == Init => ShareLedger!Init
BY AnswersApart DEF Init, PortalInit, ShareLedger!Init, Told

LEMMA RecordsInitially == Init => RecordLedger!Init
BY AnswersApart DEF Init, PortalInit, RecordLedger!Init, Told

\* Steps that answer no success and leave the tables.
LEMMA NothingTold ==
  ASSUME answer' \notin Successes, UNCHANGED tables
  PROVE  CaseLedger!Next /\ ShareLedger!Next /\ RecordLedger!Next
BY ToldNothing DEF tables, CaseLedger!Next, ShareLedger!Next, RecordLedger!Next

LEMMA RegisterServeLedger ==
  ASSUME PortalTypeOK, NEW q \in Slots, Register(q) \/ Serve(q)
  PROVE  CaseLedger!Next /\ ShareLedger!Next /\ RecordLedger!Next
<1>1. CASE Register(q) \/ LookUp(q) \/ Abort(q)
  <2>1. answer' \notin Successes /\ UNCHANGED tables
    BY <1>1, AnswersApart DEF Register, SendRegistration, LookUp, Abort
  <2> QED
    BY <2>1, NothingTold
<1>2. CASE InsertCase(q)
  <2>1. PICK k \in CaseKeys, v \in Forms : k = requests[q].key /\ v = requests[q].value
    BY <1>2 DEF InsertCase, PortalTypeOK, Registrations
  <2>2. CASE cases[k] # None
    <3>1. answer' \notin Successes /\ UNCHANGED tables
      BY <1>2, <2>1, <2>2, AnswersApart DEF InsertCase, tables
    <3> QED
      BY <3>1, NothingTold
  <2>3. CASE cases[k] = None
    <3>1. /\ cases' = [cases EXCEPT ![k] = v] /\ AnswerTo(k, v)
          /\ UNCHANGED <<shares, records>>
      BY <1>2, <2>1, <2>3 DEF InsertCase
    <3>2. CaseLedger!Enter(k, v) /\ CaseLedger!Holds(k, v)'
      BY <2>3, <3>1 DEF CaseLedger!Enter, CaseLedger!Holds, PortalTypeOK
    <3>3. Told(CaseKeys)' = None \/ CaseLedger!Tell(k, v)
      BY <3>1, <3>2, ToldOf DEF CaseLedger!Tell
    <3>4. Told(ShareKeys)' = None /\ Told(ReliableRecordKeys)' = None
      BY <3>1, ToldOf, ToldRecord, AnswersApart
    <3> QED
      BY <3>1, <3>2, <3>3, <3>4
      DEF CaseLedger!Next, ShareLedger!Next, RecordLedger!Next
  <2> QED
    BY <2>2, <2>3
<1> QED
  BY <1>1, <1>2 DEF Serve

LEMMA InsertShareLedger ==
  ASSUME PortalTypeOK, NEW k \in ShareKeys, NEW v \in Share, InsertShare(k, v)
  PROVE  CaseLedger!Next /\ ShareLedger!Next /\ RecordLedger!Next
<1>1. UNCHANGED <<cases, records>> /\ AnswerTo(k, v)
  BY DEF InsertShare
<1>2. shares' = shares \/ ShareLedger!Enter(k, v)
  BY DEF InsertShare, ShareLedger!Enter, PortalTypeOK
<1>3. ShareLedger!Holds(k, v)'
  BY NoneAssumption DEF InsertShare, ShareLedger!Holds, PortalTypeOK
<1>4. Told(ShareKeys)' = None \/ ShareLedger!Tell(k, v)
  BY <1>1, <1>3, ToldOf DEF ShareLedger!Tell
<1>5. Told(CaseKeys)' = None /\ Told(ReliableRecordKeys)' = None
  BY <1>1, ToldOf, ToldRecord, AnswersApart
<1> QED
  BY <1>1, <1>2, <1>4, <1>5 DEF CaseLedger!Next, ShareLedger!Next, RecordLedger!Next

LEMMA UploadRecordLedger ==
  ASSUME PortalTypeOK, NEW k \in RecordKeys, NEW v \in Forms, UploadRecord(k, v)
  PROVE  CaseLedger!Next /\ ShareLedger!Next /\ RecordLedger!Next
<1>1. UNCHANGED <<cases, shares>> /\ AnswerTo(k, v)
  BY DEF UploadRecord
<1>2. Told(CaseKeys)' = None /\ Told(ShareKeys)' = None
  BY <1>1, ToldOf, AnswersApart
<1>3. records' = records \/ RecordLedger!Enter(k, v)
  BY DEF UploadRecord, InsertRecord, RecordLedger!Enter, PortalTypeOK
<1>4. k \in ReliableRecordKeys' => RecordLedger!Holds(k, v)'
  <2>1. k \in ReliableRecordKeys' => cases[CaseOf(k)] # None
    BY <1>1 DEF ReliableRecordKeys, UploadRecord
  <2>2. cases[CaseOf(k)] # None => records'[k] # None
    BY NoneAssumption DEF UploadRecord, InsertRecord, PortalTypeOK
  <2> QED
    BY <2>1, <2>2 DEF RecordLedger!Holds
<1>5. Told(ReliableRecordKeys)' = None \/ RecordLedger!Tell(k, v)
  BY <1>1, <1>4, ToldRecord DEF RecordLedger!Tell
<1> QED
  BY <1>1, <1>2, <1>3, <1>5 DEF CaseLedger!Next, ShareLedger!Next, RecordLedger!Next

LEMMA PortalLedger ==
  ASSUME IInv, Portal PROVE CaseLedger!Next /\ ShareLedger!Next /\ RecordLedger!Next
<1> USE DEF IInv
<1>1. CASE \E q \in Slots : Register(q) \/ Serve(q)
  BY <1>1, RegisterServeLedger
<1>2. CASE Upload \/ Deposit
  <2>1. PICK key \in ShareKeys, share \in Share : InsertShare(key, share)
    BY <1>2, UploadsShare
  <2> QED
    BY <2>1, InsertShareLedger
<1>3. CASE \E key \in RecordKeys, form \in Forms : UploadRecord(key, form)
  BY <1>3, UploadRecordLedger
<1>4. CASE \E db \in Databases, s \in Typed : Recover(db, s) \/ EmergencyRecover(db, s)
  <2>1. answer' \notin Successes /\ UNCHANGED tables
    BY <1>4, Shown, AnswersApart
  <2> QED
    BY <2>1, NothingTold
<1> QED
  BY <1>1, <1>2, <1>3, <1>4 DEF Portal

LEMMA NextLedger ==
  ASSUME IInv, [Next]_vars
  PROVE  /\ [CaseLedger!Next]_CaseLedger!vars
         /\ [ShareLedger!Next]_ShareLedger!vars
         /\ [RecordLedger!Next]_RecordLedger!vars
<1>1. CASE Seal
  <2>1. answer' \notin Successes /\ UNCHANGED tables
    BY <1>1, AnswersApart DEF Seal
  <2> QED
    BY <2>1, NothingTold
<1>2. CASE Portal
  BY <1>2, PortalLedger
<1>3. CASE UNCHANGED vars
  BY <1>3 DEF vars, portalVars, tables, CaseLedger!vars, ShareLedger!vars,
     RecordLedger!vars, Told, ReliableRecordKeys
<1> QED
  BY <1>1, <1>2, <1>3 DEF Next

\* Each table of the portal is a ledger: no registration, share or record is
\* ever replaced, and who is told that his entry is there finds one, except
\* for the records of unregistered cases in MariaDB (register_case,
\* insert_key_share, insert_seal_record).
THEOREM LedgersKeptCorrect == Spec => LedgersKept
<1>1. Init => CaseLedger!Init /\ ShareLedger!Init /\ RecordLedger!Init
  BY CasesInitially, SharesInitially, RecordsInitially
<1>2. IInv /\ [Next]_vars => /\ [CaseLedger!Next]_CaseLedger!vars
                             /\ [ShareLedger!Next]_ShareLedger!vars
                             /\ [RecordLedger!Next]_RecordLedger!vars
  BY NextLedger
<1> QED
  BY <1>1, <1>2, Invariance, PTL
  DEF Spec, LedgersKept, CaseLedger!Spec, ShareLedger!Spec, RecordLedger!Spec

=============================================================================
