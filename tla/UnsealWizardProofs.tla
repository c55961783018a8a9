------------------------- MODULE UnsealWizardProofs -------------------------
(***************************************************************************)
(* The unseal wizard's invariants for every number of validations.         *)
(*                                                                         *)
(* The strengthening says whose the session's things are.  Verdict ties    *)
(* the verdict shown to the current process; Publication lets a process    *)
(* have u5 only if it published the plaintext, and while a decryption runs *)
(* none has; Recording lets a process have u6 only if its result is the    *)
(* session's.  So when a later validation has replaced the process,        *)
(* neither a record nor a save of the new one can succeed.                 *)
(***************************************************************************)
EXTENDS UnsealWizard, TLAPS

Verdict ==
    /\ verdict \in {"match", "mismatch"} =>
          current # 0 /\ procs[current].verdict = verdict
    /\ current # 0 \/ step >= 2 \/ task = "validated" => verdict # "none"
    /\ task \in {"validate", "validated"} => step = 1
    /\ task = "validate" => Len(procs) < MaxProcs
    /\ nextCmd # 0 => decrypted # 0

Publication ==
    /\ screen = "dialog" <=> worker # "none"
    /\ worker # "none" => step = 3 /\ decrypted = 0 /\ current # 0 /\ task = "none"
    /\ worker = "ok" => out = current
    /\ decrypted # 0 => out = decrypted /\ current # 0
    /\ out # 0 => out = decrypted \/ worker = "ok" \/ screen = "ended"
    /\ part = "open" /\ screen # "ended" => worker = "writing"
    /\ \A p \in 1..Len(procs) : procs[p].u5 => p = out

Recording ==
    /\ task \in {"record", "recorded", "failed"} => decrypted # 0 /\ recorded = 0
    /\ task = "recorded" => current = decrypted
    /\ \A p \in 1..Len(procs) : procs[p].u6 => p = decrypted

IInv == /\ TypeOK /\ StepsInOrder /\ PublishedIsVerified /\ RecordOfOutput
        /\ Verdict /\ Publication /\ Recording

-----------------------------------------------------------------------------

LEMMA InitIInv == Init => IInv
<1> SUFFICES ASSUME Init PROVE IInv
  OBVIOUS
<1>0. prevOn \in BOOLEAN /\ cancelled \in BOOLEAN
  BY DEF Init
<1>1. TypeOK
  BY <1>0, MaxProcsAssumption DEF Init, TypeOK, Screens, Tasks
<1>2. StepsInOrder /\ PublishedIsVerified /\ RecordOfOutput
  BY DEF Init, StepsInOrder, PublishedIsVerified, RecordOfOutput
<1>3. Verdict /\ Publication /\ Recording
  BY DEF Init, Verdict, Publication, Recording
<1> QED
  BY <1>1, <1>2, <1>3 DEF IInv

\* Replacing one process keeps the others.
LEMMA SetProcess ==
  ASSUME TypeOK, current # 0, NEW q \in Processes,
         q.verdict = procs[current].verdict,
         procs' = [procs EXCEPT ![current] = q]
  PROVE  /\ procs' \in Seq(Processes) /\ Len(procs') = Len(procs)
         /\ procs'[current] = q
         /\ \A p \in 1..Len(procs) : p # current => procs'[p] = procs[p]
         /\ \A p \in 1..Len(procs) : procs'[p].verdict = procs[p].verdict
<1>1. current \in 1..Len(procs) /\ procs \in Seq(Processes)
  BY DEF TypeOK
<1>2. procs' \in Seq(Processes) /\ Len(procs') = Len(procs) /\ procs'[current] = q
  BY <1>1
<1>3. \A p \in 1..Len(procs) : p # current => procs'[p] = procs[p]
  BY <1>1
<1> QED
  BY <1>2, <1>3

\* The properties speak of processes through Cleared only: it is kept when
\* verdicts stay and acceptances are not taken back.
LEMMA ClearedKept ==
  ASSUME NEW p \in 1..Len(procs), Cleared(p), accepted \subseteq accepted',
         procs'[p].verdict = procs[p].verdict
  PROVE  Cleared(p)'
BY DEF Cleared

-----------------------------------------------------------------------------

\* What showing a step asks for.
Allowed(s) ==
    /\ verdict # "none"
    /\ s >= 3 => current # 0 /\ (decrypted = 0 => Cleared(current))
    /\ s >= 4 => decrypted # 0 /\ recorded # 0

\* Showing step s from the wizard, once the step may be shown.
LEMMA ShowIInv ==
  ASSUME IInv, NEW s \in 1..5, screen = "wizard", task \in {"none", "validated"},
         Show(s), UNCHANGED <<procs, current, verdict, results>>,
         accepted \subseteq accepted', accepted' \subseteq 1..Len(procs),
         nextCmd' \in {0, nextCmd}, Allowed(s)'
  PROVE  IInv'
<1>0. worker = "none"
  BY DEF IInv, Publication
<1>t. prevOn' \in BOOLEAN /\ step' = s /\ UNCHANGED <<part, out, saved>>
  BY DEF Show
<1>s. \/ screen' = "dialog" /\ worker' = "opening" /\ cancelled' = FALSE /\ OpensDialog(s)
      \/ screen' = "wizard" /\ worker' = "none" /\ cancelled' = cancelled
  BY <1>0 DEF Show
<1>k. task' \in {"none", "record"} /\ (task' = "record" => decrypted # 0 /\ recorded = 0)
  BY DEF Show, RecordTask
<1>v. saves' \subseteq 1..Len(procs)
  BY DEF Show, IInv, TypeOK
<1>d. screen' = "dialog" => s = 3 /\ decrypted = 0 /\ current # 0 /\ task' = "none"
  BY <1>s, <1>k DEF OpensDialog
<1>c. screen' \in Screens /\ cancelled' \in BOOLEAN
  BY <1>s DEF IInv, TypeOK, Screens
<1>1. TypeOK'
  BY <1>t, <1>s, <1>c, <1>k, <1>v DEF IInv, TypeOK, Tasks, results
<1>2. StepsInOrder'
  <2>1. \A c \in {0, nextCmd} : c # 0 => decrypted # 0
    BY DEF IInv, Verdict
  <2> QED
    BY <2>1, <1>t DEF IInv, StepsInOrder, Allowed, results, TypeOK
<1>3. PublishedIsVerified'
  <2>1. worker' \in {"opening", "writing"} => current' # 0 /\ Cleared(current)'
    BY <1>s, <1>d DEF Allowed, results
  <2>2. out # 0 => Cleared(out)'
    BY <1>t, ClearedKept DEF IInv, PublishedIsVerified, TypeOK
  <2> QED
    BY <2>1, <2>2, <1>t DEF PublishedIsVerified, Cleared
<1>4. RecordOfOutput'
  BY <1>t DEF IInv, RecordOfOutput, results
<1>5. Verdict'
  BY <1>t, <1>k DEF IInv, Verdict, Allowed, results
<1>6. Publication'
  BY <1>0, <1>t, <1>s, <1>d DEF IInv, Publication, results
<1>7. Recording'
  BY <1>k DEF IInv, Recording, results
<1> QED
  BY <1>1, <1>2, <1>3, <1>4, <1>5, <1>6, <1>7 DEF IInv

\* Steps that show nothing and leave processes, acceptances and the plaintext.
LEMMA QuietIInv ==
  ASSUME IInv, UNCHANGED <<procs, current, verdict, accepted, out, decrypted>>,
         TypeOK', StepsInOrder', RecordOfOutput', Verdict', Publication',
         Recording', worker' \in {worker, "none", "error"} \/
                     (worker = "opening" /\ worker' = "writing")
  PROVE  IInv'
<1>1. PublishedIsVerified'
  BY DEF IInv, PublishedIsVerified, Cleared
<1> QED
  BY <1>1 DEF IInv

-----------------------------------------------------------------------------

LEMMA GoNextIInv == ASSUME IInv, GoNext PROVE IInv'
<1>1. CASE Validate
  <2> USE <1>1 DEF Validate, Handler, nav, session, results, decryption, saving
  <2>1. TypeOK' /\ StepsInOrder' /\ RecordOfOutput'
    BY DEF IInv, TypeOK, Tasks, StepsInOrder, Cleared, RecordOfOutput
  <2>2. Verdict' /\ Publication' /\ Recording'
    BY DEF IInv, Verdict, Publication, Recording
  <2> QED
    BY <2>1, <2>2, QuietIInv
<1>2. CASE LeaveU4
  <2>1. screen = "wizard" /\ task = "none" /\ step = 2
    BY <1>2 DEF LeaveU4, Handler
  <2>2. verdict \in {"match", "mismatch"}
    BY <1>2, <2>1 DEF LeaveU4, IInv, TypeOK, Verdict
  <2>3. current # 0 /\ procs[current].verdict = verdict
    BY <2>2 DEF IInv, Verdict
  <2>4. accepted \subseteq accepted' /\ accepted' \subseteq 1..Len(procs)
    BY <1>2, <2>3 DEF LeaveU4, IInv, TypeOK
  <2>5. UNCHANGED <<nextCmd, procs, current, verdict, results>> /\ Show(3)
    BY <1>2 DEF LeaveU4
  <2>6. Cleared(current)'
    BY <1>2, <2>2, <2>3, <2>5 DEF LeaveU4, Cleared
  <2>7. Allowed(3)'
    BY <2>2, <2>3, <2>5, <2>6 DEF Allowed
  <2>8. 3 \in 1..5 /\ task \in {"none", "validated"} /\ nextCmd' \in {0, nextCmd}
    BY <2>1, <2>5
  <2> QED
    BY <2>1, <2>4, <2>5, <2>7, <2>8, ShowIInv, Zenon
<1>3. CASE RetryRecord
  <2> USE <1>3 DEF RetryRecord, Handler, RecordTask, session, results, decryption, saving
  <2>1. TypeOK' /\ StepsInOrder' /\ RecordOfOutput'
    BY DEF IInv, TypeOK, Tasks, StepsInOrder, Cleared, RecordOfOutput
  <2>2. Verdict' /\ Publication' /\ Recording'
    BY DEF IInv, Verdict, Publication, Recording
  <2> QED
    BY <2>1, <2>2, QuietIInv
<1>4. CASE LeaveU5 \/ LeaveU6
  <2>1. PICK s \in {4, 5} : Show(s) /\ step = s - 1
    BY <1>4 DEF LeaveU5, LeaveU6
  <2>2. screen = "wizard" /\ task = "none" /\ UNCHANGED <<nextCmd, session, results>>
    BY <1>4 DEF LeaveU5, LeaveU6, Handler
  <2>3. current # 0 /\ decrypted # 0 /\ recorded # 0 /\ verdict # "none"
    BY <1>4, <2>1 DEF LeaveU5, LeaveU6, IInv, StepsInOrder, Verdict
  <2>4. Allowed(s)'
    BY <2>2, <2>3 DEF Allowed, session, results
  <2>5. s \in 1..5 /\ task \in {"none", "validated"} /\ nextCmd' \in {0, nextCmd}
    BY <2>2
  <2>6. /\ UNCHANGED <<procs, current, verdict, results>>
        /\ accepted \subseteq accepted' /\ accepted' \subseteq 1..Len(procs)
    BY <2>2 DEF session, IInv, TypeOK
  <2> QED
    BY <2>1, <2>2, <2>4, <2>5, <2>6, ShowIInv, Zenon
<1>5. CASE Complete
  BY <1>5 DEF Complete, vars, nav, session, results, decryption, saving, IInv,
     TypeOK, StepsInOrder, PublishedIsVerified, RecordOfOutput, Verdict,
     Publication, Recording, Cleared
<1> QED
  BY <1>1, <1>2, <1>3, <1>4, <1>5 DEF GoNext

LEMMA NavigateIInv == ASSUME IInv, Navigate PROVE IInv'
<1>1. ASSUME NEW s \in 1..5, Handler, Show(s), s <= step \/ s = nextCmd,
             nextCmd' \in {0, nextCmd}, UNCHANGED <<session, results>>,
             step >= 2 \/ nextCmd # 0
      PROVE  IInv'
  <2>1. verdict # "none"
    BY <1>1 DEF IInv, Verdict, Publication
  <2>2. \/ s >= 3 => current # 0 /\ (decrypted = 0 => Cleared(current))
    BY <1>1 DEF IInv, TypeOK, StepsInOrder
  <2>3. s >= 4 => decrypted # 0 /\ recorded # 0
    BY <1>1 DEF IInv, TypeOK, StepsInOrder
  <2>4. Allowed(s)'
    BY <1>1, <2>1, <2>2, <2>3 DEF Allowed, Cleared, session, results
  <2> QED
    BY <1>1, <2>4, ShowIInv DEF Handler, session, IInv, TypeOK
<1>2. CASE GoPrev
  BY <1>1, <1>2 DEF GoPrev, IInv, TypeOK
<1>3. CASE ReturnToActual
  BY <1>1, <1>3 DEF ReturnToActual, IInv, TypeOK
<1>4. CASE \E k \in 1..4 : StepClick(k)
  BY <1>1, <1>4 DEF StepClick, IInv, TypeOK
<1>5. CASE \E k \in 1..4 : ShowReadonly(k)
  <2> PICK k \in 1..4 : ShowReadonly(k)
    BY <1>5
  <2> USE DEF ShowReadonly, Handler, session, results, decryption, saving
  <2>0. step' \in 1..5 /\ nextCmd' \in 0..5
    BY DEF IInv, TypeOK
  <2>b. prevOn' \in BOOLEAN
    OBVIOUS
  <2>1. TypeOK'
    BY <2>0, <2>b DEF IInv, TypeOK
  <2>2. StepsInOrder' /\ RecordOfOutput'
    BY DEF IInv, TypeOK, StepsInOrder, Cleared, RecordOfOutput
  <2>3. Verdict' /\ Publication' /\ Recording'
    BY DEF IInv, Verdict, Publication, Recording, StepsInOrder, TypeOK
  <2> QED
    BY <2>1, <2>2, <2>3, QuietIInv
<1>6. CASE Leave
  <2> USE <1>6 DEF Leave, nav, session, results, decryption, saving
  <2>1. TypeOK' /\ StepsInOrder' /\ RecordOfOutput'
    BY DEF IInv, TypeOK, Screens, StepsInOrder, Cleared, RecordOfOutput
  <2>2. Verdict' /\ Publication' /\ Recording'
    BY DEF IInv, Verdict, Publication, Recording
  <2> QED
    BY <2>1, <2>2, QuietIInv
<1>7. CASE Exit
  <2> USE <1>7 DEF Exit, nav, session, results
  <2>1. TypeOK' /\ StepsInOrder' /\ RecordOfOutput'
    BY DEF IInv, TypeOK, Screens, Tasks, StepsInOrder, Cleared, RecordOfOutput
  <2>2. Verdict' /\ Publication' /\ Recording'
    BY DEF IInv, Verdict, Publication, Recording
  <2> QED
    BY <2>1, <2>2, QuietIInv
<1> QED
  BY <1>2, <1>3, <1>4, <1>5, <1>6, <1>7 DEF Navigate

LEMMA ValidationEndsIInv == ASSUME IInv, ValidationEnds PROVE IInv'
<1> USE DEF ValidationEnds, nav, results, decryption, saving
<1>1. step = 1 /\ worker = "none"
  BY DEF IInv, Verdict, Publication
<1>2. CASE verdict' = "error" /\ UNCHANGED <<procs, current>>
  <2>1. TypeOK' /\ StepsInOrder' /\ RecordOfOutput'
    BY <1>2 DEF IInv, TypeOK, Tasks, StepsInOrder, Cleared, RecordOfOutput
  <2>2. Verdict' /\ Publication' /\ Recording' /\ PublishedIsVerified'
    BY <1>1, <1>2 DEF IInv, Verdict, Publication, Recording, PublishedIsVerified, Cleared
  <2> QED
    BY <2>1, <2>2 DEF IInv
<1>3. ASSUME NEW v \in {"match", "mismatch"}, current' = Len(procs) + 1, verdict' = v,
             procs' = Append(procs, [verdict |-> v, u5 |-> FALSE, u6 |-> FALSE])
      PROVE  IInv'
  <2> DEFINE q == [verdict |-> v, u5 |-> FALSE, u6 |-> FALSE]
             n == Len(procs) + 1
  <2>1. q \in Processes /\ procs \in Seq(Processes) /\ Len(procs) < MaxProcs
    BY DEF Processes, IInv, TypeOK, Verdict
  <2>2. /\ procs' \in Seq(Processes) /\ Len(procs') = n /\ procs'[n] = q
        /\ \A p \in 1..Len(procs) : procs'[p] = procs[p]
    BY <1>3, <2>1
  <2>3. q.verdict = v /\ ~q.u5 /\ ~q.u6 /\ current' = n /\ n # 0
    BY <1>3, <2>1
  <2> HIDE DEF q
  <2>t. n \in Nat /\ n <= MaxProcs /\ 1..Len(procs) \subseteq 1..n /\ 0..Len(procs) \subseteq 0..n
    BY <2>1, MaxProcsAssumption DEF IInv, TypeOK
  <2>s. /\ accepted \subseteq 1..n /\ saves \subseteq 1..n /\ saved \subseteq 1..n
        /\ decrypted \in 0..n /\ recorded \in 0..n /\ out \in 0..n /\ n \in 0..n
    BY <2>t DEF IInv, TypeOK
  <2>4. TypeOK'
    BY <1>3, <2>2, <2>3, <2>t, <2>s DEF IInv, TypeOK, Tasks
  <2>5. StepsInOrder'
    BY <1>1, <2>3 DEF IInv, StepsInOrder, Verdict, TypeOK
  <2>6. PublishedIsVerified'
    BY <1>1, <2>2 DEF IInv, PublishedIsVerified, Cleared, TypeOK
  <2>7. RecordOfOutput'
    BY <2>2 DEF IInv, RecordOfOutput, TypeOK
  <2>8. Verdict'
    BY <1>1, <1>3, <2>2, <2>3 DEF IInv, Verdict
  <2>9. Publication'
    BY <1>1, <2>1, <2>2, <2>3 DEF IInv, Publication, TypeOK
  <2>a. \A p \in 1..n : p = n \/ p \in 1..Len(procs)
    BY <2>1
  <2>10. Recording'
    BY <2>a, <2>2, <2>3 DEF IInv, Recording
  <2> QED
    BY <2>4, <2>5, <2>6, <2>7, <2>8, <2>9, <2>10 DEF IInv
<1> QED
  BY <1>2, <1>3

LEMMA ShowVerdictIInv == ASSUME IInv, ShowVerdict PROVE IInv'
<1>1. screen = "wizard" /\ task = "validated" /\ Show(2)
  BY DEF ShowVerdict
<1>2. UNCHANGED <<procs, current, verdict, results>> /\ UNCHANGED <<nextCmd, accepted>>
  BY DEF ShowVerdict, session
<1>3. Allowed(2)'
  BY <1>1, <1>2 DEF Allowed, IInv, Verdict
<1>4. 2 \in 1..5 /\ task \in {"none", "validated"} /\ nextCmd' \in {0, nextCmd}
  BY <1>1, <1>2
<1>5. accepted \subseteq accepted' /\ accepted' \subseteq 1..Len(procs)
  BY <1>2 DEF IInv, TypeOK
<1> QED
  BY <1>1, <1>2, <1>3, <1>4, <1>5, ShowIInv, Zenon

-----------------------------------------------------------------------------

LEMMA DecryptIInv == ASSUME IInv, Decrypt PROVE IInv'
<1>1. CASE WorkerOpens \/ WorkerFails \/ CancelDialog
  <2>1. /\ UNCHANGED <<screen, nav, session, task, results, out, saving>>
        /\ cancelled' \in BOOLEAN
        /\ \/ worker' = worker /\ part' = part
           \/ worker = "opening" /\ worker' = "writing" /\ part' = "open"
           \/ worker # "none" /\ worker # "ok" /\ worker' = "error"
              /\ part' \in {"none", "left"}
    BY <1>1 DEF WorkerOpens, WorkerFails, CancelDialog, decryption, IInv, TypeOK
  <2> USE <2>1 DEF nav, session, results, saving
  <2>2. TypeOK' /\ StepsInOrder' /\ RecordOfOutput'
    BY DEF IInv, TypeOK, StepsInOrder, Cleared, RecordOfOutput
  <2>3. Verdict' /\ Publication' /\ Recording'
    BY DEF IInv, Verdict, Publication, Recording, TypeOK
  <2> QED
    BY <2>2, <2>3, QuietIInv
<1>2. CASE WorkerPublishes
  <2> DEFINE q == [procs[current] EXCEPT !.u5 = TRUE]
  <2>1. /\ worker = "writing" /\ worker' = "ok" /\ part' = "none" /\ out' = current
        /\ procs' = [procs EXCEPT ![current] = q]
        /\ UNCHANGED <<screen, step, nextCmd, prevOn, current, verdict, accepted, task,
                       decrypted, recorded, cancelled, saves, saved>>
    BY <1>2 DEF WorkerPublishes, nav, results, saving
  <2>2. decrypted = 0 /\ current # 0 /\ out = 0 /\ task = "none" /\ screen = "dialog"
    BY <2>1 DEF IInv, Publication
  <2>3. procs[current] \in Processes
    BY <2>2 DEF IInv, TypeOK
  <2>4. q \in Processes /\ q.verdict = procs[current].verdict /\ q.u6 = procs[current].u6
    BY <2>3 DEF Processes
  <2> HIDE DEF q
  <2>5. /\ procs' \in Seq(Processes) /\ Len(procs') = Len(procs) /\ procs'[current] = q
        /\ \A p \in 1..Len(procs) : p # current => procs'[p] = procs[p]
        /\ \A p \in 1..Len(procs) : procs'[p].verdict = procs[p].verdict
    BY <2>1, <2>2, <2>4, SetProcess DEF IInv
  <2>6. TypeOK'
    BY <2>1, <2>5 DEF IInv, TypeOK
  <2>7. StepsInOrder'
    BY <2>1, <2>5 DEF IInv, TypeOK, StepsInOrder, Cleared
  <2>8. PublishedIsVerified'
    BY <2>1, <2>2, <2>5 DEF IInv, TypeOK, PublishedIsVerified, Cleared
  <2>9. RecordOfOutput'
    BY <2>1, <2>2, <2>5 DEF IInv, TypeOK, RecordOfOutput
  <2>10. Verdict'
    BY <2>1, <2>2, <2>5 DEF IInv, TypeOK, Verdict
  <2>11. Publication'
    BY <2>1, <2>2, <2>5 DEF IInv, TypeOK, Publication
  <2>12. Recording'
    BY <2>1, <2>2, <2>4, <2>5 DEF IInv, TypeOK, Recording
  <2> QED
    BY <2>6, <2>7, <2>8, <2>9, <2>10, <2>11, <2>12 DEF IInv
<1>3. CASE DialogCompletes
  <2> USE <1>3 DEF DialogCompletes, session, saving
  <2>a. out = current /\ current # 0 /\ decrypted = 0 /\ step = 3
    BY DEF IInv, Publication
  <2>b. recorded = 0 /\ nextCmd = 0 /\ \A p \in saved : p = 0 /\ p \in 1..Len(procs)
    BY <2>a DEF IInv, RecordOfOutput, TypeOK, Verdict
  <2>c. saved = {}
    BY <2>b
  <2>0. prevOn' \in BOOLEAN /\ out = current /\ current # 0 /\ decrypted = 0
        /\ step = 3 /\ saved = {} /\ recorded = 0 /\ nextCmd = 0
    BY <2>a, <2>b, <2>c
  <2>1. TypeOK' /\ StepsInOrder' /\ RecordOfOutput'
    BY <2>0 DEF IInv, TypeOK, Screens, Tasks, StepsInOrder, Cleared, RecordOfOutput
  <2>2. Verdict' /\ Publication' /\ PublishedIsVerified'
    BY <2>0 DEF IInv, Verdict, Publication, PublishedIsVerified, Cleared
  <2>3. Recording'
    BY <2>0 DEF IInv, Recording, TypeOK
  <2> QED
    BY <2>1, <2>2, <2>3 DEF IInv
<1>4. CASE DialogFails
  <2> USE <1>4 DEF DialogFails, nav, session, results, saving
  <2>1. TypeOK' /\ StepsInOrder' /\ RecordOfOutput'
    BY DEF IInv, TypeOK, Screens, StepsInOrder, Cleared, RecordOfOutput
  <2>2. Verdict' /\ Publication' /\ Recording'
    BY DEF IInv, Verdict, Publication, Recording
  <2> QED
    BY <2>1, <2>2, QuietIInv
<1> QED
  BY <1>1, <1>2, <1>3, <1>4 DEF Decrypt

LEMMA RecordIInv == ASSUME IInv, Record PROVE IInv'
<1>1. CASE RecordEnds
  <2>0. /\ task = "record" /\ task' \in {"recorded", "failed"}
        /\ UNCHANGED <<screen, step, nextCmd, prevOn, current, verdict, accepted,
                       decrypted, recorded, worker, cancelled, part, out, saves, saved>>
    BY <1>1 DEF RecordEnds, nav, results, decryption, saving
  <2>1. decrypted # 0 /\ recorded = 0 /\ current # 0 /\ out = decrypted
    BY <2>0 DEF IInv, Recording, Publication
  <2>2. CASE task' = "failed" /\ UNCHANGED procs
    <3>1. TypeOK' /\ StepsInOrder' /\ RecordOfOutput'
      BY <2>0, <2>2 DEF IInv, TypeOK, Tasks, StepsInOrder, Cleared, RecordOfOutput
    <3>2. Verdict' /\ Publication' /\ Recording'
      BY <2>0, <2>1, <2>2 DEF IInv, Verdict, Publication, Recording
    <3> QED
      BY <2>0, <2>2, <3>1, <3>2, QuietIInv
  <2>3. CASE procs[current].u5 /\ procs' = [procs EXCEPT ![current].u6 = TRUE]
    <3> DEFINE q == [procs[current] EXCEPT !.u6 = TRUE]
    <3>1. procs' = [procs EXCEPT ![current] = q]
      BY <2>3
    <3>2. procs[current] \in Processes /\ current = decrypted
      BY <2>1, <2>3 DEF IInv, TypeOK, Publication
    <3>3. /\ q \in Processes /\ q.verdict = procs[current].verdict
          /\ q.u5 = procs[current].u5 /\ q.u6
      BY <3>2 DEF Processes
    <3> HIDE DEF q
    <3>4. /\ procs' \in Seq(Processes) /\ Len(procs') = Len(procs) /\ procs'[current] = q
          /\ \A p \in 1..Len(procs) : p # current => procs'[p] = procs[p]
          /\ \A p \in 1..Len(procs) : procs'[p].verdict = procs[p].verdict
      BY <3>1, <2>1, <3>3, SetProcess DEF IInv
    <3>5. TypeOK'
      BY <2>0, <3>4 DEF IInv, TypeOK, Tasks
    <3>6. StepsInOrder' /\ PublishedIsVerified'
      BY <2>0, <2>1, <3>4 DEF IInv, TypeOK, StepsInOrder, PublishedIsVerified, Cleared
    <3>7. RecordOfOutput'
      BY <2>0, <3>2, <3>3, <3>4 DEF IInv, TypeOK, RecordOfOutput
    <3>8. Verdict'
      BY <2>0, <3>4 DEF IInv, TypeOK, Verdict
    <3>9. Publication'
      BY <2>0, <2>1, <3>2, <3>3, <3>4 DEF IInv, TypeOK, Publication
    <3>10. Recording'
      BY <2>0, <2>1, <3>2, <3>4 DEF IInv, TypeOK, Recording
    <3> QED
      BY <3>5, <3>6, <3>7, <3>8, <3>9, <3>10 DEF IInv
  <2> QED
    BY <1>1, <2>2, <2>3 DEF RecordEnds
<1>2. CASE ShowRecorded \/ ShowFailed
  <2>1. /\ screen = "wizard" /\ task' = "none"
        /\ UNCHANGED <<screen, step, nextCmd, prevOn, procs, current, verdict, accepted,
                       decrypted, worker, cancelled, part, out, saves, saved>>
        /\ \/ task = "recorded" /\ recorded' = current
           \/ recorded' = recorded
    BY <1>2 DEF ShowRecorded, ShowFailed, nav, session, results, decryption, saving
  <2>2. TypeOK' /\ StepsInOrder' /\ RecordOfOutput'
    BY <2>1 DEF IInv, TypeOK, Tasks, StepsInOrder, Cleared, RecordOfOutput, Recording, Publication
  <2>3. Verdict' /\ Publication' /\ Recording'
    BY <2>1 DEF IInv, Verdict, Publication, Recording
  <2> QED
    BY <2>1, <2>2, <2>3, QuietIInv
<1>3. CASE \E p \in saves : SaveWrites(p) \/ SavesEnd(p)
  <2> PICK p \in saves : SaveWrites(p) \/ SavesEnd(p)
    BY <1>3
  <2>1. /\ UNCHANGED <<screen, nav, session, task, results, decryption>>
        /\ saves' \subseteq saves
        /\ saved' = saved \/ (procs[p].u6 /\ saved' = saved \cup {p})
    BY DEF SaveWrites, SavesEnd
  <2> USE <2>1 DEF nav, session, results, decryption
  <2>2. TypeOK' /\ StepsInOrder'
    BY DEF IInv, TypeOK, StepsInOrder, Cleared
  <2>3. p \in 1..Len(procs) /\ (procs[p].u6 => p = decrypted)
    BY DEF IInv, TypeOK, Recording
  <2>4. RecordOfOutput'
    BY <2>3 DEF IInv, RecordOfOutput
  <2>5. Verdict' /\ Publication' /\ Recording'
    BY DEF IInv, Verdict, Publication, Recording
  <2> QED
    BY <2>2, <2>4, <2>5, QuietIInv
<1> QED
  BY <1>1, <1>2, <1>3 DEF Record

-----------------------------------------------------------------------------

LEMMA NextIInv == IInv /\ [Next]_vars => IInv'
<1> SUFFICES ASSUME IInv, [Next]_vars PROVE IInv'
  OBVIOUS
<1>1. CASE UNCHANGED vars
  BY <1>1 DEF vars, nav, session, results, decryption, saving, IInv,
     TypeOK, StepsInOrder, PublishedIsVerified, RecordOfOutput, Verdict,
     Publication, Recording, Cleared
<1> QED
  BY <1>1, GoNextIInv, ValidationEndsIInv, ShowVerdictIInv, NavigateIInv,
     DecryptIInv, RecordIInv DEF Next

LEMMA Invariance == Spec => []IInv
BY InitIInv, NextIInv, PTL DEF Spec

\* Every variable keeps its type, however often U3 is validated.
THEOREM TypeCorrect == Spec => []TypeOK
<1>1. IInv => TypeOK
  BY DEF IInv
<1> QED
  BY Invariance, <1>1, PTL

\* No way through the wizard shows a step, or offers a return to one, before
\* the steps it builds on are done.
THEOREM StepsInOrderCorrect == Spec => []StepsInOrder
<1>1. IInv => StepsInOrder
  BY DEF IInv
<1> QED
  BY Invariance, <1>1, PTL

\* Plaintext comes only from files that matched, or whose own mismatch the
\* user accepted.
THEOREM PublishedIsVerifiedCorrect == Spec => []PublishedIsVerified
<1>1. IInv => PublishedIsVerified
  BY DEF IInv
<1> QED
  BY Invariance, <1>1, PTL

\* The record, in the session and in the database, is of the process that
\* published the plaintext.
THEOREM RecordOfOutputCorrect == Spec => []RecordOfOutput
<1>1. IInv => RecordOfOutput
  BY DEF IInv
<1> QED
  BY Invariance, <1>1, PTL

\* The session knows of the plaintext that was published, and a .part file
\* outlives its decryption only if its removal failed or the program ended.
THEOREM PlaintextAccountedCorrect == Spec => []PlaintextAccounted
<1>1. IInv => PlaintextAccounted
  BY DEF IInv, Publication, PlaintextAccounted
<1> QED
  BY Invariance, <1>1, PTL

=============================================================================
