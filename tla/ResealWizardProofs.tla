------------------------- MODULE ResealWizardProofs -------------------------
(***************************************************************************)
(* The reseal wizard's invariants for every number of validations, every   *)
(* set of files and every assignment of outputs, files that share one      *)
(* included.                                                               *)
(*                                                                         *)
(* Flow says who is at work when.  Outcome ties what the processes have    *)
(* done and what is stored to the one encryption that is kept: only the    *)
(* process of encrypt_done has r5, so only its record and its shares can   *)
(* be stored.  Written says what a run of R5 has on disk before encrypt_   *)
(* done: each output of a file that is finished is whole, unless a later   *)
(* file of the run has the same path.                                      *)
(***************************************************************************)
EXTENDS ResealWizard, TLAPS

Flow ==
    /\ screen = "wizard" => worker = "none"
    /\ screen = "dialog" => worker # "none"
    /\ screen = "closed" => worker # "running"
    /\ worker # "none" \/ task # "none" \/ step > 1 \/ nextCmd # 0 => current # 0
    /\ task = "record" => encrypted # 0
    /\ task # "none" => screen = "wizard"
    /\ encrypted # 0 => worker = "none" /\ screen \in {"wizard", "closed"}

Outcome ==
    /\ encrypted = 0 => recorded = 0 /\ stored.proc = 0
    /\ \A n \in 1..Len(procs) :
          /\ "r5" \in procs[n].steps =>
                IF encrypted # 0 THEN n = encrypted ELSE worker = "ok" /\ n = current
          /\ "r6" \in procs[n].steps =>
                encrypted # 0 /\ n = encrypted /\ procs[n].record = procs[n].sealed
    /\ stored.proc # 0 => /\ stored.proc = encrypted
                          /\ stored.record = procs[encrypted].sealed

Written ==
    /\ worker = "ok" /\ screen = "dialog" =>
          \A i \in DOMAIN procs[current].sealed : Holds(procs[current].sealed, current, i)
    /\ worker = "running" =>
          \A i \in DOMAIN done :
             at = None \/ EncPath[at] # EncPath[done[i]] => Holds(done, current, i)

IInv == TypeOK /\ Flow /\ Outcome /\ Written /\ SealedOnDisk /\ PendingGone

-----------------------------------------------------------------------------

LEMMA InitIInv == Init => IInv
<1> SUFFICES ASSUME Init PROVE IInv
  OBVIOUS
<1>0. prevOn \in BOOLEAN /\ compareFailed \in BOOLEAN
  BY DEF Init
<1>1. TypeOK
  BY <1>0, MaxProcsAssumption DEF Init, TypeOK, Screens, Bundles
<1>2. Flow /\ Outcome /\ Written
  BY DEF Init, Flow, Outcome, Written
<1>3. SealedOnDisk /\ PendingGone
  BY DEF Init, SealedOnDisk, PendingGone
<1> QED
  BY <1>1, <1>2, <1>3 DEF IInv

\* A record that a process may store describes what R5 sealed, so the stored
\* bundle opens what is on disk.
LEMMA StoredOpensFromIInv == IInv => StoredOpens
<1> SUFFICES ASSUME IInv, stored.proc # 0 PROVE StoredOpens
  BY DEF StoredOpens
<1>1. stored.proc = encrypted /\ encrypted # 0 /\ stored.record = procs[encrypted].sealed
  BY DEF IInv, Outcome
<1>2. \A i \in DOMAIN procs[encrypted].sealed : Holds(procs[encrypted].sealed, encrypted, i)
  BY <1>1 DEF IInv, SealedOnDisk
<1> QED
  BY <1>1, <1>2 DEF StoredOpens

-----------------------------------------------------------------------------

\* Replacing the current process keeps the others.
LEMMA SetProcess ==
  ASSUME TypeOK, current # 0, NEW q \in Processes,
         procs' = [procs EXCEPT ![current] = q]
  PROVE  /\ procs' \in Seq(Processes) /\ Len(procs') = Len(procs)
         /\ current \in 1..Len(procs) /\ procs[current] \in Processes
         /\ procs'[current] = q
         /\ \A n \in 1..Len(procs) : n # current => procs'[n] = procs[n]
<1>1. current \in 1..Len(procs) /\ procs \in Seq(Processes)
  BY DEF TypeOK
<1>2. procs' \in Seq(Processes) /\ Len(procs') = Len(procs) /\ procs'[current] = q
  BY <1>1
<1>3. \A n \in 1..Len(procs) : n # current => procs'[n] = procs[n]
  BY <1>1
<1> QED
  BY <1>1, <1>2, <1>3

\* SealedOnDisk speaks of the outputs and of what was sealed into them.
LEMMA SealedKept ==
  ASSUME IInv, UNCHANGED <<disk, encrypted>>,
         encrypted # 0 => procs'[encrypted].sealed = procs[encrypted].sealed
  PROVE  SealedOnDisk'
<1>1. encrypted # 0 => \A i \in DOMAIN procs[encrypted].sealed :
                          Holds(procs[encrypted].sealed, encrypted, i)
  BY DEF IInv, SealedOnDisk
<1> QED
  BY <1>1 DEF SealedOnDisk, Holds

\* What the processes encrypted and recorded stays.
SameResults ==
    /\ Len(procs') = Len(procs)
    /\ \A n \in 1..Len(procs) :
          /\ procs'[n].sealed = procs[n].sealed /\ procs'[n].record = procs[n].record
          /\ "r5" \in procs'[n].steps <=> "r5" \in procs[n].steps
          /\ "r6" \in procs'[n].steps <=> "r6" \in procs[n].steps

LEMMA SameIInv ==
  ASSUME IInv, SameResults, UNCHANGED <<current, results, stored, disk>>,
         worker = "ok" => worker' = "ok",
         TypeOK', Flow', Written', PendingGone'
  PROVE  IInv'
<1> USE DEF results
<1>1. Outcome'
  <2>1. encrypted # 0 => encrypted \in 1..Len(procs)
    BY DEF IInv, TypeOK
  <2> QED
    BY <2>1 DEF IInv, Outcome, SameResults
<1>2. SealedOnDisk'
  <2>1. encrypted # 0 => procs'[encrypted].sealed = procs[encrypted].sealed
    BY DEF IInv, TypeOK, SameResults
  <2> QED
    BY <2>1, SealedKept
<1> QED
  BY <1>1, <1>2 DEF IInv

\* Steps that leave the processes and the encryption alone.
LEMMA QuietIInv ==
  ASSUME IInv, UNCHANGED <<procs, current, results, stored, worker, at, done, disk>>,
         screen' \in {screen, "wizard", "joining", "left"},
         TypeOK', Flow'
  PROVE  IInv'
<1>1. SameResults
  BY DEF SameResults
<1>2. Written'
  BY DEF IInv, Written, Holds
<1>3. PendingGone'
  BY DEF IInv, PendingGone, Pending, results
<1>4. worker = "ok" => worker' = "ok"
  OBVIOUS
<1> QED
  BY <1>1, <1>2, <1>3, <1>4, SameIInv, Zenon

\* Steps of the wizard that change its process but no result of it.
LEMMA ProcessIInv ==
  ASSUME IInv, screen = "wizard", screen' = "wizard", current # 0,
         NEW q \in Processes, procs' = [procs EXCEPT ![current] = q],
         q.sealed = procs[current].sealed, q.record = procs[current].record,
         "r5" \in q.steps <=> "r5" \in procs[current].steps,
         "r6" \in q.steps <=> "r6" \in procs[current].steps,
         UNCHANGED <<current, results, stored, encryption>>,
         TypeOK', Flow'
  PROVE  IInv'
<1> USE DEF encryption
<1>0. TypeOK /\ worker = "none"
  BY DEF IInv, Flow
<1>1. SameResults
  BY <1>0, SetProcess DEF SameResults
<1>2. Written' /\ PendingGone'
  BY <1>0 DEF Written, PendingGone
<1>3. worker = "ok" => worker' = "ok"
  BY <1>0
<1>4. UNCHANGED disk
  OBVIOUS
<1> QED
  BY <1>1, <1>2, <1>3, <1>4, SameIInv

-----------------------------------------------------------------------------

\* Showing step s from the wizard, the dialog of R5 included.
LEMMA ShowIInv ==
  ASSUME IInv, NEW s \in 1..8, screen = "wizard", current # 0, Show(s),
         UNCHANGED <<current, unknown, results, stored>>,
         nextCmd' \in {0, nextCmd}
  PROVE  IInv'
<1> USE DEF results
<1>0. TypeOK /\ worker = "none"
  BY DEF IInv, Flow
<1>p. prevOn' \in BOOLEAN
  BY DEF Show
<1>v. savers' \subseteq 1..Len(procs)
  <2>1. current \in 1..Len(procs) /\ savers \subseteq 1..Len(procs)
    BY <1>0 DEF TypeOK
  <2>2. savers' = savers \cup {current} \/ savers' = savers
    BY DEF Show, StartSave
  <2> QED
    BY <2>1, <2>2
<1>k. task' \in {"none", "compare", "record"} /\ (task' = "record" => encrypted # 0)
  BY DEF Show, RecordTask
<1>1. /\ step' = s /\ prevOn' \in BOOLEAN /\ compareFailed' \in BOOLEAN
      /\ UNCHANGED disk /\ savers' \subseteq 1..Len(procs)
      /\ task' \in {"none", "compare", "record"}
      /\ task' = "record" => encrypted # 0
  BY <1>p, <1>v, <1>k DEF Show
<1>2. CASE ~Encrypts(s)
  <2>1. UNCHANGED <<screen, worker, todo, at, done, procs>>
    BY <1>2 DEF Show
  <2>2. TypeOK' /\ Flow'
    BY <1>0, <1>1, <2>1 DEF TypeOK, IInv, Flow
  <2> QED
    BY <1>1, <2>1, <2>2, QuietIInv
<1>3. CASE Encrypts(s)
  <2> DEFINE q == [procs[current] EXCEPT !.pending = {}]
  <2>1. /\ screen' = "dialog" /\ worker' = "running"
        /\ at' = None /\ done' = <<>> /\ procs' = [procs EXCEPT ![current] = q]
        /\ \E gone \in SUBSET Files :
              todo' = (procs[current].known \cup procs[current].derived) \ gone
        /\ encrypted = 0
    BY <1>3 DEF Show, OpenDialog, CollectFiles, Encrypts
  <2>2. procs[current] \in Processes
    BY <1>0 DEF TypeOK
  <2>3. /\ q \in Processes /\ q.sealed = procs[current].sealed
        /\ q.record = procs[current].record /\ q.steps = procs[current].steps
    BY <2>2 DEF Processes
  <2>4. todo' \subseteq Files
    BY <2>1, <2>2 DEF Processes
  <2>5. task' = "none"
    BY <1>3 DEF Show, RecordTask, Encrypts
  <2> HIDE DEF q
  <2>6. procs' \in Seq(Processes) /\ Len(procs') = Len(procs) /\ SameResults
    BY <1>0, <2>1, <2>3, SetProcess DEF SameResults
  <2>7. TypeOK'
    BY <1>0, <1>1, <2>1, <2>4, <2>6 DEF TypeOK, Screens
  <2>8. Flow' /\ Written' /\ PendingGone'
    BY <1>1, <2>1, <2>5 DEF Flow, Written, PendingGone
  <2>9. worker = "ok" => worker' = "ok"
    BY <1>0
  <2> QED
    BY <1>1, <2>6, <2>7, <2>8, <2>9, SameIInv
<1> QED
  BY <1>2, <1>3

-----------------------------------------------------------------------------

LEMMA LoadRecordIInv == ASSUME IInv, LoadRecord PROVE IInv'
<1> USE DEF LoadRecord, Handler, results, encryption, saving
<1>0. TypeOK /\ worker = "none" /\ NewProcess \in Processes
  BY DEF IInv, Flow, NewProcess, Processes
<1>1. /\ procs' \in Seq(Processes) /\ Len(procs') = Len(procs) + 1
      /\ procs'[Len(procs) + 1] = NewProcess
      /\ \A n \in 1..Len(procs) : procs'[n] = procs[n]
  BY <1>0 DEF TypeOK
<1>2. TypeOK'
  <2>1. prevOn' \in BOOLEAN /\ compareFailed' \in BOOLEAN
    OBVIOUS
  <2>2. Len(procs) \in Nat /\ Len(procs') <= MaxProcs /\ current' = Len(procs')
    BY <1>0, <1>1, MaxProcsAssumption DEF TypeOK
  <2>3. encrypted \in 0..Len(procs') /\ recorded \in 0..Len(procs')
    BY <1>0, <1>1, <2>2 DEF TypeOK
  <2>4. savers \subseteq 1..Len(procs')
    BY <1>0, <1>1, <2>2 DEF TypeOK
  <2>5. /\ step' \in 1..8 /\ nextCmd' \in 0..8 /\ screen' \in Screens
        /\ task' \in {"none", "compare", "record"}
    BY <1>0 DEF TypeOK
  <2> QED
    BY <1>0, <1>1, <2>1, <2>2, <2>3, <2>4, <2>5 DEF TypeOK
<1>3. Flow'
  BY <1>0 DEF IInv, Flow, TypeOK
<1>4. Outcome'
  <2>1. "r5" \notin NewProcess.steps /\ "r6" \notin NewProcess.steps
    BY DEF NewProcess
  <2>2. encrypted # 0 => encrypted \in 1..Len(procs)
    BY <1>0 DEF TypeOK
  <2>3. ASSUME NEW n \in 1..Len(procs'), {"r5", "r6"} \cap procs'[n].steps # {}
        PROVE  n \in 1..Len(procs) /\ procs'[n] = procs[n]
    BY <1>0, <1>1, <2>1, <2>3 DEF TypeOK
  <2> QED
    BY <1>0, <1>1, <2>2, <2>3 DEF IInv, Outcome
<1>5. Written' /\ PendingGone'
  BY <1>0 DEF Written, PendingGone
<1>6. SealedOnDisk'
  <2>1. encrypted # 0 => procs'[encrypted].sealed = procs[encrypted].sealed
    BY <1>0, <1>1 DEF TypeOK
  <2>2. UNCHANGED <<disk, results>>
    OBVIOUS
  <2> QED
    BY <2>1, <2>2, SealedKept DEF results
<1> QED
  BY <1>2, <1>3, <1>4, <1>5, <1>6 DEF IInv

LEMMA LeaveR3IInv ==
  ASSUME IInv, NEW derived \in SUBSET Files, LeaveR3(derived) PROVE IInv'
<1> USE DEF LeaveR3, Handler, results, encryption, saving
<1>0. TypeOK /\ current # 0 /\ procs[current] \in Processes
  BY DEF IInv, Flow, TypeOK
<1>t. prevOn' \in BOOLEAN
  OBVIOUS
<1>1. CASE unknown = {}
  <2>1. TypeOK' /\ Flow'
    BY <1>0, <1>1, <1>t DEF IInv, Flow, TypeOK
  <2> QED
    BY <1>1, <2>1, QuietIInv
<1>2. CASE unknown # {}
  <2> DEFINE q == [procs[current] EXCEPT !.derived = derived]
  <2>1. procs' = [procs EXCEPT ![current] = q]
    BY <1>2
  <2>2. /\ q \in Processes /\ q.sealed = procs[current].sealed
        /\ q.record = procs[current].record /\ q.steps = procs[current].steps
    BY <1>0 DEF Processes
  <2> HIDE DEF q
  <2>3. procs' \in Seq(Processes) /\ Len(procs') = Len(procs)
    BY <1>0, <2>1, <2>2, SetProcess
  <2>4. TypeOK' /\ Flow'
    BY <1>0, <1>t, <2>3 DEF IInv, Flow, TypeOK
  <2> QED
    BY <1>0, <2>1, <2>2, <2>4, ProcessIInv
<1> QED
  BY <1>1, <1>2

LEMMA SplitKeyIInv == ASSUME IInv, SplitKey PROVE IInv'
<1> USE DEF SplitKey, Handler, results, encryption, saving
<1>0. TypeOK /\ current # 0 /\ procs[current] \in Processes
  BY DEF IInv, Flow, TypeOK
<1> DEFINE q == [procs[current] EXCEPT !.steps = @ \cup {"r7"}]
<1>1. procs' = [procs EXCEPT ![current] = q]
  OBVIOUS
<1>2. /\ q \in Processes /\ q.sealed = procs[current].sealed
      /\ q.record = procs[current].record
      /\ "r5" \in q.steps <=> "r5" \in procs[current].steps
      /\ "r6" \in q.steps <=> "r6" \in procs[current].steps
  BY <1>0 DEF Processes
<1> HIDE DEF q
<1>3. procs' \in Seq(Processes) /\ Len(procs') = Len(procs)
  BY <1>0, <1>1, <1>2, SetProcess
<1>4. savers' \subseteq 1..Len(procs) /\ prevOn' \in BOOLEAN
  <2>1. current \in 1..Len(procs) /\ savers \subseteq 1..Len(procs)
    BY <1>0 DEF TypeOK
  <2> QED
    BY <2>1 DEF StartSave
<1>5. TypeOK' /\ Flow'
  BY <1>0, <1>3, <1>4 DEF IInv, Flow, TypeOK
<1>6. screen = "wizard" /\ screen' = "wizard" /\ UNCHANGED <<current, results, stored, encryption>>
  OBVIOUS
<1> QED
  BY <1>0, <1>1, <1>2, <1>5, <1>6, ProcessIInv

LEMMA GoNextIInv == ASSUME IInv, GoNext PROVE IInv'
<1>1. CASE RetryCompare \/ RetryRecord
  <2> USE <1>1 DEF RetryCompare, RetryRecord, Handler, session, results,
                   encryption, saving
  <2>1. prevOn' \in BOOLEAN /\ compareFailed' \in BOOLEAN
    BY DEF IInv, TypeOK
  <2>2. task' \in {"compare", "record"} /\ (task' = "record" => encrypted # 0)
    BY DEF RecordTask
  <2>3. current # 0 /\ step' = step /\ nextCmd' = nextCmd
    BY DEF IInv, Flow
  <2>4. UNCHANGED <<procs, current, unknown, encrypted, recorded, savers, stored,
                    screen, worker, todo, at, done, disk>>
    OBVIOUS
  <2>5. TypeOK'
    BY <2>1, <2>2, <2>3, <2>4 DEF IInv, TypeOK
  <2>6. Flow'
    BY <2>2, <2>3, <2>4 DEF IInv, Flow
  <2> QED
    BY <2>4, <2>5, <2>6, QuietIInv
<1>2. CASE LeaveR2 \/ LeaveR4 \/ LeaveR5 \/ LeaveR6
  <2>1. PICK s \in {3, 5, 6, 7} : Show(s) /\ step > 1
    BY <1>2 DEF LeaveR2, LeaveR4, LeaveR5, LeaveR6
  <2>2. screen = "wizard" /\ UNCHANGED <<nextCmd, current, unknown, results, stored>>
    BY <1>2 DEF LeaveR2, LeaveR4, LeaveR5, LeaveR6, Handler
  <2>3. current # 0 /\ s \in 1..8
    BY <2>1 DEF IInv, Flow
  <2> QED
    BY <2>1, <2>2, <2>3, ShowIInv
<1>3. CASE StaysAtEnd
  <2> USE <1>3 DEF StaysAtEnd, vars, nav, session, results, encryption, saving
  <2>1. TypeOK' /\ Flow'
    BY DEF IInv, TypeOK, Flow
  <2> QED
    BY <2>1, QuietIInv
<1> QED
  BY <1>1, <1>2, <1>3, LoadRecordIInv, LeaveR3IInv, SplitKeyIInv DEF GoNext

LEMMA NavigateIInv == ASSUME IInv, Navigate PROVE IInv'
<1>1. ASSUME NEW s \in 1..8, Handler, Move(s), step > 1 \/ nextCmd # 0,
             nextCmd' \in {0, nextCmd}
      PROVE  IInv'
  <2>1. current # 0 /\ screen = "wizard"
    BY <1>1 DEF IInv, Flow, Handler
  <2> QED
    BY <1>1, <2>1, ShowIInv DEF Move
<1>t. step \in 1..8 /\ nextCmd \in 0..8
  BY DEF IInv, TypeOK
<1>2. CASE GoPrev
  BY <1>1, <1>2, <1>t DEF GoPrev
<1>3. CASE ReturnToActual
  <2>1. Handler /\ nextCmd \in 1..8 /\ nextCmd' \in {0, nextCmd} /\ Move(nextCmd)
    BY <1>3, <1>t DEF ReturnToActual
  <2> QED
    BY <1>1, <2>1
<1>4. CASE \E k \in 1..7 : StepClick(k)
  <2> PICK k \in 1..7 : StepClick(k)
    BY <1>4
  <2>1. Handler /\ step > 1 /\ nextCmd' \in {0, nextCmd} /\ Move(k) /\ k \in 1..8
    BY <1>t DEF StepClick
  <2> QED
    BY <1>1, <2>1
<1>5. CASE \E k \in 1..7 : ShowReadonly(k)
  <2> PICK k \in 1..7 : ShowReadonly(k)
    BY <1>5
  <2> USE DEF ShowReadonly, Handler, session, results, encryption, saving
  <2>1. step' \in 1..8 /\ nextCmd' \in 0..8 /\ current # 0 /\ encrypted # 0
    BY DEF IInv, TypeOK, Flow
  <2>2. prevOn' \in BOOLEAN /\ compareFailed' \in BOOLEAN
    OBVIOUS
  <2>3. TypeOK' /\ Flow'
    BY <2>1, <2>2 DEF IInv, TypeOK, Flow
  <2> QED
    BY <2>3, QuietIInv
<1> QED
  BY <1>2, <1>3, <1>4, <1>5 DEF Navigate

-----------------------------------------------------------------------------

\* What Idle leaves: a wizard that is not busy.
LEMMA IdleTyped ==
  ASSUME Idle PROVE task' = "none" /\ prevOn' \in BOOLEAN
BY DEF Idle

LEMMA TasksIInv == ASSUME IInv, Tasks PROVE IInv'
<1> USE DEF session, results, encryption, saving
<1>1. CASE Compared
  <2> USE <1>1 DEF Compared
  <2>0. TypeOK /\ current # 0 /\ procs[current] \in Processes
    BY DEF IInv, Flow, TypeOK
  <2> PICK readable \in SUBSET Files :
         /\ procs' = [procs EXCEPT ![current].steps = @ \cup {"r2"},
                                   ![current].known = readable \cap Recorded]
         /\ unknown' = readable \ Recorded
    OBVIOUS
  <2> DEFINE q == [procs[current] EXCEPT !.steps = @ \cup {"r2"},
                                         !.known = readable \cap Recorded]
  <2>1. procs' = [procs EXCEPT ![current] = q]
    BY <2>0 DEF TypeOK, Processes
  <2>2. /\ q \in Processes /\ q.sealed = procs[current].sealed
        /\ q.record = procs[current].record
        /\ "r5" \in q.steps <=> "r5" \in procs[current].steps
        /\ "r6" \in q.steps <=> "r6" \in procs[current].steps
    BY <2>0 DEF Processes
  <2> HIDE DEF q
  <2>3. procs' \in Seq(Processes) /\ Len(procs') = Len(procs)
    BY <2>0, <2>1, <2>2, SetProcess
  <2>4. task' = "none" /\ prevOn' \in BOOLEAN
    BY IdleTyped
  <2>5. TypeOK' /\ Flow'
    BY <2>0, <2>3, <2>4 DEF IInv, Flow, TypeOK
  <2>6. screen = "wizard" /\ screen' = "wizard" /\ UNCHANGED <<current, results, stored, encryption>>
    OBVIOUS
  <2> QED
    BY <2>0, <2>1, <2>2, <2>5, <2>6, ProcessIInv
<1>2. CASE CompareFails \/ RecordFails
  <2> USE <1>2 DEF CompareFails, RecordFails
  <2>1. task' = "none" /\ prevOn' \in BOOLEAN /\ compareFailed' \in BOOLEAN
    BY IdleTyped DEF IInv, TypeOK
  <2>2. TypeOK' /\ Flow'
    BY <2>1 DEF IInv, Flow, TypeOK
  <2> QED
    BY <2>2, QuietIInv
<1>3. CASE Recording
  <2> USE <1>3 DEF Recording
  <2>0. TypeOK /\ worker = "none" /\ current # 0 /\ procs[current] \in Processes
    BY DEF IInv, Flow, TypeOK
  <2>e. encrypted # 0 /\ current = encrypted /\ current \in 1..Len(procs)
    BY <2>0 DEF IInv, Outcome, TypeOK
  <2> DEFINE q == [procs[current] EXCEPT !.steps = @ \cup {"r6"}, !.record = procs[current].sealed]
  <2>1. procs' = [procs EXCEPT ![current] = q]
    BY <2>0 DEF TypeOK, Processes
  <2>2. /\ q \in Processes /\ q.sealed = procs[current].sealed
        /\ q.record = procs[current].sealed
        /\ "r5" \in q.steps <=> "r5" \in procs[current].steps
    BY <2>0 DEF Processes
  <2> HIDE DEF q
  <2>3. /\ procs' \in Seq(Processes) /\ Len(procs') = Len(procs)
        /\ procs'[current] = q
        /\ \A n \in 1..Len(procs) : n # current => procs'[n] = procs[n]
    BY <2>0, <2>1, <2>2, SetProcess
  <2>4. task' = "none" /\ prevOn' \in BOOLEAN
    BY IdleTyped
  <2>5. TypeOK' /\ Flow'
    BY <2>0, <2>3, <2>4, <2>e DEF IInv, Flow, TypeOK
  <2>6. Outcome'
    BY <2>2, <2>3, <2>e DEF IInv, Outcome
  <2>7. Written' /\ PendingGone'
    BY <2>0 DEF Written, PendingGone
  <2>8. SealedOnDisk'
    <3>1. procs'[encrypted].sealed = procs[encrypted].sealed
      BY <2>2, <2>3, <2>e
    <3>2. UNCHANGED <<disk, encrypted>>
      OBVIOUS
    <3> QED
      BY <3>1, <3>2, SealedKept
  <2> QED
    BY <2>5, <2>6, <2>7, <2>8 DEF IInv
<1> QED
  BY <1>1, <1>2, <1>3 DEF Tasks

-----------------------------------------------------------------------------

\* A worker that runs: the encryption is open, no process has r5.
LEMMA Running ==
  ASSUME IInv, worker = "running"
  PROVE  /\ TypeOK /\ encrypted = 0 /\ current # 0 /\ screen \notin {"wizard", "closed"}
         /\ procs[current] \in Processes
         /\ \A n \in 1..Len(procs) : "r5" \notin procs[n].steps /\ "r6" \notin procs[n].steps
<1>1. TypeOK /\ encrypted = 0 /\ current # 0 /\ screen \notin {"wizard", "closed"}
  BY DEF IInv, Flow
<1> QED
  BY <1>1 DEF IInv, Outcome, TypeOK

LEMMA WorkerTakesIInv == ASSUME IInv, NEW f \in Files, WorkerTakes(f) PROVE IInv'
<1> USE DEF WorkerTakes, rest, nav, results, saving
<1>0. /\ TypeOK /\ encrypted = 0 /\ current # 0 /\ screen \notin {"wizard", "closed"}
      /\ procs[current] \in Processes
  BY Running
<1> DEFINE q == [procs[current] EXCEPT !.pending = @ \cup {EncPath[f]}]
<1>1. procs' = [procs EXCEPT ![current] = q]
  OBVIOUS
<1>2. /\ q \in Processes /\ q.sealed = procs[current].sealed
      /\ q.record = procs[current].record /\ q.steps = procs[current].steps
  BY <1>0, FilesAssumption DEF Processes
<1> HIDE DEF q
<1>3. procs' \in Seq(Processes) /\ Len(procs') = Len(procs) /\ SameResults
  BY <1>0, <1>1, <1>2, SetProcess DEF SameResults
<1>4. TypeOK'
  BY <1>0, <1>3 DEF TypeOK
<1>5. Flow' /\ PendingGone'
  BY <1>0 DEF IInv, Flow, PendingGone
<1>6. Written'
  BY <1>0 DEF IInv, Written, Holds
<1> QED
  BY <1>3, <1>4, <1>5, <1>6, SameIInv

\* What the worker has finished stays when it changes the output at hand.
LEMMA DiskIInv ==
  ASSUME IInv, worker = "running", worker' = "running",
         UNCHANGED <<screen, nav, current, unknown, task, compareFailed, results,
                     saving, procs, todo>>,
         TypeOK', Written'
  PROVE  IInv'
<1> USE DEF nav, results, saving
<1>0. /\ TypeOK /\ encrypted = 0 /\ screen \notin {"wizard", "closed"}
      /\ \A n \in 1..Len(procs) : "r5" \notin procs[n].steps /\ "r6" \notin procs[n].steps
  BY Running
<1>1. Flow'
  BY DEF IInv, Flow
<1>2. Outcome'
  BY <1>0 DEF IInv, Outcome
<1>3. SealedOnDisk' /\ PendingGone'
  BY <1>0 DEF SealedOnDisk, PendingGone
<1> QED
  BY <1>1, <1>2, <1>3 DEF IInv

LEMMA WorkerWritesIInv == ASSUME IInv, WorkerWrites PROVE IInv'
<1> USE DEF WorkerWrites, rest, nav, results, saving
<1>0. TypeOK /\ at \in Files /\ current \in Proc
  <2>1. TypeOK /\ current # 0
    BY Running
  <2> QED
    BY <2>1, MaxProcsAssumption DEF TypeOK, Proc
<1>1. TypeOK'
  <2>1. [file |-> at, key |-> current, whole |-> FALSE] \in Output
    BY <1>0 DEF Output
  <2>2. disk' \in [Paths -> Output \cup {None}]
    BY <1>0, <2>1 DEF TypeOK
  <2> QED
    BY <1>0, <2>2 DEF TypeOK
<1>2. Written'
  <2>1. \A p \in Paths : p # EncPath[at] => disk'[p] = disk[p]
    BY <1>0 DEF TypeOK
  <2>2. \A i \in DOMAIN done : EncPath[done[i]] \in Paths
    BY <1>0, FilesAssumption DEF TypeOK
  <2>3. ASSUME NEW i \in DOMAIN done, EncPath[at] # EncPath[done[i]]
        PROVE  Holds(done, current, i)'
    <3>1. Holds(done, current, i)
      BY <2>3 DEF IInv, Written
    <3>2. disk'[EncPath[done[i]]] = disk[EncPath[done[i]]]
      BY <2>1, <2>2, <2>3
    <3> QED
      BY <3>1, <3>2 DEF Holds
  <2> QED
    BY <2>3 DEF Written
<1> QED
  BY <1>1, <1>2, DiskIInv

\* Completing an output keeps its file and its key.
LEMMA SetWhole ==
  ASSUME NEW o \in Output, NEW w \in BOOLEAN
  PROVE  [o EXCEPT !.whole = w] = [file |-> o.file, key |-> o.key, whole |-> w]
BY DEF Output

LEMMA WorkerFinishesIInv == ASSUME IInv, WorkerFinishes PROVE IInv'
<1> USE DEF WorkerFinishes, rest, nav, results, saving
<1>0. TypeOK /\ at \in Files /\ current \in Proc /\ EncPath[at] \in Paths
  <2>1. TypeOK /\ current # 0
    BY Running
  <2> QED
    BY <2>1, MaxProcsAssumption, FilesAssumption DEF TypeOK, Proc
<1>d. /\ disk'[EncPath[at]] = [file |-> at, key |-> current, whole |-> TRUE]
      /\ \A p \in Paths : p # EncPath[at] => disk'[p] = disk[p]
      /\ disk' \in [Paths -> Output \cup {None}]
  <2> DEFINE o == [file |-> at, key |-> current, whole |-> TRUE]
  <2>1. o \in Output
    BY <1>0 DEF Output
  <2>2. /\ disk[EncPath[at]] \in Output /\ disk[EncPath[at]].file = at
        /\ disk[EncPath[at]].key = current
    BY <1>0 DEF Output
  <2>3. [disk[EncPath[at]] EXCEPT !.whole = TRUE] = o
    BY <2>2, SetWhole
  <2>4. disk' = [disk EXCEPT ![EncPath[at]] = o]
    BY <2>3
  <2> HIDE DEF o
  <2>5. /\ disk'[EncPath[at]] = o /\ \A p \in Paths : p # EncPath[at] => disk'[p] = disk[p]
        /\ disk' \in [Paths -> Output \cup {None}]
    BY <1>0, <2>1, <2>4 DEF TypeOK
  <2> QED
    BY <2>5 DEF o
<1>s. /\ done \in Seq(Files) /\ done' \in Seq(Files) /\ Len(done') = Len(done) + 1
      /\ done'[Len(done) + 1] = at /\ \A i \in 1..Len(done) : done'[i] = done[i]
  BY <1>0 DEF TypeOK
<1>1. TypeOK'
  BY <1>0, <1>d, <1>s DEF TypeOK
<1>2. Written'
  <2>1. ASSUME NEW i \in 1..Len(done),
               \A j \in i + 1 .. Len(done') : EncPath[done'[j]] # EncPath[done'[i]]
        PROVE  disk'[EncPath[done[i]]] = [file |-> done[i], key |-> current, whole |-> TRUE]
    <3>1. EncPath[at] # EncPath[done[i]] /\ EncPath[done[i]] \in Paths
      BY <1>s, <2>1, FilesAssumption
    <3>2. \A j \in i + 1 .. Len(done) : EncPath[done[j]] # EncPath[done[i]]
      BY <1>s, <2>1
    <3>3. i \in DOMAIN done /\ Holds(done, current, i)
      BY <1>s, <3>1 DEF IInv, Written
    <3> QED
      BY <1>d, <3>1, <3>2, <3>3 DEF Holds
  <2>2. ASSUME NEW i \in DOMAIN done' PROVE Holds(done, current, i)'
    <3>1. i \in 1..Len(done) \/ i = Len(done) + 1
      BY <1>s
    <3>2. CASE i \in 1..Len(done)
      BY <1>s, <2>1, <3>2 DEF Holds
    <3>3. CASE i = Len(done) + 1
      BY <1>s, <1>d, <3>3 DEF Holds
    <3> QED
      BY <3>1, <3>2, <3>3
  <2> QED
    BY <2>2 DEF Written
<1> QED
  BY <1>1, <1>2, DiskIInv

LEMMA WorkerFailsIInv == ASSUME IInv, WorkerFails PROVE IInv'
<1> USE DEF WorkerFails, rest, nav, results, saving
<1>0. /\ TypeOK /\ encrypted = 0 /\ current # 0 /\ screen \notin {"wizard", "closed"}
      /\ \A n \in 1..Len(procs) : "r5" \notin procs[n].steps /\ "r6" \notin procs[n].steps
  BY Running
<1>1. TypeOK'
  BY <1>0 DEF TypeOK
<1>2. Flow' /\ Outcome'
  BY <1>0 DEF IInv, Flow, Outcome
<1>3. Written' /\ SealedOnDisk' /\ PendingGone'
  BY <1>0 DEF Written, SealedOnDisk, PendingGone
<1> QED
  BY <1>1, <1>2, <1>3 DEF IInv

LEMMA WorkerEndsIInv == ASSUME IInv, WorkerEnds PROVE IInv'
<1> USE DEF WorkerEnds, rest, nav, results, saving
<1>0. /\ TypeOK /\ encrypted = 0 /\ current # 0 /\ screen \notin {"wizard", "closed"}
      /\ procs[current] \in Processes
      /\ \A n \in 1..Len(procs) : "r5" \notin procs[n].steps /\ "r6" \notin procs[n].steps
  BY Running
<1>p. /\ procs[current].steps \subseteq {"r2", "r5", "r6", "r7"}
      /\ current \in 1..Len(procs) /\ done \in Seq(Files)
  BY <1>0 DEF TypeOK, Processes
<1> DEFINE q == [procs[current] EXCEPT !.steps = @ \cup {"r5"}, !.sealed = done]
<1>1. procs' = [procs EXCEPT ![current] = q]
  BY <1>0 DEF TypeOK, Processes
<1>2. /\ q \in Processes /\ q.sealed = done /\ q.steps = procs[current].steps \cup {"r5"}
  BY <1>0, <1>p DEF Processes
<1> HIDE DEF q
<1>3. /\ procs' \in Seq(Processes) /\ Len(procs') = Len(procs)
      /\ procs'[current] = q
      /\ \A n \in 1..Len(procs) : n # current => procs'[n] = procs[n]
  BY <1>0, <1>1, <1>2, SetProcess
<1>4. TypeOK'
  BY <1>0, <1>3 DEF TypeOK
<1>5. Flow'
  BY <1>0 DEF IInv, Flow
<1>6. Outcome'
  BY <1>0, <1>p, <1>2, <1>3 DEF IInv, Outcome
<1>7. Written'
  <2>1. \A i \in DOMAIN done : Holds(done, current, i)
    BY DEF IInv, Written
  <2> QED
    BY <1>2, <1>3, <2>1 DEF Written, Holds
<1>8. SealedOnDisk' /\ PendingGone'
  BY <1>0 DEF SealedOnDisk, PendingGone
<1> QED
  BY <1>4, <1>5, <1>6, <1>7, <1>8 DEF IInv

LEMMA WorkerIInv == ASSUME IInv, Worker PROVE IInv'
BY WorkerTakesIInv, WorkerWritesIInv, WorkerFinishesIInv, WorkerFailsIInv,
   WorkerEndsIInv DEF Worker

-----------------------------------------------------------------------------

LEMMA DialogIInv == ASSUME IInv, DialogCompletes \/ DialogFails PROVE IInv'
<1> USE DEF nav, session, results, saving
<1>0. TypeOK /\ (screen = "dialog" => encrypted = 0 /\ current # 0 /\ current \in 1..Len(procs))
  BY DEF IInv, Flow, TypeOK
<1>1. CASE DialogCompletes
  <2> USE <1>1 DEF DialogCompletes
  <2>1. TypeOK'
    <3>1. prevOn' \in BOOLEAN
      OBVIOUS
    <3> QED
      BY <1>0, <3>1 DEF TypeOK, Screens
  <2>2. Flow'
    BY <1>0 DEF IInv, Flow
  <2>3. Outcome'
    BY <1>0 DEF IInv, Outcome
  <2>4. SealedOnDisk'
    <3>1. \A i \in DOMAIN procs[current].sealed : Holds(procs[current].sealed, current, i)
      BY DEF IInv, Written
    <3> QED
      BY <3>1 DEF SealedOnDisk, Holds
  <2>5. Written' /\ PendingGone'
    BY DEF Written, PendingGone
  <2> QED
    BY <2>1, <2>2, <2>3, <2>4, <2>5 DEF IInv
<1>2. CASE DialogFails
  <2> USE <1>2 DEF DialogFails
  <2>1. TypeOK' /\ Flow'
    BY <1>0 DEF IInv, TypeOK, Screens, Flow
  <2>2. SameResults /\ Written' /\ PendingGone'
    BY DEF SameResults, Written, PendingGone
  <2>3. UNCHANGED <<current, results, stored, disk>> /\ (worker = "ok" => worker' = "ok")
    OBVIOUS
  <2> QED
    BY <2>1, <2>2, <2>3, SameIInv, Zenon
<1> QED
  BY <1>1, <1>2

LEMMA SaveIInv == ASSUME IInv, NEW n \in Proc, Save(n) PROVE IInv'
<1> USE DEF Save, nav, session, results, encryption
<1>0. TypeOK /\ n \in 1..Len(procs) /\ procs[n] \in Processes
  BY DEF IInv, TypeOK
<1>1. \/ stored' = stored
      \/ /\ "r5" \in procs[n].steps /\ "r6" \in procs[n].steps
         /\ stored' = [proc |-> n, record |-> procs[n].record]
  <2>1. CASE {"r5", "r6", "r7"} \subseteq procs[n].steps
    BY <2>1
  <2>2. CASE ~({"r5", "r6", "r7"} \subseteq procs[n].steps)
    BY <2>2
  <2> QED
    BY <2>1, <2>2
<1>2. TypeOK'
  <2>1. stored' \in Bundles
    BY <1>0, <1>1 DEF TypeOK, Bundles, Processes, Proc
  <2> QED
    BY <1>0, <2>1 DEF TypeOK
<1>3. Flow' /\ Written' /\ PendingGone'
  BY DEF IInv, Flow, Written, Holds, PendingGone, Pending
<1>4. Outcome'
  BY <1>0, <1>1 DEF IInv, Outcome
<1>5. SealedOnDisk'
  BY SealedKept
<1> QED
  BY <1>2, <1>3, <1>4, <1>5 DEF IInv

\* Deleting the outputs of the last run, once no worker runs.
LEMMA CleanUpIInv ==
  ASSUME IInv, CleanUp, task' = "none", worker # "running",
         UNCHANGED <<nav, session, compareFailed, results, worker, todo, at,
                     done, saving>>,
         encrypted # 0 => worker = "none"
  PROVE  IInv'
<1> USE DEF nav, session, results, saving
<1>0. TypeOK
  BY DEF IInv
<1>d. /\ disk' \in [Paths -> Output \cup {None}]
      /\ screen' \in {"closed", "left"}
      /\ encrypted # 0 => disk' = disk /\ screen' = "closed"
      /\ encrypted = 0 /\ screen' = "closed" => \A p \in Pending : disk'[p] = None
  <2>1. current # 0 => procs[current] \in Processes
    BY <1>0 DEF TypeOK
  <2>2. Pending \subseteq Paths
    BY <2>1 DEF Pending, Processes
  <2>3. CASE encrypted # 0
    BY <1>0, <2>3 DEF CleanUp, TypeOK
  <2>4. CASE encrypted = 0
    <3>1. RemovePending
      BY <2>4 DEF CleanUp
    <3>2. PICK kept \in SUBSET {p \in Pending : disk[p] # None} :
            /\ disk' = [p \in Paths |-> IF p \in Pending \ kept THEN None ELSE disk[p]]
            /\ screen' = IF kept = {} THEN "closed" ELSE "left"
      BY <3>1 DEF RemovePending
    <3> QED
      BY <1>0, <2>2, <2>4, <3>2 DEF TypeOK
  <2> QED
    BY <2>3, <2>4
<1>1. TypeOK'
  BY <1>0, <1>d DEF TypeOK, Screens
<1>2. Flow' /\ Outcome' /\ Written'
  BY <1>d DEF IInv, Flow, Outcome, Written
<1>3. SealedOnDisk'
  <2>1. CASE encrypted = 0
    BY <2>1 DEF SealedOnDisk
  <2>2. CASE encrypted # 0
    BY <1>d, <2>2, SealedKept
  <2> QED
    BY <2>1, <2>2
<1>4. PendingGone'
  BY <1>d DEF PendingGone, Pending
<1> QED
  BY <1>1, <1>2, <1>3, <1>4 DEF IInv

LEMMA DestroyIInv == ASSUME IInv, Destroy PROVE IInv'
<1>1. CASE Close
  <2>1. /\ CleanUp /\ task' = "none" /\ screen = "wizard"
        /\ UNCHANGED <<nav, session, compareFailed, results, worker, todo, at,
                       done, saving>>
    BY <1>1 DEF Close
  <2>2. worker = "none"
    BY <2>1 DEF IInv, Flow
  <2> QED
    BY <2>1, <2>2, CleanUpIInv
<1>2. CASE CloseUnderDialog \/ JoinTimesOut
  <2> USE <1>2 DEF CloseUnderDialog, JoinTimesOut, nav, session, results,
                   encryption, saving
  <2>1. TypeOK' /\ Flow'
    BY DEF IInv, TypeOK, Screens, Flow
  <2>2. /\ UNCHANGED <<procs, current, results, stored, worker, at, done, disk>>
        /\ screen' \in {screen, "wizard", "joining", "left"}
    OBVIOUS
  <2> QED
    BY <2>1, <2>2, QuietIInv
<1>3. CASE Joined
  <2>1. /\ CleanUp /\ screen = "joining" /\ worker # "running"
        /\ UNCHANGED <<nav, session, task, compareFailed, results, worker, todo, at,
                       done, saving>>
    BY <1>3 DEF Joined
  <2>2. encrypted # 0 => worker = "none"
    BY DEF IInv, Flow
  <2>3. task = "none"
    BY <2>1 DEF IInv, Flow
  <2> QED
    BY <2>1, <2>2, <2>3, CleanUpIInv
<1> QED
  BY <1>1, <1>2, <1>3 DEF Destroy

-----------------------------------------------------------------------------

LEMMA NextIInv == IInv /\ [Next]_vars => IInv'
<1> SUFFICES ASSUME IInv, [Next]_vars PROVE IInv'
  OBVIOUS
<1>1. CASE UNCHANGED vars
  <2> USE <1>1 DEF vars, nav, session, results, encryption, saving
  <2>1. TypeOK' /\ Flow'
    BY DEF IInv, TypeOK, Flow
  <2> QED
    BY <2>1, QuietIInv
<1>2. CASE Next
  BY <1>2, GoNextIInv, NavigateIInv, TasksIInv, WorkerIInv, DestroyIInv,
     SaveIInv, DialogIInv DEF Next
<1> QED
  BY <1>1, <1>2

\* The strengthened invariant holds throughout: what a run of R5 leaves on disk
\* belongs to the process that the wizard holds as its encryption.
THEOREM Invariance == Spec => []IInv
BY InitIInv, NextIInv, PTL DEF Spec

-----------------------------------------------------------------------------

\* Every variable of the wizard, its processes and its save threads keeps its
\* type (reseal_wizard.py, _go_next to _run_r8_save).
THEOREM TypeCorrect == Spec => []TypeOK
<1>1. IInv => TypeOK
  BY DEF IInv
<1> QED
  BY <1>1, Invariance, PTL

\* Whatever is cancelled, tried again, validated again or closed, the outputs
\* of the finished encryption are whole and under the key of its process
\* (run_r5_encrypt, _cleanup_partial_encryption), except one that a later file
\* with the same stem has replaced.
THEOREM SealedOnDiskCorrect == Spec => []SealedOnDisk
<1>1. IInv => SealedOnDisk
  BY DEF IInv
<1> QED
  BY <1>1, Invariance, PTL

\* A bundle that a save thread stored, of whichever process it was started
\* with, has the shares of the key that opens the files of its record
\* (run_r8_save).
THEOREM StoredOpensCorrect == Spec => []StoredOpens
BY StoredOpensFromIInv, Invariance, PTL

\* A wizard closed without a finished encryption and without a warning has left
\* nothing of the last run of R5 of the process it had (cancel_and_join before
\* _cleanup_partial_encryption, whose os.remove may raise).
THEOREM PendingGoneCorrect == Spec => []PendingGone
<1>1. IInv => PendingGone
  BY DEF IInv
<1> QED
  BY <1>1, Invariance, PTL

-----------------------------------------------------------------------------
(***************************************************************************)
(* What reseal_key shows the beginning of.  A second validation of R1, once *)
(* the files are encrypted, puts a process without r5 in the place of the  *)
(* one that has the key; if that had not split it, no other step brings    *)
(* it back.                                                                *)
(***************************************************************************)

\* The key of the encryption that is kept is in a process that the wizard has
\* left, and nobody has a share of it.
KeyLost == encrypted # 0 /\ current # encrypted /\ "r7" \notin procs[encrypted].steps

\* A bundle is stored of a process that has split its key.
SplitFirst == stored.proc # 0 => "r7" \in procs[stored.proc].steps

\* The processes known so far stay and keep what they have done.
StepsKept ==
    \A n \in 1..Len(procs) : n \in 1..Len(procs') /\ procs[n].steps \subseteq procs'[n].steps

\* Only Return at R7 splits, with the key of the process the wizard holds.
SplitsCurrent ==
    \A n \in 1..Len(procs) : "r7" \in procs'[n].steps =>
       "r7" \in procs[n].steps \/ (n = current /\ "r5" \in procs[n].steps)

LEMMA CurrentSteps ==
  ASSUME TypeOK, current # 0, NEW q \in Processes, procs' = [procs EXCEPT ![current] = q],
         procs[current].steps \subseteq q.steps,
         "r7" \in q.steps => "r7" \in procs[current].steps \/ "r5" \in procs[current].steps
  PROVE  StepsKept /\ SplitsCurrent
<1>1. /\ Len(procs') = Len(procs) /\ procs'[current] = q
      /\ \A n \in 1..Len(procs) : n # current => procs'[n] = procs[n]
  BY SetProcess
<1>2. ASSUME NEW n \in 1..Len(procs)
      PROVE  /\ procs[n].steps \subseteq procs'[n].steps
             /\ "r7" \in procs'[n].steps =>
                  "r7" \in procs[n].steps \/ (n = current /\ "r5" \in procs[n].steps)
  <2>1. CASE n = current
    BY <1>1, <2>1
  <2>2. CASE n # current
    BY <1>1, <2>2
  <2> QED
    BY <2>1, <2>2
<1> QED
  BY <1>1, <1>2 DEF StepsKept, SplitsCurrent

LEMMA SameSteps ==
  ASSUME procs' = procs PROVE StepsKept /\ SplitsCurrent
BY DEF StepsKept, SplitsCurrent

\* Showing a step begins R5 at most, which forgets the paths of an earlier run.
LEMMA ShowSteps ==
  ASSUME IInv, current # 0, NEW s \in 1..8, Show(s) PROVE StepsKept /\ SplitsCurrent
<1>1. CASE ~Encrypts(s)
  BY <1>1, SameSteps DEF Show
<1>2. CASE Encrypts(s)
  <2> DEFINE q == [procs[current] EXCEPT !.pending = {}]
  <2>1. procs' = [procs EXCEPT ![current] = q]
    BY <1>2 DEF Show, OpenDialog, CollectFiles
  <2>2. TypeOK /\ procs[current] \in Processes
    BY DEF IInv, TypeOK
  <2>3. q \in Processes /\ q.steps = procs[current].steps
    BY <2>2 DEF Processes
  <2> HIDE DEF q
  <2> QED
    BY <2>1, <2>2, <2>3, CurrentSteps
<1> QED
  BY <1>1, <1>2

LEMMA LoadSteps ==
  ASSUME IInv, LoadRecord
  PROVE  /\ StepsKept /\ SplitsCurrent
         /\ current' = Len(procs) + 1 /\ UNCHANGED <<encrypted, stored>>
<1>1. procs \in Seq(Processes) /\ NewProcess \in Processes
  BY DEF IInv, TypeOK, NewProcess, Processes
<1>2. procs' = Append(procs, NewProcess)
  BY DEF LoadRecord
<1>3. \A n \in 1..Len(procs) : n \in 1..Len(procs') /\ procs'[n] = procs[n]
  BY <1>1, <1>2
<1>4. StepsKept /\ SplitsCurrent
  BY <1>3 DEF StepsKept, SplitsCurrent
<1> QED
  BY <1>4 DEF LoadRecord, results, saving

\* The other steps that GoNext, Navigate and the threads take.
HandlerSteps == StepsKept /\ SplitsCurrent /\ UNCHANGED <<current, encrypted, stored>>

LEMMA GoNextSteps ==
  ASSUME IInv, GoNext, ~LoadRecord PROVE HandlerSteps
<1> USE DEF results, saving, session
<1>0. TypeOK /\ (step > 1 => current # 0)
  BY DEF IInv, Flow
<1>1. CASE RetryCompare \/ RetryRecord \/ StaysAtEnd
  <2>1. UNCHANGED <<procs, current, encrypted, stored>>
    BY <1>1 DEF RetryCompare, RetryRecord, StaysAtEnd, vars
  <2> QED
    BY <2>1, SameSteps DEF HandlerSteps
<1>2. CASE LeaveR2 \/ LeaveR4 \/ LeaveR5 \/ LeaveR6
  <2>1. /\ current # 0 /\ UNCHANGED <<current, encrypted, stored>>
        /\ Show(3) \/ Show(5) \/ Show(6) \/ Show(7)
    BY <1>0, <1>2 DEF LeaveR2, LeaveR4, LeaveR5, LeaveR6
  <2> QED
    BY <2>1, ShowSteps DEF HandlerSteps
<1>3. CASE \E derived \in SUBSET Files : LeaveR3(derived)
  <2>1. PICK derived \in SUBSET Files : LeaveR3(derived)
    BY <1>3
  <2> DEFINE q == [procs[current] EXCEPT !.derived = derived]
  <2>2. /\ procs' = procs \/ procs' = [procs EXCEPT ![current] = q]
        /\ current # 0 /\ UNCHANGED <<current, encrypted, stored>>
    BY <1>0, <2>1 DEF LeaveR3
  <2>3. procs[current] \in Processes
    BY <1>0, <2>2 DEF TypeOK
  <2>4. q \in Processes /\ q.steps = procs[current].steps
    BY <2>3 DEF Processes
  <2> HIDE DEF q
  <2> QED
    BY <1>0, <2>2, <2>4, SameSteps, CurrentSteps DEF HandlerSteps
<1>4. CASE SplitKey
  <2> DEFINE q == [procs[current] EXCEPT !.steps = @ \cup {"r7"}]
  <2>1. /\ procs' = [procs EXCEPT ![current] = q] /\ "r5" \in procs[current].steps
        /\ current # 0 /\ UNCHANGED <<current, encrypted, stored>>
    BY <1>0, <1>4 DEF SplitKey
  <2>2. procs[current] \in Processes
    BY <1>0, <2>1 DEF TypeOK
  <2>3. q \in Processes /\ procs[current].steps \subseteq q.steps
    BY <2>2 DEF Processes
  <2> HIDE DEF q
  <2> QED
    BY <1>0, <2>1, <2>3, CurrentSteps DEF HandlerSteps
<1> QED
  BY <1>1, <1>2, <1>3, <1>4 DEF GoNext

LEMMA NavigateSteps == ASSUME IInv, Navigate PROVE HandlerSteps
<1> USE DEF results, saving, session
<1>1. CASE \E k \in 1..7 : ShowReadonly(k)
  <2>1. UNCHANGED <<procs, current, encrypted, stored>>
    BY <1>1 DEF ShowReadonly
  <2> QED
    BY <2>1, SameSteps DEF HandlerSteps
<1>2. CASE GoPrev \/ ReturnToActual \/ \E k \in 1..7 : StepClick(k)
  <2>0. TypeOK /\ (step > 1 \/ nextCmd # 0 => current # 0)
    BY DEF IInv, Flow
  <2>1. PICK s \in 1..8 : Move(s) /\ current # 0
    <3>1. CASE GoPrev
      BY <2>0, <3>1 DEF GoPrev, TypeOK
    <3>2. CASE ReturnToActual
      BY <2>0, <3>2 DEF ReturnToActual, TypeOK
    <3>3. CASE \E k \in 1..7 : StepClick(k)
      BY <2>0, <3>3 DEF StepClick, TypeOK
    <3> QED
      BY <1>2, <3>1, <3>2, <3>3
  <2>2. Show(s) /\ UNCHANGED <<current, encrypted, stored>>
    BY <2>1 DEF Move
  <2> QED
    BY <2>1, <2>2, ShowSteps DEF HandlerSteps
<1> QED
  BY <1>1, <1>2 DEF Navigate

LEMMA TasksSteps == ASSUME IInv, Tasks PROVE HandlerSteps
<1> USE DEF results, saving, session
<1>0. TypeOK /\ (task # "none" => current # 0)
  BY DEF IInv, Flow
<1>1. CASE CompareFails \/ RecordFails
  <2>1. UNCHANGED <<procs, current, encrypted, stored>>
    BY <1>1 DEF CompareFails, RecordFails
  <2> QED
    BY <2>1, SameSteps DEF HandlerSteps
<1>2. CASE Compared
  <2>1. current # 0 /\ procs[current] \in Processes
    BY <1>0, <1>2 DEF Compared, TypeOK
  <2>2. PICK readable \in SUBSET Files :
          procs' = [procs EXCEPT ![current].steps = @ \cup {"r2"},
                                 ![current].known = readable \cap Recorded]
    BY <1>2 DEF Compared
  <2> DEFINE q == [procs[current] EXCEPT !.steps = @ \cup {"r2"},
                                         !.known = readable \cap Recorded]
  <2>3. procs' = [procs EXCEPT ![current] = q]
    BY <1>0, <2>1, <2>2 DEF TypeOK, Processes
  <2>4. /\ q \in Processes /\ procs[current].steps \subseteq q.steps
        /\ "r7" \in q.steps => "r7" \in procs[current].steps
    BY <2>1 DEF Processes
  <2>5. UNCHANGED <<current, encrypted, stored>>
    BY <1>2 DEF Compared
  <2> HIDE DEF q
  <2> QED
    BY <1>0, <2>1, <2>3, <2>4, <2>5, CurrentSteps DEF HandlerSteps
<1>3. CASE Recording
  <2>1. current # 0 /\ procs[current] \in Processes
    BY <1>0, <1>3 DEF Recording, TypeOK
  <2> DEFINE q == [procs[current] EXCEPT !.steps = @ \cup {"r6"}, !.record = procs[current].sealed]
  <2>2. procs' = [procs EXCEPT ![current] = q]
    BY <1>0, <1>3, <2>1 DEF Recording, TypeOK, Processes
  <2>3. /\ q \in Processes /\ procs[current].steps \subseteq q.steps
        /\ "r7" \in q.steps => "r7" \in procs[current].steps
    BY <2>1 DEF Processes
  <2>4. UNCHANGED <<current, encrypted, stored>>
    BY <1>3 DEF Recording
  <2> HIDE DEF q
  <2> QED
    BY <1>0, <2>1, <2>2, <2>3, <2>4, CurrentSteps DEF HandlerSteps
<1> QED
  BY <1>1, <1>2, <1>3 DEF Tasks

LEMMA WorkerSteps == ASSUME IInv, Worker PROVE HandlerSteps
<1> USE DEF rest, results, saving
<1>0. TypeOK /\ (worker # "none" => current # 0)
  BY DEF IInv, Flow
<1>1. UNCHANGED <<current, encrypted, stored>> /\ worker = "running"
  BY DEF Worker, WorkerWrites, WorkerFinishes, WorkerFails, WorkerEnds, WorkerTakes
<1>2. current # 0 /\ procs[current] \in Processes
  BY <1>0, <1>1 DEF TypeOK
<1>3. CASE WorkerWrites \/ WorkerFinishes \/ WorkerFails
  <2>1. procs' = procs
    BY <1>3 DEF WorkerWrites, WorkerFinishes, WorkerFails
  <2> QED
    BY <1>1, <2>1, SameSteps DEF HandlerSteps
<1>4. CASE \E f \in Files : WorkerTakes(f)
  <2>1. PICK f \in Files : WorkerTakes(f)
    BY <1>4
  <2> DEFINE q == [procs[current] EXCEPT !.pending = @ \cup {EncPath[f]}]
  <2>2. procs' = [procs EXCEPT ![current] = q]
    BY <2>1 DEF WorkerTakes
  <2>3. q \in Processes /\ q.steps = procs[current].steps
    BY <1>2, FilesAssumption DEF Processes
  <2> HIDE DEF q
  <2> QED
    BY <1>0, <1>1, <1>2, <2>2, <2>3, CurrentSteps DEF HandlerSteps
<1>5. CASE WorkerEnds
  <2> DEFINE q == [procs[current] EXCEPT !.steps = @ \cup {"r5"}, !.sealed = done]
  <2>1. procs' = [procs EXCEPT ![current] = q]
    BY <1>0, <1>2, <1>5 DEF WorkerEnds, TypeOK, Processes
  <2>2. done \in Seq(Files)
    BY <1>0 DEF TypeOK
  <2>3. /\ q \in Processes /\ procs[current].steps \subseteq q.steps
        /\ "r7" \in q.steps => "r7" \in procs[current].steps
    BY <1>2, <2>2 DEF Processes
  <2> HIDE DEF q
  <2> QED
    BY <1>0, <1>1, <1>2, <2>1, <2>3, CurrentSteps DEF HandlerSteps
<1> QED
  BY <1>3, <1>4, <1>5 DEF Worker

\* What a step does to what KeyLost and SplitFirst speak of.
LEMMA StepsNext ==
  ASSUME IInv, [Next]_vars
  PROVE  /\ StepsKept /\ SplitsCurrent
         /\ current' = current \/ current' = Len(procs) + 1
         /\ encrypted # 0 => encrypted' = encrypted
         /\ \/ stored' = stored
            \/ stored'.proc \in 1..Len(procs) /\ {"r5", "r7"} \subseteq procs[stored'.proc].steps
<1>1. CASE GoNext \/ Navigate \/ Tasks \/ Worker
  BY <1>1, LoadSteps, GoNextSteps, NavigateSteps, TasksSteps, WorkerSteps DEF HandlerSteps
<1>2. CASE Destroy \/ DialogFails \/ UNCHANGED vars
  <2>1. UNCHANGED <<procs, current, encrypted, stored>>
    BY <1>2 DEF Destroy, Close, CloseUnderDialog, Joined, JoinTimesOut, DialogFails,
       vars, session, results, saving
  <2> QED
    BY <2>1, SameSteps
<1>3. CASE DialogCompletes
  <2>1. encrypted = 0
    BY <1>3 DEF DialogCompletes, IInv, Flow
  <2>2. UNCHANGED <<procs, current, stored>>
    BY <1>3 DEF DialogCompletes, session, saving
  <2> QED
    BY <2>1, <2>2, SameSteps
<1>4. CASE \E n \in Proc : Save(n)
  <2>1. PICK n \in Proc : Save(n)
    BY <1>4
  <2>2. UNCHANGED <<procs, current, encrypted>> /\ n \in 1..Len(procs)
    BY <2>1 DEF Save, session, results, IInv, TypeOK
  <2>3. \/ stored' = stored
        \/ stored'.proc = n /\ {"r5", "r7"} \subseteq procs[n].steps
    BY <2>1 DEF Save
  <2> QED
    BY <2>2, <2>3, SameSteps
<1> QED
  BY <1>1, <1>2, <1>3, <1>4 DEF Next

LEMMA SplitFirstNext ==
  ASSUME IInv, SplitFirst, [Next]_vars PROVE SplitFirst'
<1>1. stored.proc # 0 => stored.proc \in 1..Len(procs)
  BY DEF IInv, TypeOK, Outcome
<1> QED
  BY <1>1, StepsNext DEF SplitFirst, StepsKept

LEMMA KeyLostNext ==
  ASSUME IInv, KeyLost, [Next]_vars PROVE KeyLost'
<1>1. encrypted \in 1..Len(procs) /\ Len(procs) \in Nat /\ encrypted' = encrypted
  BY StepsNext DEF KeyLost, IInv, TypeOK
<1>2. current' # encrypted
  BY <1>1, StepsNext DEF KeyLost
<1>3. "r7" \notin procs'[encrypted].steps
  BY <1>1, StepsNext DEF KeyLost, SplitsCurrent
<1> QED
  BY <1>1, <1>2, <1>3 DEF KeyLost

\* Nothing is ever stored that opens what was encrypted.
LostForGood == [](KeyLost => [](stored.proc = 0))

\* Once R1 was validated again after the encryption and before R7 split the key,
\* no click, retry or late thread gets a bundle with its shares stored, for any
\* number of validations and files (_validate_r1, _validate_r7, _run_r8_save):
\* what follows from the step that reseal_key finds.
THEOREM LostForGoodCorrect == Spec => LostForGood
<1>1. Init => SplitFirst
  BY DEF Init, SplitFirst
<1>2. IInv /\ SplitFirst /\ KeyLost => stored.proc = 0
  BY DEF IInv, Outcome, SplitFirst, KeyLost
<1>3. IInv /\ SplitFirst /\ [Next]_vars => SplitFirst'
  BY SplitFirstNext
<1>4. IInv /\ KeyLost /\ [Next]_vars => KeyLost'
  BY KeyLostNext
<1> QED
  BY <1>1, <1>2, <1>3, <1>4, InitIInv, NextIInv, PTL DEF Spec, LostForGood

=============================================================================
