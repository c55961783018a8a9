-------------------------- MODULE SealWizardProofs --------------------------
(***************************************************************************)
(* The wizard's invariants for every value of the constants.               *)
(*                                                                         *)
(* The strengthening is Session: what the worker is doing is tied to what  *)
(* the session knows.  A finished encryption excludes a worker, a worker   *)
(* has a job under the session's key, and a task that ended well while the *)
(* dialog is up has left a whole file.                                     *)
(***************************************************************************)
EXTENDS SealWizard, TLAPS

Whole(j) == files[j.path] = [job |-> j, extent |-> "whole"]

Session ==
    /\ sealed # None => worker = "none" /\ sealed.key = key /\ Whole(sealed)
    /\ worker # "none" => job \in Jobs /\ job.key = key
    /\ screen \in {"dialog", "joining"} => sealed = None
    /\ screen = "dialog" => worker # "none" /\ step = 1
    /\ screen = "dialog" /\ worker = "ok" => Whole(job)

Outcome ==
    /\ record # None => sealed # None /\ record.job = sealed
    /\ shares # None => sealed # None /\ shares = sealed.key

Threads == running + marks <= started

IInv == TypeOK /\ StepsInOrder /\ Session /\ Outcome /\ Threads

-----------------------------------------------------------------------------

LEMMA InitIInv == Init => IInv
<1> SUFFICES ASSUME Init PROVE IInv
  OBVIOUS
<1>b. prevOn \in BOOLEAN /\ signed \in BOOLEAN /\ cancelled \in BOOLEAN
  BY DEF Init
<1>1. TypeOK
  BY <1>b, MaxSignersAssumption DEF Init, TypeOK, Screens
<1>2. StepsInOrder
  BY DEF Init, StepsInOrder
<1>3. Session /\ Outcome /\ Threads
  BY DEF Init, Session, Outcome, Threads
<1> QED
  BY <1>1, <1>2, <1>3 DEF IInv

SignersOK ==
    /\ started \in 0..MaxSigners /\ running \in 0..MaxSigners /\ marks \in 0..MaxSigners
    /\ Threads

\* What an action that shows a step does to the variables of Show.
LEMMA ShowEffect ==
  ASSUME TypeOK, Threads, NEW s \in 1..7, Show(s)
  PROVE  /\ step' = s
         /\ prevOn' \in BOOLEAN
         /\ SignersOK'
         /\ shares' \in {shares, key}
         /\ s # 6 => shares' = shares
<1>1. prevOn' \in BOOLEAN
  BY DEF Show
<1>2. step' = s /\ shares' \in {shares, key} /\ (s # 6 => shares' = shares)
  BY DEF Show, PerformKeySplit
<1>3. SignersOK'
  <2>1. CASE UNCHANGED signers
    BY <2>1 DEF TypeOK, Threads, SignersOK, signers
  <2>2. CASE StartSigner
    BY <2>2, MaxSignersAssumption DEF TypeOK, Threads, SignersOK, StartSigner
  <2> QED
    BY <2>1, <2>2 DEF Show
<1> QED
  BY <1>1, <1>2, <1>3

\* What the clean-up of a destroyed wizard does: a finished encryption is spared,
\* and a wizard that ends up in "to" has no output left of an unfinished one.
LEMMA CleanUpEffect ==
  ASSUME TypeOK, NEW to, CleanUp(to)
  PROVE  /\ screen' \in {to, "left"}
         /\ files' \in [Paths -> Outputs \cup {None}]
         /\ sealed # None => screen' = to /\ files' = files
         /\ sealed = None /\ pending # None /\ screen' # "left" => files'[pending] = None
<1>1. CASE sealed # None \/ pending = None
  BY <1>1 DEF CleanUp, TypeOK
<1>2. CASE ~(sealed # None \/ pending = None)
  BY <1>2 DEF CleanUp, RemovePending, TypeOK
<1> QED
  BY <1>1, <1>2

-----------------------------------------------------------------------------
(* One lemma per action. *)

LEMMA StartEncryptionIInv ==
  ASSUME IInv, NEW s \in Sources, StartEncryption(s)
  PROVE  IInv'
<1>1. job' \in Jobs /\ job'.key = key' /\ key' \in Keys
  BY EncPathAssumption DEF IInv, TypeOK, Jobs, SessionKeys, StartEncryption
<1>2. prevOn' \in BOOLEAN /\ signed' \in BOOLEAN /\ cancelled' \in BOOLEAN
  BY DEF IInv, TypeOK, StartEncryption, outcome
<1>3. TypeOK'
  BY <1>2, EncPathAssumption DEF IInv, TypeOK, Threads, Screens, Tables,
     Jobs, Outputs, Records, StartEncryption, Handler, SessionKeys, outcome,
     signers
<1>4. StepsInOrder'
  BY DEF IInv, StepsInOrder, StartEncryption, outcome, signers
<1>5. Session'
  BY <1>1 DEF Session, StartEncryption, Handler, SessionKeys, outcome, signers
<1>6. Outcome' /\ Threads'
  BY DEF IInv, Outcome, Threads, StartEncryption, Handler, SessionKeys,
     outcome, signers
<1> QED
  BY <1>3, <1>4, <1>5, <1>6 DEF IInv

LEMMA WorkerWritesIInv ==
  ASSUME IInv, WorkerWrites
  PROVE  IInv'
<1>1. prevOn' \in BOOLEAN /\ signed' \in BOOLEAN /\ cancelled' \in BOOLEAN
  BY DEF IInv, TypeOK, WorkerWrites, nav, outcome
<1>2. TypeOK'
  BY DEF IInv, TypeOK, Session, Screens, Tables, Jobs, Outputs, Records,
     WorkerWrites, nav, form, outcome, signers
<1>3. StepsInOrder'
  BY DEF IInv, StepsInOrder, WorkerWrites, nav, form, outcome, signers
<1>4. Session'
  BY DEF IInv, Session, WorkerWrites, nav, form, outcome, signers
<1>5. Outcome' /\ Threads'
  BY DEF IInv, Outcome, Threads, WorkerWrites, nav, form, outcome, signers
<1> QED
  BY <1>2, <1>3, <1>4, <1>5 DEF IInv

LEMMA WorkerFinishesIInv ==
  ASSUME IInv, WorkerFinishes
  PROVE  IInv'
<1>1. prevOn' \in BOOLEAN /\ signed' \in BOOLEAN /\ cancelled' \in BOOLEAN
  BY DEF IInv, TypeOK, WorkerFinishes, nav, outcome
<1>2. TypeOK'
  BY DEF IInv, TypeOK, Session, Screens, Tables, Jobs, Outputs, Records,
     WorkerFinishes, nav, form, outcome, signers
<1>3. StepsInOrder'
  BY DEF IInv, StepsInOrder, WorkerFinishes, nav, form, outcome, signers
<1>4. Session'
  BY DEF IInv, Session, Whole, TypeOK, Jobs, WorkerFinishes, nav, form,
     outcome, signers
<1>5. Outcome' /\ Threads'
  BY DEF IInv, Outcome, Threads, WorkerFinishes, nav, form, outcome, signers
<1> QED
  BY <1>2, <1>3, <1>4, <1>5 DEF IInv

LEMMA WorkerFailsIInv ==
  ASSUME IInv, WorkerFails
  PROVE  IInv'
<1>1. prevOn' \in BOOLEAN /\ signed' \in BOOLEAN /\ cancelled' \in BOOLEAN
  BY DEF IInv, TypeOK, WorkerFails, nav, outcome
<1>2. TypeOK'
  BY DEF IInv, TypeOK, Screens, Tables, Jobs, Outputs, Records, WorkerFails,
     nav, form, outcome, signers
<1>3. StepsInOrder'
  BY DEF IInv, StepsInOrder, WorkerFails, nav, form, outcome, signers
<1>4. Session'
  BY DEF IInv, Session, WorkerFails, nav, form, outcome, signers
<1>5. Outcome' /\ Threads'
  BY DEF IInv, Outcome, Threads, WorkerFails, nav, form, outcome, signers
<1> QED
  BY <1>2, <1>3, <1>4, <1>5 DEF IInv

LEMMA CancelDialogIInv ==
  ASSUME IInv, CancelDialog
  PROVE  IInv'
<1>1. prevOn' \in BOOLEAN /\ signed' \in BOOLEAN /\ cancelled' \in BOOLEAN
  BY DEF IInv, TypeOK, CancelDialog, nav, outcome
<1>2. TypeOK'
  BY DEF IInv, TypeOK, Screens, Tables, Jobs, Outputs, Records,
     CancelDialog, nav, form, outcome, signers
<1>3. StepsInOrder'
  BY DEF IInv, StepsInOrder, CancelDialog, nav, form, outcome, signers
<1>4. Session'
  BY DEF IInv, Session, Whole, CancelDialog, nav, form, outcome, signers
<1>5. Outcome' /\ Threads'
  BY DEF IInv, Outcome, Threads, CancelDialog, nav, form, outcome, signers
<1> QED
  BY <1>2, <1>3, <1>4, <1>5 DEF IInv

LEMMA DialogCompletesIInv ==
  ASSUME IInv, DialogCompletes
  PROVE  IInv'
<1>1. 2 \in 1..7 /\ Show(2)
  BY DEF DialogCompletes
<1>2. /\ step' = 2 /\ prevOn' \in BOOLEAN /\ SignersOK'
     /\ shares' \in {shares, key} /\ (2 # 6 => shares' = shares)
  BY <1>1, ShowEffect DEF IInv
<1>3. prevOn' \in BOOLEAN /\ signed' \in BOOLEAN /\ cancelled' \in BOOLEAN
  BY <1>2 DEF IInv, TypeOK, DialogCompletes
<1>4. TypeOK'
  BY <1>2 DEF IInv, TypeOK, SignersOK, Threads, Screens, Tables, Jobs,
     Outputs, Records, DialogCompletes, form
<1>5. StepsInOrder'
  BY <1>2, NoneAssumption DEF IInv, StepsInOrder, Session, DialogCompletes
<1>6. Session'
  BY DEF IInv, Session, Whole, DialogCompletes, form
<1>7. Outcome' /\ Threads'
  BY <1>2 DEF IInv, Outcome, SignersOK, Session, DialogCompletes, form
<1> QED
  BY <1>4, <1>5, <1>6, <1>7 DEF IInv

LEMMA DialogFailsIInv ==
  ASSUME IInv, DialogFails
  PROVE  IInv'
<1>1. prevOn' \in BOOLEAN /\ signed' \in BOOLEAN /\ cancelled' \in BOOLEAN
  BY DEF IInv, TypeOK, DialogFails, outcome
<1>2. TypeOK'
  BY DEF IInv, TypeOK, Screens, Tables, Jobs, Outputs, Records, DialogFails,
     form, outcome, signers
<1>3. StepsInOrder'
  BY DEF IInv, StepsInOrder, DialogFails, form, outcome
<1>4. Session'
  BY DEF IInv, Session, DialogFails, outcome, signers
<1>5. Outcome' /\ Threads'
  BY DEF IInv, Outcome, Threads, DialogFails, form, outcome, signers
<1> QED
  BY <1>2, <1>3, <1>4, <1>5 DEF IInv

LEMMA LeaveS1IInv ==
  ASSUME IInv, NEW s \in Sources, LeaveS1(s)
  PROVE  IInv'
<1>1. 2 \in 1..7 /\ Show(2)
  BY DEF LeaveS1
<1>2. /\ step' = 2 /\ prevOn' \in BOOLEAN /\ SignersOK'
     /\ shares' \in {shares, key} /\ (2 # 6 => shares' = shares)
  BY <1>1, ShowEffect DEF IInv
<1>3. prevOn' \in BOOLEAN /\ signed' \in BOOLEAN /\ cancelled' \in BOOLEAN
  BY <1>2 DEF IInv, TypeOK, LeaveS1, crypto
<1>4. TypeOK'
  BY <1>2 DEF IInv, TypeOK, SignersOK, Threads, Screens, Tables, Jobs,
     Outputs, Records, LeaveS1, Handler, crypto
<1>5. StepsInOrder'
  BY <1>2 DEF IInv, StepsInOrder, LeaveS1, crypto
<1>6. Session'
  BY DEF IInv, Session, Whole, LeaveS1, Handler, crypto
<1>7. Outcome' /\ Threads'
  BY <1>2 DEF IInv, Outcome, SignersOK, LeaveS1, Handler, crypto
<1> QED
  BY <1>4, <1>5, <1>6, <1>7 DEF IInv

LEMMA LeaveS2IInv ==
  ASSUME IInv, LeaveS2
  PROVE  IInv'
<1>1. 3 \in 1..7 /\ Show(3)
  BY DEF LeaveS2
<1>2. /\ step' = 3 /\ prevOn' \in BOOLEAN /\ SignersOK'
     /\ shares' \in {shares, key} /\ (3 # 6 => shares' = shares)
  BY <1>1, ShowEffect DEF IInv
<1>3. prevOn' \in BOOLEAN /\ signed' \in BOOLEAN /\ cancelled' \in BOOLEAN
  BY <1>2 DEF IInv, TypeOK, LeaveS2, crypto
<1>4. TypeOK'
  BY <1>2 DEF IInv, TypeOK, SignersOK, Threads, Screens, Tables, Jobs,
     Outputs, Records, LeaveS2, Handler, form, crypto
<1>5. StepsInOrder'
  BY <1>2 DEF IInv, StepsInOrder, LeaveS2, form, crypto
<1>6. Session'
  BY DEF IInv, Session, Whole, LeaveS2, Handler, form, crypto
<1>7. Outcome' /\ Threads'
  BY <1>2 DEF IInv, Outcome, SignersOK, LeaveS2, Handler, form, crypto
<1> QED
  BY <1>4, <1>5, <1>6, <1>7 DEF IInv

LEMMA LeaveS3IInv ==
  ASSUME IInv, NEW b \in Subjects, LeaveS3(b)
  PROVE  IInv'
<1>1. 4 \in 1..7 /\ Show(4)
  BY DEF LeaveS3
<1>2. /\ step' = 4 /\ prevOn' \in BOOLEAN /\ SignersOK'
     /\ shares' \in {shares, key} /\ (4 # 6 => shares' = shares)
  BY <1>1, ShowEffect DEF IInv
<1>3. prevOn' \in BOOLEAN /\ signed' \in BOOLEAN /\ cancelled' \in BOOLEAN
  BY <1>2 DEF IInv, TypeOK, LeaveS3, crypto
<1>4. TypeOK'
  BY <1>2 DEF IInv, TypeOK, SignersOK, Threads, Screens, Tables, Jobs,
     Outputs, Records, LeaveS3, Handler, crypto
<1>5. StepsInOrder'
  BY <1>2, NoneAssumption DEF IInv, StepsInOrder, LeaveS3, crypto
<1>6. Session'
  BY DEF IInv, Session, Whole, LeaveS3, Handler, crypto
<1>7. Outcome' /\ Threads'
  BY <1>2 DEF IInv, Outcome, SignersOK, LeaveS3, Handler, crypto
<1> QED
  BY <1>4, <1>5, <1>6, <1>7 DEF IInv

LEMMA LeaveS4IInv ==
  ASSUME IInv, LeaveS4
  PROVE  IInv'
<1>1. 5 \in 1..7 /\ Show(5)
  BY DEF LeaveS4
<1>2. /\ step' = 5 /\ prevOn' \in BOOLEAN /\ SignersOK'
     /\ shares' \in {shares, key} /\ (5 # 6 => shares' = shares)
  BY <1>1, ShowEffect DEF IInv
<1>3. prevOn' \in BOOLEAN /\ signed' \in BOOLEAN /\ cancelled' \in BOOLEAN
  BY <1>2 DEF IInv, TypeOK, LeaveS4, crypto
<1>4. TypeOK'
  BY <1>2 DEF IInv, TypeOK, StepsInOrder, SignersOK, Threads, Screens,
     Tables, Jobs, Outputs, Records, LeaveS4, Handler, form, crypto
<1>5. StepsInOrder'
  BY <1>2, NoneAssumption DEF IInv, StepsInOrder, TypeOK, Records, LeaveS4,
     form, crypto
<1>6. Session'
  BY DEF IInv, Session, Whole, LeaveS4, Handler, form, crypto
<1>7. Outcome' /\ Threads'
  BY <1>2, NoneAssumption DEF IInv, Outcome, SignersOK, StepsInOrder,
     LeaveS4, Handler, form, crypto
<1> QED
  BY <1>4, <1>5, <1>6, <1>7 DEF IInv

LEMMA LeaveS5IInv ==
  ASSUME IInv, LeaveS5
  PROVE  IInv'
<1>1. 6 \in 1..7 /\ Show(6)
  BY DEF LeaveS5
<1>2. /\ step' = 6 /\ prevOn' \in BOOLEAN /\ SignersOK'
     /\ shares' \in {shares, key} /\ (6 # 6 => shares' = shares)
  BY <1>1, ShowEffect DEF IInv
<1>3. prevOn' \in BOOLEAN /\ signed' \in BOOLEAN /\ cancelled' \in BOOLEAN
  BY <1>2 DEF IInv, TypeOK, LeaveS5, crypto
<1>4. TypeOK'
  BY <1>2 DEF IInv, TypeOK, SignersOK, Threads, Screens, Tables, Jobs,
     Outputs, Records, LeaveS5, Handler, form, crypto
<1>5. StepsInOrder'
  BY DEF IInv, StepsInOrder, LeaveS5, form, crypto
<1>6. Session'
  BY DEF IInv, Session, Whole, LeaveS5, Handler, form, crypto
<1>7. Outcome' /\ Threads'
  BY <1>2 DEF IInv, Outcome, SignersOK, Session, StepsInOrder, LeaveS5,
     Handler, form, crypto
<1> QED
  BY <1>4, <1>5, <1>6, <1>7 DEF IInv

LEMMA LeaveS6IInv ==
  ASSUME IInv, LeaveS6
  PROVE  IInv'
<1>1. 7 \in 1..7 /\ Show(7)
  BY DEF LeaveS6
<1>2. /\ step' = 7 /\ prevOn' \in BOOLEAN /\ SignersOK'
     /\ shares' \in {shares, key} /\ (7 # 6 => shares' = shares)
  BY <1>1, ShowEffect DEF IInv
<1>3. prevOn' \in BOOLEAN /\ signed' \in BOOLEAN /\ cancelled' \in BOOLEAN
  BY <1>2 DEF IInv, TypeOK, LeaveS6, crypto
<1>4. TypeOK'
  BY <1>2 DEF IInv, TypeOK, SignersOK, Threads, Screens, Tables, Jobs,
     Outputs, Records, LeaveS6, Handler, form, crypto
<1>5. StepsInOrder'
  BY DEF IInv, StepsInOrder, LeaveS6, form, crypto
<1>6. Session'
  BY DEF IInv, Session, Whole, LeaveS6, Handler, form, crypto
<1>7. Outcome' /\ Threads'
  BY <1>2 DEF IInv, Outcome, SignersOK, LeaveS6, Handler, form, crypto
<1> QED
  BY <1>4, <1>5, <1>6, <1>7 DEF IInv

LEMMA CompleteIInv ==
  ASSUME IInv, Complete
  PROVE  IInv'
<1>0. /\ screen' \in {"completed", "left"}
      /\ files' \in [Paths -> Outputs \cup {None}]
      /\ sealed # None => screen' = "completed" /\ files' = files
  BY CleanUpEffect DEF IInv, Complete
<1>1. prevOn' \in BOOLEAN /\ signed' \in BOOLEAN /\ cancelled' \in BOOLEAN
  BY DEF IInv, TypeOK, Complete
<1>2. TypeOK'
  BY <1>0 DEF IInv, TypeOK, Screens, Tables, Jobs, Outputs, Records, Complete,
     Handler, form, signers
<1>3. StepsInOrder'
  BY DEF IInv, StepsInOrder, Complete, form, signers
<1>4. Session'
  BY <1>0 DEF IInv, Session, Whole, Complete, form, signers
<1>5. Outcome' /\ Threads'
  BY <1>0 DEF IInv, Outcome, Threads, Complete, Handler, form, signers
<1> QED
  BY <1>2, <1>3, <1>4, <1>5 DEF IInv

LEMMA GoPrevIInv ==
  ASSUME IInv, GoPrev
  PROVE  IInv'
<1>1. step - 1 \in 1..7 /\ Show(step - 1)
  BY DEF IInv, TypeOK, GoPrev
<1>2. /\ step' = step - 1 /\ prevOn' \in BOOLEAN /\ SignersOK'
     /\ shares' \in {shares, key} /\ (step - 1 # 6 => shares' = shares)
  BY <1>1, ShowEffect DEF IInv
<1>3. prevOn' \in BOOLEAN /\ signed' \in BOOLEAN /\ cancelled' \in BOOLEAN
  BY <1>2 DEF IInv, TypeOK, GoPrev, crypto
<1>4. TypeOK'
  BY <1>2 DEF IInv, TypeOK, SignersOK, Threads, Screens, Tables, Jobs,
     Outputs, Records, GoPrev, Handler, form, crypto
<1>5. StepsInOrder'
  BY <1>2 DEF IInv, StepsInOrder, TypeOK, GoPrev, form, crypto
<1>6. Session'
  BY DEF IInv, Session, Whole, GoPrev, Handler, form, crypto
<1>7. Outcome' /\ Threads'
  BY <1>2 DEF IInv, Outcome, SignersOK, Session, StepsInOrder, GoPrev,
     Handler, form, crypto
<1> QED
  BY <1>4, <1>5, <1>6, <1>7 DEF IInv

LEMMA StepClickIInv ==
  ASSUME IInv, NEW k \in 1..6, StepClick(k)
  PROVE  IInv'
<1>1. k \in 1..7 /\ Show(k)
  BY DEF StepClick
<1>2. /\ step' = k /\ prevOn' \in BOOLEAN /\ SignersOK'
     /\ shares' \in {shares, key} /\ (k # 6 => shares' = shares)
  BY <1>1, ShowEffect DEF IInv
<1>3. prevOn' \in BOOLEAN /\ signed' \in BOOLEAN /\ cancelled' \in BOOLEAN
  BY <1>2 DEF IInv, TypeOK, StepClick, crypto
<1>4. TypeOK'
  BY <1>2 DEF IInv, TypeOK, SignersOK, Threads, Screens, Tables, Jobs,
     Outputs, Records, StepClick, Handler, form, crypto
<1>5. StepsInOrder'
  BY <1>2 DEF IInv, StepsInOrder, TypeOK, StepClick, form, crypto
<1>6. Session'
  BY DEF IInv, Session, Whole, StepClick, Handler, form, crypto
<1>7. Outcome' /\ Threads'
  BY <1>2 DEF IInv, Outcome, SignersOK, Session, StepsInOrder, TypeOK,
     StepClick, Handler, form, crypto
<1> QED
  BY <1>4, <1>5, <1>6, <1>7 DEF IInv

LEMMA ShowReadonlyIInv ==
  ASSUME IInv, NEW k \in 1..6, ShowReadonly(k)
  PROVE  IInv'
<1>1. prevOn' \in BOOLEAN /\ signed' \in BOOLEAN /\ cancelled' \in BOOLEAN
  BY DEF IInv, TypeOK, ShowReadonly, crypto, outcome
<1>2. TypeOK'
  BY <1>1 DEF IInv, TypeOK, Screens, Tables, Jobs, Outputs, Records,
     ShowReadonly, Handler, form, crypto, outcome, signers
<1>3. StepsInOrder'
  BY DEF IInv, StepsInOrder, TypeOK, ShowReadonly, form, crypto, outcome,
     signers
<1>4. Session'
  BY DEF IInv, Session, Whole, ShowReadonly, form, crypto, outcome, signers
<1>5. Outcome' /\ Threads'
  BY DEF IInv, Outcome, Threads, ShowReadonly, Handler, form, crypto,
     outcome, signers
<1> QED
  BY <1>2, <1>3, <1>4, <1>5 DEF IInv

LEMMA ReturnToActualIInv ==
  ASSUME IInv, ReturnToActual
  PROVE  IInv'
<1>1. nextCmd \in 1..7 /\ Show(nextCmd)
  BY DEF IInv, TypeOK, ReturnToActual
<1>2. /\ step' = nextCmd /\ prevOn' \in BOOLEAN /\ SignersOK'
     /\ shares' \in {shares, key} /\ (nextCmd # 6 => shares' = shares)
  BY <1>1, ShowEffect DEF IInv
<1>3. prevOn' \in BOOLEAN /\ signed' \in BOOLEAN /\ cancelled' \in BOOLEAN
  BY <1>2 DEF IInv, TypeOK, ReturnToActual, crypto
<1>4. TypeOK'
  BY <1>2 DEF IInv, TypeOK, SignersOK, Threads, Screens, Tables, Jobs,
     Outputs, Records, ReturnToActual, Handler, form, crypto
<1>5. StepsInOrder'
  BY <1>2 DEF IInv, StepsInOrder, ReturnToActual, form, crypto
<1>6. Session'
  BY DEF IInv, Session, Whole, ReturnToActual, Handler, form, crypto
<1>7. Outcome' /\ Threads'
  BY <1>2 DEF IInv, Outcome, SignersOK, Session, StepsInOrder,
     ReturnToActual, Handler, form, crypto
<1> QED
  BY <1>4, <1>5, <1>6, <1>7 DEF IInv

LEMMA SignerEndsIInv ==
  ASSUME IInv, SignerEnds
  PROVE  IInv'
<1>1. prevOn' \in BOOLEAN /\ signed' \in BOOLEAN /\ cancelled' \in BOOLEAN
  BY DEF IInv, TypeOK, SignerEnds, nav, crypto
<1>2. TypeOK'
  BY MaxSignersAssumption DEF IInv, TypeOK, Threads, Screens, Tables, Jobs,
     Outputs, Records, SignerEnds, nav, form, crypto
<1>3. StepsInOrder'
  BY DEF IInv, StepsInOrder, SignerEnds, nav, form, crypto
<1>4. Session'
  BY DEF IInv, Session, Whole, SignerEnds, nav, form, crypto
<1>5. Outcome' /\ Threads'
  BY DEF IInv, Outcome, Threads, TypeOK, SignerEnds, nav, form, crypto
<1> QED
  BY <1>2, <1>3, <1>4, <1>5 DEF IInv

LEMMA MarkS5DoneIInv ==
  ASSUME IInv, MarkS5Done
  PROVE  IInv'
<1>1. prevOn' \in BOOLEAN /\ signed' \in BOOLEAN /\ cancelled' \in BOOLEAN
  BY DEF IInv, TypeOK, MarkS5Done, nav, crypto
<1>2. TypeOK'
  BY MaxSignersAssumption DEF IInv, TypeOK, Screens, Tables, Jobs, Outputs,
     Records, MarkS5Done, Handler, nav, form, crypto
<1>3. StepsInOrder'
  BY DEF IInv, StepsInOrder, MarkS5Done, nav, form, crypto
<1>4. Session'
  BY DEF IInv, Session, Whole, MarkS5Done, nav, form, crypto
<1>5. Outcome' /\ Threads'
  BY DEF IInv, Outcome, Threads, TypeOK, MarkS5Done, Handler, nav, form,
     crypto
<1> QED
  BY <1>2, <1>3, <1>4, <1>5 DEF IInv

LEMMA CloseIInv ==
  ASSUME IInv, Close
  PROVE  IInv'
<1>0. /\ screen' \in {"closed", "left"}
      /\ files' \in [Paths -> Outputs \cup {None}]
      /\ sealed # None => screen' = "closed" /\ files' = files
  BY CleanUpEffect DEF IInv, Close
<1>1. prevOn' \in BOOLEAN /\ signed' \in BOOLEAN /\ cancelled' \in BOOLEAN
  BY DEF IInv, TypeOK, Close, outcome
<1>2. TypeOK'
  BY <1>0 DEF IInv, TypeOK, Screens, Tables, Jobs, Outputs, Records, Close,
     Handler, form, outcome, signers
<1>3. StepsInOrder'
  BY DEF IInv, StepsInOrder, Close, form, outcome, signers
<1>4. Session'
  BY <1>0 DEF IInv, Session, Whole, Close, form, outcome, signers
<1>5. Outcome' /\ Threads'
  BY <1>0 DEF IInv, Outcome, Threads, Close, Handler, form, outcome,
     signers
<1> QED
  BY <1>2, <1>3, <1>4, <1>5 DEF IInv

LEMMA CloseUnderDialogIInv ==
  ASSUME IInv, CloseUnderDialog
  PROVE  IInv'
<1>1. prevOn' \in BOOLEAN /\ signed' \in BOOLEAN /\ cancelled' \in BOOLEAN
  BY DEF IInv, TypeOK, CloseUnderDialog, outcome
<1>2. TypeOK'
  BY DEF IInv, TypeOK, Screens, Tables, Jobs, Outputs, Records,
     CloseUnderDialog, form, outcome, signers
<1>3. StepsInOrder'
  BY DEF IInv, StepsInOrder, CloseUnderDialog, form, outcome
<1>4. Session'
  BY DEF IInv, Session, CloseUnderDialog, outcome, signers
<1>5. Outcome' /\ Threads'
  BY DEF IInv, Outcome, Threads, CloseUnderDialog, form, outcome, signers
<1> QED
  BY <1>2, <1>3, <1>4, <1>5 DEF IInv

LEMMA JoinedIInv ==
  ASSUME IInv, Joined
  PROVE  IInv'
<1>0. /\ screen' \in {"closed", "left"}
      /\ files' \in [Paths -> Outputs \cup {None}]
      /\ sealed # None => screen' = "closed" /\ files' = files
  BY CleanUpEffect DEF IInv, Joined
<1>1. prevOn' \in BOOLEAN /\ signed' \in BOOLEAN /\ cancelled' \in BOOLEAN
  BY DEF IInv, TypeOK, Joined, outcome
<1>2. TypeOK'
  BY <1>0 DEF IInv, TypeOK, Screens, Tables, Jobs, Outputs, Records, Joined,
     form, outcome, signers
<1>3. StepsInOrder'
  BY DEF IInv, StepsInOrder, Joined, form, outcome, signers
<1>4. Session'
  BY <1>0 DEF IInv, Session, Whole, Joined, form, outcome, signers
<1>5. Outcome' /\ Threads'
  BY <1>0 DEF IInv, Outcome, Threads, Joined, form, outcome, signers
<1> QED
  BY <1>2, <1>3, <1>4, <1>5 DEF IInv

LEMMA JoinTimesOutIInv ==
  ASSUME IInv, JoinTimesOut
  PROVE  IInv'
<1>1. prevOn' \in BOOLEAN /\ signed' \in BOOLEAN /\ cancelled' \in BOOLEAN
  BY DEF IInv, TypeOK, JoinTimesOut, crypto, outcome
<1>2. TypeOK'
  BY DEF IInv, TypeOK, Screens, Tables, Jobs, Outputs, Records,
     JoinTimesOut, form, crypto, outcome, signers
<1>3. StepsInOrder'
  BY DEF IInv, StepsInOrder, JoinTimesOut, form, crypto, outcome, signers
<1>4. Session'
  BY DEF IInv, Session, JoinTimesOut, crypto, outcome, signers
<1>5. Outcome' /\ Threads'
  BY DEF IInv, Outcome, Threads, JoinTimesOut, form, crypto, outcome, signers
<1> QED
  BY <1>2, <1>3, <1>4, <1>5 DEF IInv

-----------------------------------------------------------------------------
(* The theorems. *)

\* Every step preserves the invariant.
LEMMA NextIInv ==
  ASSUME IInv, [Next]_vars
  PROVE  IInv'
<1>1. CASE UNCHANGED vars
  BY <1>1 DEF vars, nav, form, crypto, outcome, signers, IInv, TypeOK,
     StepsInOrder, Session, Whole, Outcome, Threads
<1>2. CASE GoNext
  BY <1>2, StartEncryptionIInv, LeaveS1IInv, LeaveS2IInv, LeaveS3IInv,
     LeaveS4IInv, LeaveS5IInv, LeaveS6IInv, CompleteIInv DEF GoNext
<1>3. CASE Navigate
  BY <1>3, GoPrevIInv, ReturnToActualIInv, StepClickIInv, ShowReadonlyIInv
     DEF Navigate
<1>4. CASE Worker
  BY <1>4, WorkerWritesIInv, WorkerFinishesIInv, WorkerFailsIInv DEF Worker
<1>5. CASE Dialog
  BY <1>5, CancelDialogIInv, DialogCompletesIInv, DialogFailsIInv DEF Dialog
<1>6. CASE Destroy
  BY <1>6, CloseIInv, CloseUnderDialogIInv, JoinedIInv, JoinTimesOutIInv
     DEF Destroy
<1>7. CASE SignerEnds
  BY <1>7, SignerEndsIInv
<1>8. CASE MarkS5Done
  BY <1>8, MarkS5DoneIInv
<1> QED
  BY <1>1, <1>2, <1>3, <1>4, <1>5, <1>6, <1>7, <1>8 DEF Next

\* The strengthened invariant of the wizard.
LEMMA Invariance == Spec => []IInv
BY InitIInv, NextIInv, PTL DEF Spec

\* Every variable keeps its type, whatever the numbers of sources, paths,
\* subjects, keys and signing threads.
THEOREM TypeCorrect == Spec => []TypeOK
<1>1. IInv => TypeOK
  BY DEF IInv
<1> QED
  BY Invariance, <1>1, PTL

\* No step of the wizard, and no return from the read-only view, is reached
\* before the steps it builds on are done.
THEOREM StepsInOrderCorrect == Spec => []StepsInOrder
<1>1. IInv => StepsInOrder
  BY DEF IInv
<1> QED
  BY Invariance, <1>1, PTL

\* A seal record always describes the encrypted file on disk.
THEOREM RecordDescribesFileCorrect == Spec => []RecordDescribesFile
<1>1. IInv => RecordDescribesFile
  BY DEF IInv, Outcome, Session, Whole, OnDisk, RecordDescribesFile
<1> QED
  BY Invariance, <1>1, PTL

\* The shares S6 shows are always of the key that opens this file.
THEOREM SharesOpenFileCorrect == Spec => []SharesOpenFile
<1>1. IInv => SharesOpenFile
  BY DEF IInv, Outcome, Session, Whole, OnDisk, SharesOpenFile
<1> QED
  BY Invariance, <1>1, PTL

\* What a finished encryption left is not touched again: no worker runs once
\* it is known (Session), and the clean-up spares it.
THEOREM FinishedFileStaysCorrect == Spec => FinishedFileStays
<1>1. ASSUME IInv, Next, sealed # None PROVE UNCHANGED <<sealed, files>>
  <2>0. \A to : CleanUp(to) => files' = files
    BY <1>1, CleanUpEffect DEF IInv
  <2>1. worker = "none" /\ screen \notin {"dialog", "joining"}
    BY <1>1 DEF IInv, Session
  <2>2. CASE GoNext
    BY <1>1, <2>0, <2>2 DEF GoNext, StartEncryption, LeaveS1, LeaveS2, LeaveS3,
       LeaveS4, LeaveS5, LeaveS6, Complete, crypto
  <2>3. CASE Navigate
    BY <2>3 DEF Navigate, GoPrev, ReturnToActual, StepClick, ShowReadonly, crypto
  <2>4. CASE Worker \/ Dialog
    BY <2>1, <2>4 DEF Worker, WorkerWrites, WorkerFinishes, WorkerFails,
       Dialog, CancelDialog, DialogCompletes, DialogFails
  <2>5. CASE Destroy
    BY <1>1, <2>0, <2>1, <2>5 DEF Destroy, Close, CloseUnderDialog, Joined,
       JoinTimesOut, crypto
  <2>6. CASE SignerEnds \/ MarkS5Done
    BY <2>6 DEF SignerEnds, MarkS5Done, crypto
  <2> QED
    BY <1>1, <2>2, <2>3, <2>4, <2>5, <2>6 DEF Next
<1>2. IInv /\ [Next]_vars => [sealed # None => UNCHANGED <<sealed, files>>]_vars
  BY <1>1
<1> QED
  BY Invariance, <1>2, PTL DEF Spec, FinishedFileStays

\* No worker runs behind a wizard that handles events or was closed after its
\* dialog, so that what Joined and Close deleted stays deleted.
Gone ==
    /\ screen = "wizard" => worker = "none"
    /\ screen = "closed" => worker # "running"
    /\ NothingReappears

LEMMA NextGone == ASSUME IInv, Gone, [Next]_vars PROVE Gone'
<1> USE DEF Gone, NothingReappears
<1>1. CASE UNCHANGED vars
  BY <1>1 DEF vars, nav, crypto
<1>2. CASE GoNext
  <2>1. CASE Complete
    <3>1. screen' \in {"completed", "left"}
      BY <2>1, CleanUpEffect DEF Complete, IInv
    <3> QED
      BY <3>1
  <2> QED
    BY <1>2, <2>1 DEF GoNext, StartEncryption, LeaveS1, LeaveS2, LeaveS3, LeaveS4,
       LeaveS5, LeaveS6, Handler, crypto
<1>3. CASE Navigate
  BY <1>3 DEF Navigate, GoPrev, ReturnToActual, StepClick, ShowReadonly, Handler,
     crypto
<1>4. CASE Worker
  BY <1>4 DEF Worker, WorkerWrites, WorkerFinishes, WorkerFails, nav
<1>5. CASE Dialog
  BY <1>5 DEF Dialog, CancelDialog, DialogCompletes, DialogFails, nav
<1>6. CASE Close \/ Joined
  <2>1. /\ CleanUp("closed") /\ worker # "running"
        /\ UNCHANGED <<worker, sealed, pending>>
    BY <1>6 DEF Close, Joined, Handler
  <2>2. /\ screen' \in {"closed", "left"}
        /\ sealed = None /\ pending # None /\ screen' # "left" => files'[pending] = None
    BY <2>1, CleanUpEffect DEF IInv
  <2> QED
    BY <2>1, <2>2
<1>7. CASE CloseUnderDialog \/ JoinTimesOut
  BY <1>7 DEF CloseUnderDialog, JoinTimesOut
<1>8. CASE SignerEnds \/ MarkS5Done
  BY <1>8 DEF SignerEnds, MarkS5Done, nav, crypto
<1> QED
  BY <1>1, <1>2, <1>3, <1>4, <1>5, <1>6, <1>7, <1>8 DEF Next, Destroy

\* The last output of a wizard that was closed without a finished encryption is
\* gone for good, or it was left with a warning (cancel_and_join before
\* _cleanup_partial_encryption, whose os.remove may raise).
THEOREM NothingReappearsCorrect == Spec => []NothingReappears
<1>1. Init => Gone
  BY DEF Init, Gone, NothingReappears
<1>2. Gone => NothingReappears
  BY DEF Gone
<1> QED
  BY Invariance, NextGone, <1>1, <1>2, PTL DEF Spec

=============================================================================
