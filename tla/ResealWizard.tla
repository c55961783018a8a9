---------------------------- MODULE ResealWizard ----------------------------
(***************************************************************************)
(* The reseal wizard (desktop/gui/reseal_wizard.py) with the processes it  *)
(* drives (desktop/reseal_process.py) and the comparison of the directory  *)
(* with the previous record (desktop/record/unknown_classifier.py).        *)
(*                                                                         *)
(* The steps R1 to R8 are 1 to 8.  Every validation of R1 makes a new      *)
(* process; a process is known by its number, and so is the AES key that   *)
(* it draws when it first encrypts.                                        *)
(***************************************************************************)
EXTENDS Naturals, Sequences

CONSTANTS
    Files,          \* files of the target directory, with their contents
    Recorded,       \* those whose hash is in the previous record
    Paths,          \* paths of encrypted outputs
    EncPath,        \* [Files -> Paths]: output_dir / (stem of the name).enc
    MaxProcs,       \* bound on the validations of R1
    None

ASSUME FilesAssumption == Recorded \subseteq Files /\ EncPath \in [Files -> Paths]
ASSUME MaxProcsAssumption == MaxProcs \in Nat \ {0}

VARIABLES
    screen,         \* what the event loop is in, see Screens
    step, nextCmd, prevOn,  \* as in SealWizard
    procs,          \* the processes, see Processes
    current,        \* _data["_process"], 0 for none
    task,           \* the thread of run_async, and the wizard is busy
    compareFailed,  \* _r2_error, while R2 is shown
    unknown,        \* _data["unknown_files"]
    encrypted,      \* the process of encrypt_result, 0 before encrypt_done
    recorded,       \* the process of record_result, 0 before record_done
    worker,         \* the encryption under the dialog, of the current process
    todo, at, done, \* its files: to come, the one at hand, those finished
    disk,           \* the encrypted outputs (with their .progress)
    savers,         \* processes that save threads of R8 run for
    stored          \* the bundle of the seal id in the database

nav == <<step, nextCmd, prevOn>>
session == <<procs, current, unknown>>
results == <<encrypted, recorded>>
encryption == <<worker, todo, at, done, disk>>
saving == <<savers, stored>>
vars == <<screen, nav, session, task, compareFailed, results, encryption,
          saving>>

-----------------------------------------------------------------------------

Screens == {"wizard",       \* handlers of the wizard run, unless it is busy
            "dialog",       \* R5 waits in wait_window for the progress dialog
            "joining",      \* destroyed under the dialog: joining the worker
            "closed",       \* destroyed
            "left"}         \* the same, with a warning that outputs stay: the worker
                            \* did not stop in 5 s, or an os.remove raised

Proc == 1..MaxProcs
Output == [file : Files, key : Proc, whole : BOOLEAN]

ASSUME NoneAssumption == None \notin Files \cup Output

\* ResealProcess.state: which results are there, the known files of r2, the
\* derived files of r3, the paths that R5 has begun, its results in their
\* order and the original_files of the record of r6.
Processes == [steps : SUBSET {"r2", "r5", "r6", "r7"}, known : SUBSET Files,
              derived : SUBSET Files, pending : SUBSET Paths,
              sealed : Seq(Files), record : Seq(Files)]

\* The record and the process whose key the shares are of, 0 before the first.
Bundles == [proc : 0..MaxProcs, record : Seq(Files)]

TypeOK ==
    /\ screen \in Screens
    /\ step \in 1..8 /\ nextCmd \in 0..8 /\ prevOn \in BOOLEAN
    /\ procs \in Seq(Processes) /\ Len(procs) <= MaxProcs
    /\ current = Len(procs)
    /\ task \in {"none", "compare", "record"} /\ compareFailed \in BOOLEAN
    /\ unknown \subseteq Files
    /\ encrypted \in 0..Len(procs) /\ recorded \in 0..Len(procs)
    /\ worker \in {"none", "running", "ok", "error"}
    /\ todo \subseteq Files /\ at \in Files \cup {None} /\ done \in Seq(Files)
    /\ disk \in [Paths -> Output \cup {None}]
    /\ savers \subseteq 1..Len(procs)
    /\ stored \in Bundles

Init ==
    /\ screen = "wizard" /\ step = 1 /\ nextCmd = 0 /\ prevOn = FALSE
    /\ procs = <<>> /\ current = 0 /\ unknown = {}
    /\ task = "none" /\ compareFailed = FALSE
    /\ encrypted = 0 /\ recorded = 0
    /\ worker = "none"
    /\ todo = {} /\ at = None /\ done = <<>>
    /\ disk = [p \in Paths |-> None]
    /\ savers = {} /\ stored = [proc |-> 0, record |-> <<>>]

-----------------------------------------------------------------------------
(* Showing a step (_show_step), its side effects included.                 *)

NewProcess == [steps |-> {}, known |-> {}, derived |-> {}, pending |-> {},
               sealed |-> <<>>, record |-> <<>>]

\* run_r5_encrypt, first part: the known files and the derived ones that
\* (still) exist; the paths of an earlier run are forgotten.
CollectFiles(p) ==
    /\ \E gone \in SUBSET Files : todo' = (p.known \cup p.derived) \ gone
    /\ at' = None /\ done' = <<>>
    /\ procs' = [procs EXCEPT ![current].pending = {}]

\* _start_r5_encryption up to wait_window.
OpenDialog ==
    /\ screen' = "dialog" /\ worker' = "running"
    /\ CollectFiles(procs[current])

\* _ensure_r6_record: once, and only for a finished encryption.
RecordTask == IF encrypted # 0 /\ recorded = 0 THEN "record" ELSE "none"

\* _run_r8_save starts a thread with the process at every display of R8.
StartSave == savers' = savers \cup {current}

Encrypts(s) == s = 5 /\ encrypted = 0

\* With a list of processes that Show(s) is the first to see.
Show(s) ==
    /\ step' = s
    /\ prevOn' = (s > 1 /\ ~(s >= 5 /\ encrypted # 0))
    /\ IF Encrypts(s) THEN OpenDialog
       ELSE UNCHANGED <<screen, worker, todo, at, done, procs>>
    /\ task' = IF s = 2 THEN "compare" ELSE IF s = 5 THEN RecordTask ELSE "none"
    /\ compareFailed' = FALSE
    /\ IF s = 8 THEN StartSave ELSE UNCHANGED savers
    /\ UNCHANGED disk

Handler == screen = "wizard" /\ task = "none"

-----------------------------------------------------------------------------
(* _go_next, step by step.  The Return key calls it whatever the command   *)
(* of the Next button is, in the read-only view too.                       *)

\* _validate_r1 and run_r1_load: a process of its own for the record, and
\* R2 is shown, which starts to compare.
LoadRecord ==
    /\ Handler /\ step = 1 /\ Len(procs) < MaxProcs
    /\ procs' = Append(procs, NewProcess) /\ current' = Len(procs) + 1
    /\ step' = 2 /\ prevOn' = TRUE /\ task' = "compare" /\ compareFailed' = FALSE
    /\ UNCHANGED <<screen, nextCmd, unknown, results, encryption, saving>>

\* _validate_r2: a failed comparison is tried again.
RetryCompare ==
    /\ Handler /\ step = 2 /\ compareFailed
    /\ task' = "compare" /\ compareFailed' = FALSE /\ prevOn' = FALSE
    /\ UNCHANGED <<screen, step, nextCmd, session, results, encryption,
                   saving>>

LeaveR2 ==
    /\ Handler /\ step = 2 /\ ~compareFailed
    /\ Show(3)
    /\ UNCHANGED <<nextCmd, current, unknown, results, stored>>

\* _validate_r3: every unknown file is derived or excluded; without any the
\* classification of an earlier comparison stays.
LeaveR3(derived) ==
    /\ Handler /\ step = 3
    /\ derived \subseteq unknown
    /\ procs' = IF unknown = {} THEN procs
                ELSE [procs EXCEPT ![current].derived = derived]
    /\ step' = 4 /\ prevOn' = TRUE /\ UNCHANGED task
    /\ UNCHANGED <<screen, nextCmd, current, unknown, compareFailed, results,
                   encryption, saving>>

LeaveR4 ==
    /\ Handler /\ step = 4
    /\ Show(5)
    /\ UNCHANGED <<nextCmd, current, unknown, results, stored>>

\* _validate_r5: a record that is missing is tried again.
RetryRecord ==
    /\ Handler /\ step = 5 /\ encrypted # 0 /\ recorded = 0
    /\ task' = RecordTask /\ prevOn' = FALSE
    /\ UNCHANGED <<screen, step, nextCmd, session, compareFailed, results,
                   encryption, saving>>

LeaveR5 ==
    /\ Handler /\ step = 5 /\ encrypted # 0 /\ recorded # 0
    /\ Show(6)
    /\ UNCHANGED <<nextCmd, current, unknown, results, stored>>

LeaveR6 ==
    /\ Handler /\ step = 6
    /\ Show(7)
    /\ UNCHANGED <<nextCmd, current, unknown, results, stored>>

\* _validate_r7: the key of the process is split anew each time; an error
\* (run_r7_split_key raises without r5) is shown and R7 stays.
SplitKey ==
    /\ Handler /\ step = 7 /\ "r5" \in procs[current].steps
    /\ procs' = [procs EXCEPT ![current].steps = @ \cup {"r7"}]
    /\ step' = 8 /\ prevOn' = FALSE /\ StartSave
    /\ UNCHANGED <<screen, nextCmd, current, unknown, task, compareFailed,
                   results, encryption, stored>>

\* Faulty: no step is the last.
AdvancesAtEnd ==
    /\ Handler /\ step = 8
    /\ step' = 9
    /\ UNCHANGED <<screen, nextCmd, prevOn, session, task, compareFailed,
                   results, encryption, saving>>

\* R7 without a key, and R8: the application's handler raises (MetaRaises
\* in CaseStore).  The wizard stays as it is.
StaysAtEnd ==
    /\ Handler /\ \/ step = 7 /\ "r5" \notin procs[current].steps
                  \/ step = 8
    /\ UNCHANGED vars

GoNext ==
    \/ LoadRecord \/ RetryCompare \/ LeaveR2 \/ LeaveR4 \/ RetryRecord
    \/ LeaveR5 \/ LeaveR6 \/ SplitKey \/ StaysAtEnd
    \/ \E derived \in SUBSET Files : LeaveR3(derived)

-----------------------------------------------------------------------------
(* The other ways to move.                                                 *)

Move(s) ==
    /\ Show(s)
    /\ UNCHANGED <<current, unknown, results, stored>>

GoPrev == Handler /\ prevOn /\ step > 1 /\ Move(step - 1) /\ UNCHANGED nextCmd

\* _on_step_click.
StepClick(k) ==
    /\ Handler /\ k < step /\ ~(encrypted # 0 /\ k < 5)
    /\ Move(k) /\ UNCHANGED nextCmd

\* _show_step_readonly shows R1 to R4 as any display does: R2 compares again.
ShowReadonly(k) ==
    /\ Handler /\ k < step /\ k < 5 /\ encrypted # 0
    /\ step' = k /\ nextCmd' = step /\ prevOn' = FALSE
    /\ task' = IF k = 2 THEN "compare" ELSE "none"
    /\ compareFailed' = FALSE
    /\ UNCHANGED <<screen, session, results, encryption, saving>>

ReturnToActual ==
    /\ Handler /\ nextCmd # 0
    /\ nextCmd' = 0 /\ Move(nextCmd)

Navigate == GoPrev \/ ReturnToActual \/ \E k \in 1..7 : StepClick(k) \/ ShowReadonly(k)

-----------------------------------------------------------------------------
(* The threads of R2 and R6, to the callback that ends the busy state.     *)

\* _set_busy(False)
Idle == /\ task' = "none"
        /\ prevOn' = (step > 1 /\ ~(step >= 5 /\ encrypted # 0))

\* identify_unknown_files: a file is known by its hash; one that cannot be
\* read is passed over.
Compared ==
    /\ screen = "wizard" /\ task = "compare"
    /\ \E readable \in SUBSET Files :
         /\ procs' = [procs EXCEPT ![current].steps = @ \cup {"r2"},
                                   ![current].known = readable \cap Recorded]
         /\ unknown' = readable \ Recorded
    /\ Idle
    /\ UNCHANGED <<screen, step, nextCmd, current, compareFailed, results,
                   encryption, saving>>

\* No such directory, no file_info: the comparison before it stays.
CompareFails ==
    /\ screen = "wizard" /\ task = "compare"
    /\ compareFailed' = TRUE
    /\ Idle
    /\ UNCHANGED <<screen, step, nextCmd, session, results, encryption,
                   saving>>

\* run_r6_record: the record lists the results of R5; it raises without r5.
Recording ==
    /\ screen = "wizard" /\ task = "record" /\ "r5" \in procs[current].steps
    /\ procs' = [procs EXCEPT
          ![current].steps = @ \cup {"r6"},
          ![current].record = procs[current].sealed]
    /\ recorded' = current
    /\ Idle
    /\ UNCHANGED <<screen, step, nextCmd, current, unknown, compareFailed,
                   encrypted, encryption, saving>>

RecordFails ==
    /\ screen = "wizard" /\ task = "record"
    /\ Idle
    /\ UNCHANGED <<screen, step, nextCmd, session, compareFailed, results,
                   encryption, saving>>

Tasks == Compared \/ CompareFails \/ Recording \/ RecordFails

-----------------------------------------------------------------------------
(* R5: run_r5_encrypt on the dialog's thread, file after file.             *)

rest == <<screen, nav, current, unknown, task, compareFailed, results,
          saving>>

\* The known files come before the derived ones.
WorkerTakes(f) ==
    /\ worker = "running" /\ at = None /\ f \in todo
    /\ f \in Recorded \/ todo \cap Recorded = {}
    /\ at' = f /\ todo' = todo \ {f}
    /\ procs' = [procs EXCEPT ![current].pending = @ \cup {EncPath[f]}]
    /\ UNCHANGED <<rest, worker, done, disk>>

\* encrypt_file opens its output: a partial one of the same file and key is
\* resumed, anything else is overwritten.
WorkerWrites ==
    /\ worker = "running" /\ at # None
    /\ disk' = [disk EXCEPT ![EncPath[at]] =
                  [file |-> at, key |-> current, whole |-> FALSE]]
    /\ UNCHANGED <<rest, procs, worker, todo, at, done>>

WorkerFinishes ==
    /\ worker = "running" /\ at # None
    /\ disk[EncPath[at]] = [file |-> at, key |-> current, whole |-> FALSE]
    /\ disk' = [disk EXCEPT ![EncPath[at]].whole = TRUE]
    /\ done' = Append(done, at) /\ at' = None
    /\ UNCHANGED <<rest, procs, worker, todo>>

\* The callback raises once the dialog is cancelled, or the file or the output
\* fails: what was written stays.
WorkerFails ==
    /\ worker = "running" /\ at # None
    /\ worker' = "error"
    /\ todo' = {} /\ at' = None /\ done' = <<>>
    /\ UNCHANGED <<rest, procs, disk>>

\* All files are done (there may be none at all).
WorkerEnds ==
    /\ worker = "running" /\ at = None /\ todo = {}
    /\ worker' = "ok"
    /\ procs' = [procs EXCEPT ![current].steps = @ \cup {"r5"},
                              ![current].sealed = done]
    /\ todo' = {} /\ done' = <<>>
    /\ UNCHANGED <<rest, at, disk>>

Worker ==
    \/ WorkerWrites \/ WorkerFinishes \/ WorkerFails \/ WorkerEnds
    \/ \E f \in Files : WorkerTakes(f)

\* on_complete, then _ensure_r6_record once wait_window returns.
DialogCompletes ==
    /\ screen = "dialog" /\ worker = "ok"
    /\ screen' = "wizard" /\ worker' = "none"
    /\ encrypted' = current /\ task' = "record" /\ prevOn' = FALSE
    /\ UNCHANGED <<step, nextCmd, session, compareFailed, recorded, todo, at,
                   done, disk, saving>>

\* on_error: R5 with a message, to be left with the Previous button.
DialogFails ==
    /\ screen = "dialog" /\ worker = "error"
    /\ screen' = "wizard" /\ worker' = "none"
    /\ UNCHANGED <<nav, session, task, compareFailed, results, todo, at, done,
                   disk, saving>>

-----------------------------------------------------------------------------
(* R8: run_r8_save on a thread of its own, with the process it began with. *)

\* Faulty: what the process has not done is left out of the bundle.
SaveUnchecked(n) ==
    /\ n \in savers
    /\ savers' = savers \ {n}
    /\ stored' \in {stored, [proc |-> n, record |-> procs[n].record]}
    /\ UNCHANGED <<screen, nav, session, task, compareFailed, results,
                   encryption>>

\* Without r5, r6 or r7 it raises, and any error is logged;
\* save_seal_bundle stores all of it or nothing.
Save(n) ==
    /\ n \in savers
    /\ savers' = savers \ {n}
    /\ stored' \in IF {"r5", "r6", "r7"} \subseteq procs[n].steps
                  THEN {stored, [proc |-> n, record |-> procs[n].record]} ELSE {stored}
    /\ UNCHANGED <<screen, nav, session, task, compareFailed, results,
                   encryption>>

-----------------------------------------------------------------------------
(* The wizard is destroyed: cancelled, or replaced by another view.        *)

Pending == IF current = 0 THEN {} ELSE procs[current].pending

\* os.remove of every output that the process began; those it raises for stay.
RemovePending ==
    \E kept \in SUBSET {p \in Pending : disk[p] # None} :
       /\ disk' = [p \in Paths |-> IF p \in Pending \ kept THEN None ELSE disk[p]]
       /\ screen' = IF kept = {} THEN "closed" ELSE "left"

\* Faulty: a finished encryption is not spared.
CleanUpAlways == RemovePending

\* _cleanup_partial_encryption after the worker has stopped.
CleanUp == IF encrypted # 0 THEN screen' = "closed" /\ UNCHANGED disk ELSE RemovePending

Close ==
    /\ screen = "wizard"
    /\ task' = "none"
    /\ CleanUp
    /\ UNCHANGED <<nav, session, compareFailed, results, worker, todo, at,
                   done, saving>>

CloseWithoutJoin ==     \* Faulty: deletes while the worker may still write
    /\ screen = "dialog"
    /\ CleanUp
    /\ UNCHANGED <<nav, session, task, compareFailed, results, worker, todo,
                   at, done, saving>>

CloseUnderDialog ==     \* cancel_and_join
    /\ screen = "dialog"
    /\ screen' = "joining"
    /\ UNCHANGED <<nav, session, task, compareFailed, results, worker, todo,
                   at, done, disk, saving>>

Joined ==
    /\ screen = "joining" /\ worker # "running"
    /\ CleanUp
    /\ UNCHANGED <<nav, session, task, compareFailed, results, worker, todo,
                   at, done, saving>>

JoinTimesOut ==         \* nothing is deleted
    /\ screen = "joining" /\ worker = "running"
    /\ screen' = "left"
    /\ UNCHANGED <<nav, session, task, compareFailed, results, encryption,
                   saving>>

Destroy == Close \/ CloseUnderDialog \/ Joined \/ JoinTimesOut

-----------------------------------------------------------------------------

Next ==
    \/ GoNext \/ Navigate \/ Tasks \/ Worker \/ Destroy
    \/ \E n \in Proc : Save(n)
    \/ DialogCompletes \/ DialogFails

Spec == Init /\ [][Next]_vars

-----------------------------------------------------------------------------
(* What holds.                                                             *)

\* The container of the i-th result r[i] of process n, unless a later one has
\* the same path.
Holds(r, n, i) ==
    (\A j \in i + 1 .. Len(r) : EncPath[r[j]] # EncPath[r[i]])
    => disk[EncPath[r[i]]] = [file |-> r[i], key |-> n, whole |-> TRUE]

\* However often R5 was cancelled, failed and was tried again, with a new
\* process or the old one, and whatever is viewed, validated again or closed
\* after it: the outputs of the finished encryption are on disk, whole, under
\* the key of the process that finished it (run_r5_encrypt against
\* _start_r5_encryption and _cleanup_partial_encryption).
SealedOnDisk ==
    encrypted # 0 => LET r == procs[encrypted].sealed IN
                     \A i \in DOMAIN r : Holds(r, encrypted, i)

\* What a save thread stored, however late and with whatever the wizard does
\* meanwhile: the shares are of the key under which the files of the stored
\* record lie on disk (run_r8_save reads the state of its process twice).
StoredOpens ==
    stored.proc # 0 =>
       /\ stored.proc = encrypted
       /\ \A i \in DOMAIN stored.record : Holds(stored.record, stored.proc, i)

\* Once the wizard is closed without a finished encryption, and has not warned
\* that an output stays, what the last run of the process it has began is gone
\* and does not come back: the deletion never races the worker.  It says nothing
\* of runs before that one: their outputs stay when R1 was validated again since
\* (another process) or the run after them no longer took the file.
PendingGone ==
    screen = "closed" /\ encrypted = 0 => \A p \in Pending : disk[p] = None

-----------------------------------------------------------------------------
(* What the repository says of the wizard and the code does not do.        *)

\* Docstring of _show_step_readonly, "Show a past step in read-only mode":
\* after the encryption the wizard keeps the process that has its key.
KeyStays == encrypted # 0 => current = encrypted

=============================================================================
