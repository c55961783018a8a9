----------------------------- MODULE SealWizard -----------------------------
(***************************************************************************)
(* The seven-step seal wizard (desktop/gui/seal_wizard.py) with the modal  *)
(* progress dialog that runs its encryption (desktop/gui/progress_dialog.py)*)
(* and the threads that sign its record.                                   *)
(*                                                                         *)
(* One Tk event loop runs the handlers of the wizard, one at a time; the   *)
(* encryption worker and the signing threads run beside it.  The steps S1  *)
(* to S7 are 1 to 7 (the code counts from 0).                              *)
(***************************************************************************)
EXTENDS Naturals

CONSTANTS
    Sources,        \* files that can be chosen in S1
    Paths,          \* paths of encrypted outputs
    EncPath,        \* [Sources -> Paths]: output_dir / (name of source).enc
    Subjects,       \* what can be entered in S3
    Keys,           \* AES keys that os.urandom can draw
    MaxSigners,     \* bound on the signing threads of one session
    None

ASSUME EncPathAssumption == EncPath \in [Sources -> Paths]
ASSUME MaxSignersAssumption == MaxSigners \in Nat

VARIABLES
    screen,         \* what the event loop is in, see Screens
    step,           \* _current_step + 1
    nextCmd,        \* command of the Next button: 0 is _go_next, k is
                    \* _return_to_actual(k)
    prevOn,         \* the Previous button is enabled
    source, subject,    \* _data["source_file"], _data["subject"]
    key,            \* _data["aes_key"] (and aes_key_hex)
    pending,        \* _data["enc_path_pending"]
    sealed,         \* the finished encryption: enc_path, file_metadata and
                    \* encryption_done, set together
    record,         \* _data["record_dict"]
    shares,         \* the key whose shares are _data["key_shares"]
    signed,         \* _data["signature_done"]
    files,          \* the encrypted outputs (with their .progress) on disk
    worker,         \* state of the encryption worker
    job,            \* what it encrypts
    cancelled,      \* the dialog's cancel event
    started,        \* signing threads started in all,
    running,        \* those that still run, and the calls of _mark_s5_done
    marks,          \* that wait in the event loop
    stored          \* tables the completed session has a row in

signers == <<started, running, marks>>
form    == <<source, subject>>
nav     == <<screen, step, nextCmd, prevOn>>
crypto  == <<key, pending, sealed, files, worker, job, cancelled>>
outcome == <<record, shares, signed, signers, stored>>
vars    == <<nav, form, crypto, outcome>>

-----------------------------------------------------------------------------

Jobs == [source : Sources, path : Paths, key : Keys]
Outputs == [job : Jobs, extent : {"partial", "whole"}]
Records == [subject : Subjects, job : Jobs]
Screens == {"wizard",       \* handlers of the wizard run
            "dialog",       \* S1 waits in wait_window for the progress dialog
            "joining",      \* destroyed under the dialog: joining the worker
            "closed",       \* destroyed without completion
            "left",         \* the same, with a warning that the output stays: the
                            \* worker did not stop in 5 s, or os.remove raised
            "completed"}
Tables == {"seal_records", "key_shares"}

ASSUME NoneAssumption ==
    None \notin Sources \cup Paths \cup Subjects \cup Keys \cup Jobs \cup Records

TypeOK ==
    /\ screen \in Screens
    /\ step \in 1..7 /\ nextCmd \in 0..7 /\ prevOn \in BOOLEAN
    /\ source \in Sources \cup {None} /\ subject \in Subjects \cup {None}
    /\ key \in Keys \cup {None} /\ pending \in Paths \cup {None}
    /\ sealed \in Jobs \cup {None} /\ record \in Records \cup {None}
    /\ shares \in Keys \cup {None} /\ signed \in BOOLEAN
    /\ files \in [Paths -> Outputs \cup {None}]
    /\ worker \in {"none", "running", "ok", "error"} /\ job \in Jobs \cup {None}
    /\ cancelled \in BOOLEAN
    /\ started \in 0..MaxSigners /\ running \in 0..MaxSigners /\ marks \in 0..MaxSigners
    /\ stored \subseteq Tables

Init ==
    /\ screen = "wizard" /\ step = 1 /\ nextCmd = 0 /\ prevOn = FALSE
    /\ source = None /\ subject = None /\ key = None /\ pending = None
    /\ sealed = None /\ record = None /\ shares = None /\ signed = FALSE
    /\ files = [p \in Paths |-> None]
    /\ worker = "none" /\ job = None /\ cancelled = FALSE
    /\ started = 0 /\ running = 0 /\ marks = 0
    /\ stored = {}

-----------------------------------------------------------------------------
(* Showing a step (_show_step): the step's own side effects included.      *)

\* _trigger_s5_signing: every display of S5 before signature_done starts a
\* signing thread, whether or not an earlier one still runs.
StartSigner ==
    /\ started < MaxSigners
    /\ started' = started + 1 /\ running' = running + 1
    /\ UNCHANGED marks

\* Faulty: S6 splits a key of its own.
SplitFreshKey == IF shares = None THEN shares' \in Keys ELSE UNCHANGED shares

\* _refresh_s6_result: split the key once; a failing split is only shown.
PerformKeySplit == IF shares = None THEN shares' \in {key, None} ELSE UNCHANGED shares

Show(s) ==
    /\ step' = s
    /\ prevOn' = (s > 1 /\ ~(s >= 5 /\ signed))
    /\ IF s = 5 /\ ~signed THEN StartSigner ELSE UNCHANGED signers
    /\ IF s = 6 THEN PerformKeySplit ELSE UNCHANGED shares

Handler == screen = "wizard"        \* an event of the wizard can be handled

-----------------------------------------------------------------------------
(* S1 and its encryption.                                                  *)

\* The session's key is drawn once and reused by every retry.
SessionKeys == IF key = None THEN Keys ELSE {key}

\* Faulty: encryption_done does not stop a second encryption.
EncryptAgain(s) ==
    /\ Handler /\ step = 1
    /\ source' = s
    /\ pending' = EncPath[s]
    /\ \E k \in SessionKeys :
         /\ key' = k
         /\ job' = [source |-> s, path |-> EncPath[s], key |-> k]
    /\ screen' = "dialog" /\ worker' = "running" /\ cancelled' = FALSE
    /\ UNCHANGED <<step, nextCmd, prevOn, subject, sealed, files, outcome>>

\* _validate_s1 and _run_encryption up to wait_window.
StartEncryption(s) ==
    /\ Handler /\ step = 1 /\ sealed = None
    /\ source' = s
    /\ pending' = EncPath[s]
    /\ \E k \in SessionKeys :
         /\ key' = k
         /\ job' = [source |-> s, path |-> EncPath[s], key |-> k]
    /\ screen' = "dialog" /\ worker' = "running" /\ cancelled' = FALSE
    /\ UNCHANGED <<step, nextCmd, prevOn, subject, sealed, files, outcome>>

\* encrypt_file opens its output: a partial one of the same job is resumed,
\* anything else is overwritten.
WorkerWrites ==
    /\ worker = "running"
    /\ files' = [files EXCEPT ![job.path] = [job |-> job, extent |-> "partial"]]
    /\ UNCHANGED <<nav, form, key, pending, sealed, worker, job, cancelled, outcome>>

WorkerFinishes ==
    /\ worker = "running" /\ files[job.path] = [job |-> job, extent |-> "partial"]
    /\ files' = [files EXCEPT ![job.path] = [job |-> job, extent |-> "whole"]]
    /\ worker' = "ok"
    /\ UNCHANGED <<nav, form, key, pending, sealed, job, cancelled, outcome>>

\* The progress callback raises once cancelled; any other error ends the
\* task the same way and leaves what was written.
WorkerFails ==
    /\ worker = "running"
    /\ worker' = "error"
    /\ UNCHANGED <<nav, form, key, pending, sealed, files, job, cancelled, outcome>>

CancelDialog ==
    /\ screen = "dialog" /\ ~cancelled
    /\ cancelled' = TRUE
    /\ UNCHANGED <<nav, form, key, pending, sealed, files, worker, job, outcome>>

\* _poll_progress sees the task done: _finish, on_complete, and the rest of
\* _go_next.  A cancel that came after the last callback changes nothing.
DialogCompletes ==
    /\ screen = "dialog" /\ worker = "ok"
    /\ sealed' = job
    /\ screen' = "wizard" /\ worker' = "none"
    /\ Show(2)
    /\ UNCHANGED <<nextCmd, form, key, pending, files, job, cancelled,
                   record, signed, stored>>

\* Faulty: only a cancelled task closes the dialog.
DialogFailsIfCancelled ==
    /\ screen = "dialog" /\ worker = "error" /\ cancelled
    /\ screen' = "wizard" /\ worker' = "none"
    /\ UNCHANGED <<step, nextCmd, prevOn, form, key, pending, sealed, files,
                   job, cancelled, outcome>>

\* on_error: a message, and S1 again.
DialogFails ==
    /\ screen = "dialog" /\ worker = "error"
    /\ screen' = "wizard" /\ worker' = "none"
    /\ UNCHANGED <<step, nextCmd, prevOn, form, key, pending, sealed, files,
                   job, cancelled, outcome>>

-----------------------------------------------------------------------------
(* _go_next: the validator of the step, then the next step.  The Return    *)
(* key calls it whatever the command of the Next button is.                *)

LeaveS1(s) ==       \* encryption_done: skip the encryption
    /\ Handler /\ step = 1 /\ sealed # None
    /\ source' = s
    /\ Show(2)
    /\ UNCHANGED <<screen, nextCmd, subject, crypto, record, signed, stored>>

LeaveS2 ==
    /\ Handler /\ step = 2
    /\ Show(3)
    /\ UNCHANGED <<screen, nextCmd, form, crypto, record, signed, stored>>

LeaveS3(b) ==
    /\ Handler /\ step = 3
    /\ subject' = b
    /\ Show(4)
    /\ UNCHANGED <<screen, nextCmd, source, crypto, record, signed, stored>>

\* _validate_s4: the record is generated the first time only.
LeaveS4 ==
    /\ Handler /\ step = 4
    /\ record' = IF record = None THEN [subject |-> subject, job |-> sealed] ELSE record
    /\ Show(5)
    /\ UNCHANGED <<screen, nextCmd, form, crypto, signed, stored>>

LeaveS5 ==
    /\ Handler /\ step = 5 /\ signed
    /\ Show(6)
    /\ UNCHANGED <<screen, nextCmd, form, crypto, record, signed, stored>>

LeaveS6 ==
    /\ Handler /\ step = 6
    /\ Show(7)
    /\ UNCHANGED <<screen, nextCmd, form, crypto, record, signed, stored>>

\* The output is removed and the wizard ends up in "to", or os.remove raises.
RemovePending(to) ==
    \/ screen' = to /\ files' = [files EXCEPT ![pending] = None]
    \/ screen' = "left" /\ files[pending] # None /\ UNCHANGED files

\* Faulty: a finished encryption is not spared.
CleanUpAlways(to) ==
    IF pending = None THEN screen' = to /\ UNCHANGED files ELSE RemovePending(to)

\* _cleanup_partial_encryption after the worker has stopped.
CleanUp(to) ==
    IF sealed # None \/ pending = None THEN screen' = to /\ UNCHANGED files
    ELSE RemovePending(to)

\* S7: the app's _on_seal_complete stores the record (an error is logged
\* only) and goes home, which destroys the wizard.
Complete ==
    /\ Handler /\ step = 7
    /\ stored' \in {stored, stored \cup {"seal_records"}}
    /\ CleanUp("completed")
    /\ UNCHANGED <<step, nextCmd, prevOn, form, key, pending, sealed, worker,
                   job, cancelled, record, shares, signed, signers>>

GoNext ==
    \/ \E s \in Sources : StartEncryption(s) \/ LeaveS1(s)
    \/ \E b \in Subjects : LeaveS3(b)
    \/ LeaveS2 \/ LeaveS4 \/ LeaveS5 \/ LeaveS6 \/ Complete

-----------------------------------------------------------------------------
(* The other ways to move.                                                 *)

GoPrev ==
    /\ Handler /\ prevOn /\ step > 1
    /\ Show(step - 1)
    /\ UNCHANGED <<screen, nextCmd, form, crypto, record, signed, stored>>

StepClickAhead(k) ==        \* Faulty: steps to come can be clicked
    /\ Handler /\ k # step /\ ~(signed /\ k < 5)
    /\ Show(k)
    /\ UNCHANGED <<screen, nextCmd, form, crypto, record, signed, stored>>

StepClick(k) ==     \* _on_step_click, normal navigation
    /\ Handler /\ k < step /\ ~(signed /\ k < 5)
    /\ Show(k)
    /\ UNCHANGED <<screen, nextCmd, form, crypto, record, signed, stored>>

ShowReadonly(k) ==  \* _on_step_click after the signature
    /\ Handler /\ k < step /\ signed /\ k < 5
    /\ step' = k /\ nextCmd' = step /\ prevOn' = FALSE
    /\ UNCHANGED <<screen, form, crypto, outcome>>

ReturnToActual ==
    /\ Handler /\ nextCmd # 0
    /\ nextCmd' = 0
    /\ Show(nextCmd)
    /\ UNCHANGED <<screen, form, crypto, record, signed, stored>>

Navigate == GoPrev \/ ReturnToActual \/ \E k \in 1..6 : StepClick(k) \/ ShowReadonly(k)

-----------------------------------------------------------------------------
(* The signing threads.                                                    *)

\* Faulty: the thread marks S5 done while it still runs.
SignerMarksEarly ==
    /\ running > 0
    /\ marks' = marks + 1
    /\ UNCHANGED <<nav, form, crypto, record, shares, signed, started, running, stored>>

\* Faulty: a signing error leaves S5 unmarked.
SignerMarksSuccess ==
    /\ running > 0
    /\ running' = running - 1 /\ marks' \in {marks, marks + 1}
    /\ UNCHANGED <<nav, form, crypto, record, shares, signed, started, stored>>

\* A signing thread ends, with its files written or with an error that is
\* only shown, and schedules _mark_s5_done on the event loop.
SignerEnds ==
    /\ running > 0
    /\ running' = running - 1 /\ marks' = marks + 1
    /\ UNCHANGED <<nav, form, crypto, record, shares, signed, started, stored>>

MarkS5Done ==
    /\ Handler /\ marks > 0
    /\ marks' = marks - 1
    /\ signed' = TRUE
    /\ UNCHANGED <<nav, form, crypto, record, shares, started, running, stored>>

-----------------------------------------------------------------------------
(* The wizard is destroyed: cancelled by the user, or replaced by another  *)
(* view, or the program ends.                                              *)

Close ==
    /\ Handler
    /\ CleanUp("closed")
    /\ UNCHANGED <<step, nextCmd, prevOn, form, key, pending, sealed, worker,
                   job, cancelled, outcome>>

CloseWithoutJoin ==     \* Faulty: deletes while the worker may still write
    /\ screen = "dialog"
    /\ cancelled' = TRUE
    /\ CleanUp("closed")
    /\ UNCHANGED <<step, nextCmd, prevOn, form, key, pending, sealed, worker,
                   job, outcome>>

CloseUnderDialog ==     \* cancel_and_join: the event loop blocks
    /\ screen = "dialog"
    /\ screen' = "joining" /\ cancelled' = TRUE
    /\ UNCHANGED <<step, nextCmd, prevOn, form, key, pending, sealed, files,
                   worker, job, outcome>>

Joined ==
    /\ screen = "joining" /\ worker # "running"
    /\ CleanUp("closed")
    /\ UNCHANGED <<step, nextCmd, prevOn, form, key, pending, sealed, worker,
                   job, cancelled, outcome>>

JoinTimesOut ==         \* nothing is deleted
    /\ screen = "joining" /\ worker = "running"
    /\ screen' = "left"
    /\ UNCHANGED <<step, nextCmd, prevOn, form, crypto, outcome>>

-----------------------------------------------------------------------------

Worker == WorkerWrites \/ WorkerFinishes \/ WorkerFails
Dialog == CancelDialog \/ DialogCompletes \/ DialogFails
Destroy == Close \/ CloseUnderDialog \/ Joined \/ JoinTimesOut

Next == GoNext \/ Navigate \/ Worker \/ Dialog \/ Destroy \/ SignerEnds \/ MarkS5Done

Spec == Init /\ [][Next]_vars

\* The threads run to their end and the event loop polls; nothing is asked
\* of the user.
Fairness ==
    /\ WF_vars(WorkerFinishes \/ WorkerFails)
    /\ WF_vars(DialogCompletes \/ DialogFails)
    /\ WF_vars(Joined \/ JoinTimesOut)
    /\ WF_vars(SignerEnds)
    /\ WF_vars(MarkS5Done)

FairSpec == Spec /\ Fairness

-----------------------------------------------------------------------------
(* What holds.                                                             *)

\* The finished encryption is on disk, whole, as the session knows it.
OnDisk == files[sealed.path] = [job |-> sealed, extent |-> "whole"]

\* No path through the buttons, the step indicator, the read-only view and
\* the Return key reaches a step, or a return to it, before the steps it
\* builds on are done: encryption for S2, the subject's form for S4, the
\* record for S5, the signature for S6 (the validators of _go_next against _on_step_click and
\* _return_to_actual).
StepsInOrder ==
    \A s \in {step, nextCmd} :
       /\ s > 1 => sealed # None
       /\ s > 3 => subject # None
       /\ s > 4 => record # None
       /\ s > 5 => signed

\* A seal record describes the encrypted file that the session left on disk,
\* however often S1 was visited or its encryption retried before and after.
RecordDescribesFile == record # None => sealed # None /\ record.job = sealed /\ OnDisk

\* The key whose shares S6 shows opens that file.
SharesOpenFile == shares # None => sealed # None /\ shares = sealed.key /\ OnDisk

\* Nothing the wizard does after an encryption finished touches its output
\* (docstring of _cleanup_partial_encryption: never touched).
FinishedFileStays == [][sealed # None => UNCHANGED <<sealed, files>>]_vars

\* Once the wizard is closed without a finished encryption, and has not warned
\* that an output stays (its worker did not stop, or the file could not be
\* removed), the last output is gone and does not come back: the deletion never
\* races the worker (cancel_and_join).
NothingReappears ==
    screen = "closed" /\ sealed = None /\ pending # None => files[pending] = None

\* The progress dialog always closes once its worker ends, cancelled or not,
\* in time or not: the wizard is never stuck behind the modal grab.
DialogEnds == screen = "dialog" ~> screen # "dialog"

\* S5 never blocks the wizard: while it is shown, the signature is marked
\* done sooner or later, whether signing succeeds or fails.
SigningUnblocks == (Handler /\ step = 5) ~> (signed \/ step # 5 \/ ~Handler)

=============================================================================
