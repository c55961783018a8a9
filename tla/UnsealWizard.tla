---------------------------- MODULE UnsealWizard ----------------------------
(***************************************************************************)
(* The unseal wizard (desktop/gui/unseal_wizard.py) with the processes it  *)
(* drives (desktop/unseal_process.py): validation and verification on a    *)
(* thread, decryption under a modal dialog, record and save on threads.    *)
(*                                                                         *)
(* The steps U3 to U7 are 1 to 5.  Every validation that gets through U3   *)
(* and U4 makes a new process with the inputs of the form; a process is    *)
(* known by its number.                                                    *)
(***************************************************************************)
EXTENDS Naturals, Sequences

CONSTANT MaxProcs       \* bound on the processes made

ASSUME MaxProcsAssumption == MaxProcs \in Nat \ {0}

VARIABLES
    screen,     \* what the event loop is in, see Screens
    step, nextCmd, prevOn,  \* as in SealWizard: nextCmd 0 is _go_next, k is
                            \* _return_to_actual(k)
    procs,      \* the processes: the verdict of U4, whether u5 and u6 are
                \* in their state
    current,    \* _data["_process"], 0 for none
    verdict,    \* verification_error or all_matched of the last validation
    accepted,   \* processes whose mismatch the user accepted;
                \* mismatch_acknowledged is whether there are any
    task,       \* the thread of run_async: busy until its end is polled
    decrypted,  \* the process whose output is decrypt_result, 0 for none
    recorded,   \* the process whose record is record_result, 0 for none
    worker,     \* the decryption under the dialog, of the current process
    cancelled,  \* its dialog was cancelled
    part,       \* its .part file
    out,        \* the process that published the plaintext, 0 for none
    saves,      \* processes that save threads of U7 run for
    saved       \* processes whose record is in seal_records

nav == <<step, nextCmd, prevOn>>
session == <<procs, current, verdict, accepted>>
results == <<decrypted, recorded>>
decryption == <<worker, cancelled, part, out>>
saving == <<saves, saved>>
vars == <<screen, nav, session, task, results, decryption, saving>>

-----------------------------------------------------------------------------

Screens == {"wizard",   \* handlers of the wizard run, unless it is busy
            "dialog",   \* U5 waits in wait_window for the progress dialog
            "left",     \* destroyed: cancelled or replaced by another view
            "ended"}    \* the program has ended
Processes == [verdict : {"match", "mismatch"}, u5 : BOOLEAN, u6 : BOOLEAN]
Tasks == {"none", "validate", "validated", "record", "recorded", "failed"}

TypeOK ==
    /\ screen \in Screens
    /\ step \in 1..5 /\ nextCmd \in 0..5 /\ prevOn \in BOOLEAN
    /\ procs \in Seq(Processes) /\ Len(procs) <= MaxProcs
    /\ current \in 0..Len(procs) /\ accepted \subseteq 1..Len(procs)
    /\ verdict \in {"none", "match", "mismatch", "error"}
    /\ task \in Tasks
    /\ decrypted \in 0..Len(procs) /\ recorded \in 0..Len(procs)
    /\ worker \in {"none", "opening", "writing", "ok", "error"}
    /\ cancelled \in BOOLEAN /\ part \in {"none", "open", "left"}
    /\ out \in 0..Len(procs)
    /\ saves \subseteq 1..Len(procs) /\ saved \subseteq 1..Len(procs)

Init ==
    /\ screen = "wizard" /\ step = 1 /\ nextCmd = 0 /\ prevOn = FALSE
    /\ procs = <<>> /\ current = 0 /\ verdict = "none" /\ accepted = {}
    /\ task = "none" /\ decrypted = 0 /\ recorded = 0
    /\ worker = "none" /\ cancelled = FALSE /\ part = "none" /\ out = 0
    /\ saves = {} /\ saved = {}

-----------------------------------------------------------------------------
(* Showing a step (_show_step), its side effects included.                 *)

\* _ensure_u6_record: once, and only for a finished decryption.
RecordTask == IF decrypted # 0 /\ recorded = 0 THEN "record" ELSE "none"

\* _start_u5_decryption.
OpensDialog(s) == s = 3 /\ decrypted = 0 /\ current # 0

Show(s) ==
    /\ step' = s
    /\ prevOn' = (s > 1 /\ ~(s >= 3 /\ decrypted # 0))
    /\ IF OpensDialog(s)
       THEN screen' = "dialog" /\ worker' = "opening" /\ cancelled' = FALSE
       ELSE UNCHANGED <<screen, worker, cancelled>>
    /\ task' = IF s = 3 THEN RecordTask ELSE "none"
    /\ saves' = IF s = 5 /\ current # 0 THEN saves \cup {current} ELSE saves
    /\ UNCHANGED <<part, out, saved>>

Handler == screen = "wizard" /\ task = "none"

-----------------------------------------------------------------------------
(* _go_next, step by step.  The Return key calls it whatever the command   *)
(* of the Next button is, in the read-only view too.                       *)

\* U3, with a form that its checks let through.
Validate ==
    /\ Handler /\ step = 1
    /\ Len(procs) < MaxProcs
    /\ task' = "validate"
    /\ UNCHANGED <<screen, nav, session, results, decryption, saving>>

\* compute_preseal_validation, on its thread: a process, or an error that
\* leaves the process before it in place.
ValidationEnds ==
    /\ task = "validate"
    /\ task' = "validated"
    /\ \/ \E v \in {"match", "mismatch"} :
             /\ procs' = Append(procs, [verdict |-> v, u5 |-> FALSE, u6 |-> FALSE])
             /\ current' = Len(procs) + 1
             /\ verdict' = v
       \/ verdict' = "error" /\ UNCHANGED <<procs, current>>
    /\ UNCHANGED <<screen, nav, accepted, results, decryption, saving>>

ShowVerdict ==      \* _done
    /\ screen = "wizard" /\ task = "validated"
    /\ Show(2)
    /\ UNCHANGED <<nextCmd, session, results>>

\* Faulty: a verification that could not run passes.
LeaveU4Unverified ==
    /\ Handler /\ step = 2
    /\ accepted' = IF verdict = "mismatch" THEN accepted \cup {current} ELSE accepted
    /\ Show(3)
    /\ UNCHANGED <<nextCmd, procs, current, verdict, results>>

\* Faulty: a mismatch is asked about once.
LeaveU4AskedOnce ==
    /\ Handler /\ step = 2 /\ verdict # "error"
    /\ accepted' = IF verdict = "match" \/ accepted # {} THEN accepted
                   ELSE accepted \cup {current}
    /\ Show(3)
    /\ UNCHANGED <<nextCmd, procs, current, verdict, results>>

\* _validate_u4, with the user's yes to a mismatch.
LeaveU4 ==
    /\ Handler /\ step = 2 /\ verdict # "error"
    /\ accepted' = IF verdict = "match" THEN accepted ELSE accepted \cup {current}
    /\ Show(3)
    /\ UNCHANGED <<nextCmd, procs, current, verdict, results>>

\* _validate_u5: a record that is missing is tried again.
RetryRecord ==
    /\ Handler /\ step = 3 /\ decrypted # 0 /\ recorded = 0
    /\ task' = RecordTask /\ prevOn' = FALSE
    /\ UNCHANGED <<screen, step, nextCmd, session, results, decryption, saving>>

LeaveU5 ==
    /\ Handler /\ step = 3 /\ decrypted # 0 /\ recorded # 0
    /\ Show(4)
    /\ UNCHANGED <<nextCmd, session, results>>

LeaveU6 ==
    /\ Handler /\ step = 4
    /\ Show(5)
    /\ UNCHANGED <<nextCmd, session, results>>

\* Faulty: no step is the last.
CompleteAdvances ==
    /\ Handler /\ step = 5
    /\ Show(6)
    /\ UNCHANGED <<nextCmd, session, results>>

\* U7: the application's handler raises (MetaRaises in CaseStore), and the
\* wizard stays as it is.
Complete == Handler /\ step = 5 /\ UNCHANGED vars

GoNext == Validate \/ LeaveU4 \/ RetryRecord \/ LeaveU5 \/ LeaveU6 \/ Complete

-----------------------------------------------------------------------------
(* The other ways to move.                                                 *)

GoPrev ==
    /\ Handler /\ prevOn /\ step > 1
    /\ Show(step - 1)
    /\ UNCHANGED <<nextCmd, session, results>>

StepClick(k) ==     \* _on_step_click
    /\ Handler /\ k < step /\ ~(decrypted # 0 /\ k < 3)
    /\ Show(k)
    /\ UNCHANGED <<nextCmd, session, results>>

\* After the decryption: U3 and U4 read-only, but for their widgets.
ShowReadonly(k) ==
    /\ Handler /\ k < step /\ k < 3 /\ decrypted # 0
    /\ step' = k /\ nextCmd' = step /\ prevOn' = FALSE
    /\ UNCHANGED <<screen, session, task, results, decryption, saving>>

ReturnToActual ==
    /\ Handler /\ nextCmd # 0
    /\ nextCmd' = 0
    /\ Show(nextCmd)
    /\ UNCHANGED <<session, results>>

\* Cancelled, or another view is chosen from the menu, busy or not.
Leave ==
    /\ screen = "wizard"
    /\ screen' = "left"
    /\ UNCHANGED <<nav, session, task, results, decryption, saving>>

\* The program ends, and its threads with it.
Exit ==
    /\ screen # "ended"
    /\ screen' = "ended" /\ worker' = "none" /\ task' = "none" /\ saves' = {}
    /\ UNCHANGED <<nav, session, results, cancelled, part, out, saved>>

Navigate ==
    \/ GoPrev \/ ReturnToActual \/ Leave \/ Exit
    \/ \E k \in 1..4 : StepClick(k) \/ ShowReadonly(k)

-----------------------------------------------------------------------------
(* U5: decrypt_file on the dialog's thread.                                *)

WorkerOpens ==      \* mkstemp
    /\ worker = "opening"
    /\ worker' = "writing" /\ part' = "open"
    /\ UNCHANGED <<screen, nav, session, task, results, cancelled, out, saving>>

\* All tags and hashes are right: os.replace.  A cancel after the last
\* progress callback comes too late.
WorkerPublishes ==
    /\ worker = "writing"
    /\ worker' = "ok" /\ part' = "none" /\ out' = current
    /\ procs' = [procs EXCEPT ![current].u5 = TRUE]
    /\ UNCHANGED <<screen, nav, current, verdict, accepted, task, results,
                   cancelled, saving>>

\* Wrong tag or hash, an I/O error, or the callback raises once cancelled;
\* the .part file is removed, or its removal fails and is logged.
WorkerFails ==
    /\ worker \in {"opening", "writing"}
    /\ worker' = "error"
    /\ part' \in IF part = "open" THEN {"none", "left"} ELSE {part}
    /\ UNCHANGED <<screen, nav, session, task, results, cancelled, out, saving>>

CancelDialog ==
    /\ screen = "dialog" /\ ~cancelled
    /\ cancelled' = TRUE
    /\ UNCHANGED <<screen, nav, session, task, results, worker, part, out, saving>>

\* Faulty: a cancelled task counts as failed.
DialogCompletesUncancelled ==
    /\ screen = "dialog" /\ worker = "ok"
    /\ screen' = "wizard" /\ worker' = "none"
    /\ decrypted' = IF cancelled THEN decrypted ELSE current
    /\ task' = IF cancelled THEN "none" ELSE "record"
    /\ prevOn' = cancelled
    /\ UNCHANGED <<step, nextCmd, session, recorded, cancelled, part, out, saving>>

\* on_complete, then _ensure_u6_record once wait_window returns.
DialogCompletes ==
    /\ screen = "dialog" /\ worker = "ok"
    /\ screen' = "wizard" /\ worker' = "none"
    /\ decrypted' = current
    /\ task' = "record" /\ prevOn' = FALSE
    /\ UNCHANGED <<step, nextCmd, session, recorded, cancelled, part, out, saving>>

DialogFails ==      \* on_error: U5 with a message
    /\ screen = "dialog" /\ worker = "error"
    /\ screen' = "wizard" /\ worker' = "none"
    /\ UNCHANGED <<nav, session, task, results, cancelled, part, out, saving>>

Decrypt == WorkerOpens \/ WorkerPublishes \/ WorkerFails
           \/ CancelDialog \/ DialogCompletes \/ DialogFails

-----------------------------------------------------------------------------
(* U6 and U7: record and save.                                             *)

\* Faulty: run_u6_record does not ask for u5.
RecordEndsUnguarded ==
    /\ task = "record"
    /\ \/ task' = "recorded" /\ procs' = [procs EXCEPT ![current].u6 = TRUE]
       \/ task' = "failed" /\ UNCHANGED procs
    /\ UNCHANGED <<screen, nav, current, verdict, accepted, results, decryption, saving>>

\* run_u6_record of the current process, which fails without u5.
RecordEnds ==
    /\ task = "record"
    /\ \/ /\ procs[current].u5
          /\ task' = "recorded"
          /\ procs' = [procs EXCEPT ![current].u6 = TRUE]
       \/ task' = "failed" /\ UNCHANGED procs
    /\ UNCHANGED <<screen, nav, current, verdict, accepted, results, decryption, saving>>

ShowRecorded ==     \* _ok
    /\ screen = "wizard" /\ task = "recorded"
    /\ task' = "none" /\ recorded' = current
    /\ UNCHANGED <<screen, nav, session, decrypted, decryption, saving>>

\* Faulty: _err does not end the busy state.
ShowFailedStaysBusy ==
    /\ screen = "wizard" /\ task = "failed"
    /\ UNCHANGED vars

ShowFailed ==       \* _err
    /\ screen = "wizard" /\ task = "failed"
    /\ task' = "none"
    /\ UNCHANGED <<screen, nav, session, results, decryption, saving>>

\* A save thread of p: run_u7_save raises without u5 and u6, and any error is
\* only logged.  SavesEnd is the end of the last one.
SaveWrites(p) ==
    /\ p \in saves /\ procs[p].u5 /\ procs[p].u6
    /\ saved' = saved \cup {p}
    /\ UNCHANGED <<screen, nav, session, task, results, decryption, saves>>

SavesEnd(p) ==
    /\ p \in saves
    /\ saves' = saves \ {p}
    /\ UNCHANGED <<screen, nav, session, task, results, decryption, saved>>

Record == RecordEnds \/ ShowRecorded \/ ShowFailed
          \/ \E p \in saves : SaveWrites(p) \/ SavesEnd(p)

-----------------------------------------------------------------------------

Next == GoNext \/ ValidationEnds \/ ShowVerdict \/ Navigate \/ Decrypt \/ Record

Spec == Init /\ [][Next]_vars

\* Threads run to their end and the event loop polls; nothing is asked of
\* the user.
Fairness ==
    /\ WF_vars(ValidationEnds) /\ WF_vars(ShowVerdict)
    /\ WF_vars(WorkerPublishes \/ WorkerFails)
    /\ WF_vars(DialogCompletes \/ DialogFails)
    /\ WF_vars(RecordEnds) /\ WF_vars(ShowRecorded) /\ WF_vars(ShowFailed)

FairSpec == Spec /\ Fairness

-----------------------------------------------------------------------------

\* Its files matched the seal record, or the user was shown that they did not
\* and went on.
Cleared(p) == procs[p].verdict = "match" \/ p \in accepted

\* No way through the buttons, step clicks, the read-only view and the Return
\* key shows U5 before there is a process to decrypt with that is cleared, or
\* U6 and U7, or a return to them, before the record is there.
StepsInOrder ==
    \A s \in {step, nextCmd} :
       /\ s >= 3 => current # 0 /\ (decrypted = 0 => Cleared(current))
       /\ s >= 4 => decrypted # 0 /\ recorded # 0

\* Plaintext is written and published only from files that were verified, or
\* whose own mismatch was accepted, however often U3 was validated before
\* (_validate_u4; compute_preseal_validation: "a failed verification must
\* NEVER default to success").
PublishedIsVerified ==
    /\ worker \in {"opening", "writing"} => current # 0 /\ Cleared(current)
    /\ out # 0 => Cleared(out)

\* The record in the session and the one in the database are of the process
\* that published the plaintext, also after U3 was validated again in the
\* read-only view and another process took its place.
RecordOfOutput ==
    /\ recorded # 0 => recorded = decrypted
    /\ \A p \in saved : p = decrypted /\ procs[p].u6

\* Plaintext is where the session knows it: published plaintext is the one of
\* decrypt_result unless its dialog has yet to close or the program ended,
\* whatever was cancelled and when, and a .part file is being written or its
\* removal failed (docstring of decrypt_file).
PlaintextAccounted ==
    /\ out # 0 /\ screen \in {"wizard", "left"} => out = decrypted
    /\ part = "open" /\ screen # "ended" => worker = "writing"

\* The wizard never stays busy or behind its dialog.
Waits == screen = "dialog" \/ (screen = "wizard" /\ task # "none")
Responds == Waits ~> ~Waits

=============================================================================
