----------------------------- MODULE CaseStore ------------------------------
(***************************************************************************)
(* What the desktop application remembers of a case: its row in            *)
(* seal_records, its key shares, and the record files that the wizards     *)
(* issue; and who writes them: the save threads of the unseal and reseal   *)
(* wizards (steps U7 and R8), the completion handlers of MainApp, and the  *)
(* case manager, which works on a list it loaded in another thread.        *)
(*                                                                         *)
(* A wizard is reduced to the record it issues and the saves it starts;    *)
(* SealWizard models one in full.  A history is the sequence of its events *)
(* "S", "U" and "R" (sealing, unsealing, resealing).                       *)
(***************************************************************************)
EXTENDS Naturals, Sequences, FiniteSets, SequencesExt

CONSTANTS
    Ids,            \* seal ids
    MaxEvents,      \* bound on the events of a history
    MaxSessions,    \* bound on the wizards opened
    MaxSavers,      \* bound on the save threads started
    None

ASSUME BoundsAssumption ==
    /\ MaxEvents \in 1..9           \* one digit in a status
    /\ MaxSessions \in Nat /\ MaxSavers \in Nat

VARIABLES
    rows,           \* the table seal_records
    shares,         \* the table key_shares: the split that it holds shares of
    papers,         \* record files on disk, by id and kind of process
    view,           \* what the event loop is in, see Views
    opened,         \* wizards opened; the last one is the current one
    procs,          \* their processes, by number
    savers,         \* save threads, by number
    splits,         \* keys split so far
    shown,          \* the case manager's _all_cases: the status shown by id
    load, result,   \* its loading thread, and the list that this one queues
    (* History variables: no code keeps them.                              *)
    rowLags,        \* ids whose row need not be the newest record, see Overtaken
    sharesLag       \* ids whose shares need not be those of the last split

lags == <<rowLags, sharesLag>>
wizards == <<opened, procs, splits>>
manager == <<shown, load, result>>
vars == <<rows, shares, papers, view, savers, wizards, manager, lags>>

-----------------------------------------------------------------------------
(* Histories and statuses (history_manager).                               *)

Kinds == {"seal", "unseal", "reseal"}
Event == [seal |-> "S", unseal |-> "U", reseal |-> "R"]
Histories == {h \in Seq({"S", "U", "R"}) : Len(h) \in 1..MaxEvents}

AppendEvent(h, kind) == Append(h, Event[kind])

\* _compute_summary: "S{n}U{m}R{k}" as the three counts.
Summary(h) == [e \in {"S", "U", "R"} |-> Cardinality({n \in DOMAIN h : h[n] = e})]

Statuses == [{"S", "U", "R"} -> 0..MaxEvents]
DefaultStatus == Summary(<<"S">>)       \* of the column, and of a list entry

\* status None is the empty one of a case made before its sealing; history
\* <<>> is a record without events; unlock: the record has unlock_time_iso.
Rows == [status : Statuses \cup {None}, history : Histories \cup {<<>>},
         unlock : BOOLEAN]
Procs == [kind : Kinds, id : Ids \cup {None}, history : Histories \cup {<<>>},
          split : 0..MaxSavers]
Savers == [proc : 1..MaxSessions, stage : {"reads", "writes", "ended"},
           split : 0..MaxSavers]
Stages == {"check", "insert", "update"}     \* of a completion handler
Views == {"home", "cases", "refused"} \cup Kinds \cup Stages

ASSUME NoneAssumption == None \notin Ids \cup Rows \cup Procs \cup Statuses

-----------------------------------------------------------------------------

TablesOK ==
    /\ rows \in [Ids -> Rows \cup {None}]
    /\ shares \in [Ids -> 0..MaxSavers]
    /\ papers \in [Ids -> [Kinds -> Histories \cup {<<>>}]]
    /\ view \in Views
    /\ opened \in 0..MaxSessions /\ splits \in 0..MaxSavers
    /\ procs \in [1..MaxSessions -> Procs \cup {None}]
    /\ savers \in Seq(Savers)
    /\ Len(savers) <= MaxSavers
    /\ shown \in [Ids -> Statuses \cup {None}]
    /\ load \in {"idle", "reading", "loaded"}
    /\ result \in [Ids -> Statuses \cup {None}]

LagsOK == rowLags \subseteq Ids /\ sharesLag \subseteq Ids
TypeOK == TablesOK /\ LagsOK

Init ==
    /\ rows = [i \in Ids |-> None] /\ shares = [i \in Ids |-> 0]
    /\ papers = [i \in Ids |-> [k \in Kinds |-> <<>>]]
    /\ view = "home" /\ opened = 0 /\ procs = [s \in 1..MaxSessions |-> None]
    /\ savers = <<>> /\ splits = 0
    /\ shown = [i \in Ids |-> None] /\ load = "idle" /\ result = shown
    /\ rowLags = {} /\ sharesLag = {}

Current == procs[opened]        \* the process of the wizard that is open

\* Save thread n runs, and saves under i.
Runs(n, i) == savers[n].stage # "ended" /\ procs[savers[n].proc].id = i
Idle(i) == \A n \in DOMAIN savers : ~Runs(n, i)

\* A thread that an earlier wizard started still runs.
Overtaken(i) == \E n \in DOMAIN savers : Runs(n, i) /\ savers[n].proc # opened

Used(i) ==
    \/ rows[i] # None \/ shares[i] # 0
    \/ \E k \in Kinds : papers[i][k] # <<>>
    \/ \E s \in 1..opened : procs[s].id = i

-----------------------------------------------------------------------------
(* The case manager.                                                       *)

\* A new CaseManager starts a load; results for an older one are dropped.
EnterCases ==
    /\ view = "home"
    /\ view' = "cases"
    /\ shown' = [i \in Ids |-> None] /\ load' = "reading" /\ result' = shown'
    /\ UNCHANGED <<rows, shares, papers, savers, wizards, lags>>

LeaveCases ==
    /\ view = "cases"
    /\ view' = "home"
    /\ UNCHANGED <<rows, shares, papers, savers, wizards, manager, lags>>

\* list_all_cases and search_cases: the cases of K, an empty status shown as
\* the default one.
Listed(K) ==
    [i \in Ids |-> IF i \notin K \/ rows[i] = None THEN None
                   ELSE IF rows[i].status = None THEN DefaultStatus
                   ELSE rows[i].status]

\* The loading thread; a failing query gives an empty list.
LoadReads ==
    /\ load = "reading"
    /\ load' = "loaded"
    /\ \E K \in SUBSET Ids : result' = Listed(K)
    /\ UNCHANGED <<rows, shares, papers, view, savers, wizards, shown, lags>>

\* _poll_worker_result, _apply_cases: the poll ends with the view.
ApplyCases ==
    /\ view = "cases" /\ load = "loaded"
    /\ shown' = result /\ load' = "idle"
    /\ UNCHANGED <<rows, shares, papers, view, savers, wizards, result, lags>>

\* _load_cases_async: nothing happens while a load is under way.
Reload ==
    /\ load' = IF load = "idle" THEN "reading" ELSE load
    /\ UNCHANGED <<shown, result>>

Refresh ==
    /\ view = "cases" /\ load = "idle"
    /\ Reload
    /\ UNCHANGED <<rows, shares, papers, view, savers, wizards, lags>>

\* _on_new_case, create_case.
NewCase(i) ==
    /\ view = "cases" /\ ~Used(i)
    /\ rows' = [rows EXCEPT ![i] = [status |-> None, history |-> <<>>,
                                    unlock |-> FALSE]]
    /\ Reload
    /\ UNCHANGED <<shares, papers, view, savers, wizards, lags>>

\* delete_case: the row only.
DeleteRow(i) == rows' = [rows EXCEPT ![i] = None]

\* _on_delete: a row not found is only reported.
DeleteCase(i) ==
    /\ view = "cases" /\ shown[i] # None /\ rows[i] # None
    /\ DeleteRow(i)
    /\ Reload
    /\ rowLags' = rowLags \cup {i}
    /\ UNCHANGED <<shares, papers, view, savers, wizards, sharesLag>>

\* The status guards of _on_start_seal, _on_start_unseal, _on_start_reseal.
Accepts(kind, status) ==
    CASE kind = "seal"   -> status.S # 1
      [] kind = "unseal" -> status.S = 1 /\ status.U # 1
      [] kind = "reseal" -> status.U = 1

OpenWizard(kind, i) ==
    /\ opened < MaxSessions
    /\ opened' = opened + 1
    /\ procs' = [procs EXCEPT ![opened + 1] =
                    [kind |-> kind, id |-> i, history |-> <<>>, split |-> 0]]
    /\ view' = kind
    /\ UNCHANGED splits

\* From a case of the list, or refused with a warning.
StartFromCase(kind, i) ==
    /\ view = "cases" /\ shown[i] # None
    /\ IF Accepts(kind, shown[i]) THEN OpenWizard(kind, i)
       ELSE view' = "refused" /\ UNCHANGED wizards
    /\ UNCHANGED <<rows, shares, papers, savers, manager, lags>>

CloseWarning ==
    /\ view = "refused"
    /\ view' = "cases"
    /\ UNCHANGED <<rows, shares, papers, savers, wizards, manager, lags>>

\* From the home screen or the menu.
Start(kind) ==
    /\ view = "home"
    /\ OpenWizard(kind, None)
    /\ UNCHANGED <<rows, shares, papers, savers, manager, lags>>

Manage ==
    \/ EnterCases \/ LeaveCases \/ Refresh \/ CloseWarning
    \/ \E i \in Ids : NewCase(i) \/ DeleteCase(i)
    \/ \E kind \in Kinds : Start(kind) \/ \E i \in Ids : StartFromCase(kind, i)

-----------------------------------------------------------------------------
(* The wizards, as far as their records and saves go.                      *)

\* build_unseal_record, build_reseal_record: id and history are carried over,
\* the event is in h already.
NewRecord(i, h) == [kind |-> view, id |-> i, history |-> h, split |-> 0]

Issue(i, h) ==
    /\ procs' = [procs EXCEPT ![opened] = NewRecord(i, h)]
    /\ papers' = [papers EXCEPT ![i][view] = h]

\* S4 and S5: the case's id, or a fresh one.
IssueSeal(i) ==
    /\ view = "seal" /\ Current.history = <<>>
    /\ IF Current.id = None THEN ~Used(i) ELSE i = Current.id
    /\ Issue(i, <<"S">>)
    /\ rowLags' = rowLags \cup {i}
    /\ UNCHANGED <<rows, shares, view, savers, opened, splits, manager, sharesLag>>

\* The record files a wizard can be given.
Given(i) == {papers[i][k] : k \in Kinds} \ {<<>>}

Spawn == savers' = Append(savers, [proc |-> opened, stage |-> "reads", split |-> 0])

\* A thread of a reseal still runs that has taken its split already, or that an
\* earlier wizard started.
HoldsSplit(i) ==
    \E n \in DOMAIN savers :
       /\ Runs(n, i) /\ procs[savers[n].proc].kind = "reseal"
       /\ savers[n].proc # opened \/ savers[n].stage = "writes"

\* The table follows again, unless an earlier thread can still write it.
Follow(i) ==
    /\ rowLags' = IF Overtaken(i) THEN rowLags \cup {i} ELSE rowLags \ {i}
    /\ sharesLag' = IF view # "reseal" THEN sharesLag
                    ELSE IF HoldsSplit(i) THEN sharesLag \cup {i}
                    ELSE sharesLag \ {i}

\* Faulty: the event is appended twice.
IssueUnsealTwice(i, h) ==
    /\ view = "unseal" /\ Current.history = <<>>
    /\ h \in Given(i)
    /\ Len(h) < MaxEvents /\ Len(savers) < MaxSavers
    /\ Issue(i, h \o <<"U", "U">>)
    /\ Spawn /\ Follow(i)
    /\ UNCHANGED <<rows, shares, view, opened, splits, manager>>

\* U3 to U6 on a record of i, and U7 is shown: run_u6_record, _run_u7_save.
IssueUnseal(i, h) ==
    /\ view = "unseal" /\ Current.history = <<>>
    /\ h \in Given(i)
    /\ Len(h) < MaxEvents /\ Len(savers) < MaxSavers
    /\ Issue(i, AppendEvent(h, view))
    /\ Spawn /\ Follow(i)
    /\ UNCHANGED <<rows, shares, view, opened, splits, manager>>

\* R1 to R6.
IssueReseal(i, h) ==
    /\ view = "reseal" /\ Current.history = <<>>
    /\ h \in Given(i)
    /\ Len(h) < MaxEvents
    /\ Issue(i, AppendEvent(h, view))
    /\ rowLags' = rowLags \cup {i}
    /\ UNCHANGED <<rows, shares, view, savers, opened, splits, manager, sharesLag>>

\* Faulty: what was saved once is not saved again.
SplitSavesOnce ==
    /\ view = "reseal" /\ Current.history # <<>>
    /\ Len(savers) < MaxSavers /\ splits < MaxSavers
    /\ splits' = splits + 1
    /\ procs' = [procs EXCEPT ![opened] = [Current EXCEPT !.split = splits + 1]]
    /\ IF Current.split = 0 THEN Spawn ELSE UNCHANGED savers
    /\ Follow(Current.id)
    /\ UNCHANGED <<rows, shares, papers, view, opened, manager>>

\* Next at R7, the first time or again: a split, and R8 is shown.
SplitKey ==
    /\ view = "reseal" /\ Current.history # <<>>
    /\ Len(savers) < MaxSavers
    /\ splits' = splits + 1
    /\ procs' = [procs EXCEPT ![opened] = [Current EXCEPT !.split = splits + 1]]
    /\ Spawn /\ Follow(Current.id)
    /\ UNCHANGED <<rows, shares, papers, view, opened, manager>>

\* U7 or R8 is shown again after a look at an earlier step.
ShowLastAgain ==
    /\ view \in {"unseal", "reseal"} /\ Current.history # <<>>
    /\ view = "reseal" => Current.split # 0
    /\ Len(savers) < MaxSavers
    /\ Spawn /\ Follow(Current.id)
    /\ UNCHANGED <<rows, shares, papers, view, wizards, manager>>

AtLast ==
    /\ view \in Kinds /\ Current.history # <<>>
    /\ view = "reseal" => Current.split # 0

\* From U7 and R8 there is no other way out, see MetaRaises.
Cancel ==
    /\ view \in Kinds
    /\ view' = "home"
    /\ UNCHANGED <<rows, shares, papers, savers, wizards, manager, lags>>

Wizard ==
    \/ \E i \in Ids : \/ IssueSeal(i)
                      \/ \E h \in Given(i) : IssueUnseal(i, h) \/ IssueReseal(i, h)
    \/ SplitKey \/ ShowLastAgain \/ Cancel

-----------------------------------------------------------------------------
(* The save threads: run_u7_save and run_r8_save.                          *)

\* INSERT OR REPLACE: a column that is not given, as the status, is reset.
Saved(h, unlock) == [status |-> DefaultStatus, history |-> h, unlock |-> unlock]

\* What is saved is taken from the process, before the database is opened.
SaverReads(n) ==
    /\ savers[n].stage = "reads"
    /\ savers' = [savers EXCEPT ![n] =
                    [proc |-> savers[n].proc, stage |-> "writes",
                     split |-> procs[savers[n].proc].split]]
    /\ UNCHANGED <<rows, shares, papers, view, wizards, manager, lags>>

\* Faulty: the record is committed before the key shares.
SaverWritesRecord(n) ==
    LET p == procs[savers[n].proc] IN
    /\ savers[n].stage = "writes"
    /\ rows' = [rows EXCEPT ![p.id] = Saved(p.history, p.kind = "reseal")]
    /\ savers' = [savers EXCEPT ![n].stage = "ended"]
    /\ shares' \in {shares, [shares EXCEPT ![p.id] = savers[n].split]}
    /\ UNCHANGED <<papers, view, wizards, manager, lags>>

\* Faulty: the id is the one of the wizard that is open.
SaverWritesOpen(n) ==
    LET p == procs[savers[n].proc]
        i == IF Current.id = None THEN p.id ELSE Current.id
    IN
    /\ savers[n].stage = "writes"
    /\ rows' = [rows EXCEPT ![i] = Saved(p.history, p.kind = "reseal")]
    /\ shares' = IF p.kind = "reseal" THEN [shares EXCEPT ![i] = savers[n].split]
                 ELSE shares
    /\ savers' = [savers EXCEPT ![n].stage = "ended"]
    /\ UNCHANGED <<papers, view, wizards, manager, lags>>

\* Faulty: INSERT OR IGNORE.
SaverInserts(n) ==
    LET p == procs[savers[n].proc] IN
    /\ savers[n].stage = "writes"
    /\ rows' = IF rows[p.id] # None THEN rows
               ELSE [rows EXCEPT ![p.id] = Saved(p.history, p.kind = "reseal")]
    /\ shares' = IF p.kind = "reseal" THEN [shares EXCEPT ![p.id] = savers[n].split]
                 ELSE shares
    /\ savers' = [savers EXCEPT ![n].stage = "ended"]
    /\ UNCHANGED <<papers, view, wizards, manager, lags>>

\* save_seal_record (U7), save_seal_bundle (R8, one transaction).
SaverWrites(n) ==
    LET p == procs[savers[n].proc] IN
    /\ savers[n].stage = "writes"
    /\ rows' = [rows EXCEPT ![p.id] = Saved(p.history, p.kind = "reseal")]
    /\ shares' = IF p.kind = "reseal" THEN [shares EXCEPT ![p.id] = savers[n].split]
                 ELSE shares
    /\ savers' = [savers EXCEPT ![n].stage = "ended"]
    /\ UNCHANGED <<papers, view, wizards, manager, lags>>

\* The ids that those threads of N that run were to save for the wizards K.
Unfinished(N, K) ==
    {procs[savers[n].proc].id : n \in
        {m \in N : savers[m].stage # "ended" /\ procs[savers[m].proc].kind \in K}}

\* An error is only logged.
SaverFails(n) ==
    /\ savers[n].stage # "ended"
    /\ savers' = [savers EXCEPT ![n].stage = "ended"]
    /\ rowLags' = rowLags \cup Unfinished({n}, Kinds)
    /\ sharesLag' = sharesLag \cup Unfinished({n}, {"reseal"})
    /\ UNCHANGED <<rows, shares, papers, view, wizards, manager>>

Saver(n) == SaverReads(n) \/ SaverWrites(n) \/ SaverFails(n)

-----------------------------------------------------------------------------
(* Completion: _on_seal_complete, _on_unseal_complete, _on_reseal_complete *)
(* are _ensure_seal_record_exists and _save_case_meta.  Each is its own    *)
(* transactions, and a save thread can come in between.                    *)

Complete ==
    /\ AtLast
    /\ view' = "check"
    /\ UNCHANGED <<rows, shares, papers, savers, wizards, manager, lags>>

CheckRow ==     \* get_seal_record
    /\ view = "check"
    /\ IF rows[Current.id] = None
       THEN view' = "insert" /\ rowLags' = rowLags \cup {Current.id}
       ELSE view' = "update" /\ UNCHANGED rowLags
    /\ UNCHANGED <<rows, shares, papers, savers, wizards, manager, sharesLag>>

\* save_seal_record, with data["record_dict"]: only the seal wizard has it.
InsertRow ==
    /\ view = "insert"
    /\ rows' = [rows EXCEPT ![Current.id] =
                    Saved(IF Current.kind = "seal" THEN Current.history ELSE <<>>, FALSE)]
    /\ view' = "update"
    /\ UNCHANGED <<shares, papers, savers, wizards, manager, lags>>

\* update_case_meta: no row, no update.  The seal wizard's record has no
\* unlock time.
UpdateRow ==
    /\ view = "update" /\ Current.kind = "seal"
    /\ IF rows[Current.id] = None THEN UNCHANGED <<rows, rowLags>>
       ELSE /\ rows' = [rows EXCEPT ![Current.id] =
                           [status |-> Summary(Current.history),
                            history |-> Current.history, unlock |-> FALSE]]
            /\ rowLags' = IF Overtaken(Current.id) THEN rowLags
                          ELSE rowLags \ {Current.id}
    /\ view' = "home"
    /\ UNCHANGED <<shares, papers, savers, wizards, manager, sharesLag>>

\* _save_case_meta asks for the investigator's name, and in the data of the
\* other two wizards the investigator is a string: the exception leaves the
\* handler before update_case_meta and _show_home, and the wizard stays open.
MetaRaises ==
    /\ view = "update" /\ Current.kind # "seal"
    /\ view' = Current.kind
    /\ UNCHANGED <<rows, shares, papers, savers, wizards, manager, lags>>

HandlerFails ==     \* a database error: logged only
    /\ \/ view \in {"check", "insert"} /\ view' = "update"
       \/ view = "update" /\ Current.kind = "seal" /\ view' = "home"
    /\ UNCHANGED <<rows, shares, papers, savers, wizards, manager, lags>>

Handle == \/ Complete \/ CheckRow \/ InsertRow
          \/ UpdateRow \/ MetaRaises \/ HandlerFails

\* The program ends, the save threads (daemons) with it, and starts again.
Restart ==
    /\ view' = "home"
    /\ savers' = [n \in DOMAIN savers |-> [savers[n] EXCEPT !.stage = "ended"]]
    /\ rowLags' = rowLags \cup Unfinished(DOMAIN savers, Kinds)
                 \cup (IF view \in Stages THEN {Current.id} ELSE {})
    /\ sharesLag' = sharesLag \cup Unfinished(DOMAIN savers, {"reseal"})
    /\ UNCHANGED <<rows, shares, papers, wizards, manager>>

-----------------------------------------------------------------------------

Next ==
    \/ Manage \/ LoadReads \/ ApplyCases
    \/ Wizard \/ Handle \/ Restart
    \/ \E n \in DOMAIN savers : Saver(n)

Spec == Init /\ [][Next]_vars

-----------------------------------------------------------------------------
(* What holds, however the threads run, whatever fails or is cancelled.    *)

\* A stored record that promises an unlock time has its key shares beside it:
\* the bundle of R8 is one transaction, and nothing that comes before, between
\* or after it leaves the one without the other (save_seal_bundle: "no
\* partial seal state").
BundleTogether == \A i \in Ids : rows[i] # None /\ rows[i].unlock => shares[i] # 0

\* However late its thread saved and whatever the wizard opened since does,
\* nothing crosses over to another case: the record of a row is one that a
\* wizard issued under the row's id, and the shares in the table are of a split
\* made for that id (save_seal_bundle is called on a thread of its own).
NothingCrosses ==
    \A i \in Ids :
       /\ rows[i] # None /\ rows[i].history # <<>> =>
            \E s \in 1..opened : procs[s].id = i /\ procs[s].history = rows[i].history
       /\ shares[i] # 0 =>
            \E s \in 1..opened : procs[s].kind = "reseal" /\ procs[s].id = i

-----------------------------------------------------------------------------
(* Who writes last.  Nothing joins the save threads, keeps two of them from *)
(* overlapping or tries a save again, so the tables may lag behind; rowLags *)
(* and sharesLag say when, and that the next save sets it right.            *)

\* However threads, handlers and wizards interleave and whatever fails, a row
\* holds the record of the newest process of its id, the unlock time of a reseal
\* included, once the threads of that id have ended, unless the record was never
\* given to a save, that save failed, an earlier wizard's thread still ran when
\* it started, the completion found no row and inserted an empty record, or the
\* row was deleted; and a save that follows without any of this ends every such
\* exception (unseal.db_saved, "Database saved"; complete.reseal_saved).
Issuers(i) == {s \in 1..opened : procs[s].id = i /\ procs[s].history # <<>>}
RowOfNewest ==
    \A i \in Ids \ rowLags : \A s \in Issuers(i) :
       Idle(i) /\ (\A r \in Issuers(i) : r <= s) =>
          /\ rows[i] # None
          /\ rows[i].history = procs[s].history
          /\ rows[i].unlock = (procs[s].kind = "reseal")

\* The shares in the table are of the last split of the case's last reseal, whose
\* other shares the user was given, once the threads of its id have ended, unless
\* the save of that split failed or a thread with an earlier split still ran when
\* it started; and R8 shown again afterwards stores them (complete.reseal_saved:
\* "Reseal record PDF and key shares have been saved").
Reseals(i) == {s \in 1..opened : procs[s].id = i /\ procs[s].split # 0}
SharesAgree ==
    \A i \in Ids \ sharesLag : \A s \in Reseals(i) :
       Idle(i) /\ (\A r \in Reseals(i) : r <= s) => shares[i] = procs[s].split

-----------------------------------------------------------------------------
(* What the repository says of the program and the code does not do.       *)

\* app.py:423, _save_case_meta: "support both so status is derived from the
\* accumulated history summary (e.g. S1U1R1)": the completion of a record that
\* is in its row leaves the summary of its history as the status.
StatusOfHistory ==
    [][view = "update" /\ view' # "update" /\ Idle(Current.id)' /\ Current.id \notin rowLags' =>
          rows'[Current.id].status = Summary(Current.history)]_vars

=============================================================================
