----------------------------- MODULE WebShares -----------------------------
(***************************************************************************)
(* Cases, key shares and records on the web portal: the investigator's,    *)
(* suspect's and admin's pages and the synchronisation (web/routes) over   *)
(* web/models/db_models.py.                                                *)
(*                                                                         *)
(* A request takes its database when it first needs one, and keeps it:     *)
(* MariaDB, or the SQLite file if MariaDB cannot be reached at that time.  *)
(* Every statement is a transaction of its own, and requests are served    *)
(* side by side.  Uploads by a suspect who is not authenticated (WebAuth)  *)
(* and forms that are not filled in are turned away before that, and are   *)
(* left out.                                                               *)
(***************************************************************************)
EXTENDS KeyShares

CONSTANTS
    Databases,
    MariaDB,        \* those of them that are no SQLite files
    Typed,          \* the seal ids that are typed on the portal
    Forms,          \* what registrations and records of one case may say
    Slots,          \* registrations served at a time
    None

VARIABLES
    cases,          \* the tables cases, by database and seal id
    shares,         \* the tables key_shares, by database, seal id and index
    records,        \* the tables seal_records, by database, seal id and event
    requests,       \* the registration that each slot serves
    answer          \* the success, or the key, that the last step answered

tables == <<cases, shares, records>>
portalVars == <<tables, requests, answer>>

-----------------------------------------------------------------------------

CaseKeys == [db : Databases, seal : Typed]
ShareKeys == [db : Databases, seal : Typed, index : {1, 2, 4}]
RecordKeys == [db : Databases, seal : Typed, event : {1}]

\* looked: the case was looked up in vain.
Registrations == [key : CaseKeys, value : Forms, looked : BOOLEAN]

Successes == [key : CaseKeys \cup RecordKeys, value : Forms]
             \cup [key : ShareKeys, value : Share]
\* The two shares that the key shown for a seal id was recovered from.
Recovered == [seal : Typed, first : Share, second : Share]

ASSUME TypedAssumption == Typed \subseteq Seals /\ MariaDB \subseteq Databases
ASSUME NoneAssumption ==
    None \notin Forms \cup Share \cup Registrations \cup Successes \cup Recovered

PortalTypeOK ==
    /\ cases \in [CaseKeys -> Forms \cup {None}]
    /\ shares \in [ShareKeys -> Share \cup {None}]
    /\ records \in [RecordKeys -> Forms \cup {None}]
    /\ requests \in [Slots -> Registrations \cup {None}]
    /\ answer \in Successes \cup Recovered \cup {None}

PortalInit ==
    /\ cases = [k \in CaseKeys |-> None]
    /\ shares = [k \in ShareKeys |-> None]
    /\ records = [k \in RecordKeys |-> None]
    /\ requests = [q \in Slots |-> None]
    /\ answer = None

-----------------------------------------------------------------------------
(* register_case: looks the case up and inserts it, get_db picked before.   *)

SendRegistration(q, key, form) ==
    /\ requests[q] = None
    /\ requests' = [requests EXCEPT ![q] = [key |-> key, value |-> form, looked |-> FALSE]]
    /\ answer' = None
    /\ UNCHANGED tables

\* find_case_by_seal_id: a case that is there already is refused (409).
LookUp(q) ==
    /\ requests[q] # None /\ ~requests[q].looked
    /\ requests' = [requests EXCEPT
          ![q] = IF cases[@.key] = None THEN [@ EXCEPT !.looked = TRUE] ELSE None]
    /\ answer' = None
    /\ UNCHANGED tables

\* The answer to a success may get lost.
AnswerTo(key, value) == answer' \in {None, [key |-> key, value |-> value]}

\* Faulty: INSERT OR REPLACE, where two registrations looked in vain.
ReplaceCase(q) ==
    /\ requests[q] # None /\ requests[q].looked
    /\ LET r == requests[q] IN
       /\ cases' = [cases EXCEPT ![r.key] = r.value]
       /\ AnswerTo(r.key, r.value)
    /\ requests' = [requests EXCEPT ![q] = None]
    /\ UNCHANGED <<shares, records>>

\* insert_case: seal_id is UNIQUE, so that a second row is an error (500).
InsertCase(q) ==
    /\ requests[q] # None /\ requests[q].looked
    /\ LET r == requests[q] IN
       IF cases[r.key] = None
       THEN cases' = [cases EXCEPT ![r.key] = r.value] /\ AnswerTo(r.key, r.value)
       ELSE answer' = None /\ UNCHANGED cases
    /\ requests' = [requests EXCEPT ![q] = None]
    /\ UNCHANGED <<shares, records>>

\* The connection or the statement fails.
Abort(q) ==
    /\ requests[q] # None
    /\ requests' = [requests EXCEPT ![q] = None] /\ answer' = None
    /\ UNCHANGED tables

Serve(q) == LookUp(q) \/ InsertCase(q) \/ Abort(q)

-----------------------------------------------------------------------------
(* Shares.  No case is ever deleted, so that an upload may be taken as one *)
(* step from its look for the case (else 404) to the insert.               *)

CaseOf(key) == [db |-> key.db, seal |-> key.seal]

\* insert_key_share, INSERT OR IGNORE: the first stays, and either way the
\* answer is a success.
InsertShare(key, share) ==
    /\ cases[CaseOf(key)] # None
    /\ shares' = [shares EXCEPT ![key] = IF @ = None THEN share ELSE @]
    /\ AnswerTo(key, share)
    /\ UNCHANGED <<cases, records, requests>>

\* Index 1 on the suspect's page, 2 on the investigator's.
UploadShare(key, share) == key.index # 4 /\ InsertShare(key, share)

\* The admin's share: no page takes it, it is put into the table by hand.
DepositShare4(key, share) == key.index = 4 /\ InsertShare(key, share)

-----------------------------------------------------------------------------
(* Records.                                                                *)

\* insert_seal_record, INSERT OR IGNORE: the first stays.
InsertRecord(key, form) ==
    records' = [records EXCEPT
        ![key] = IF @ = None /\ cases[CaseOf(key)] # None THEN form ELSE @]

\* sync.upload_record.  If the case is not there the foreign key is an error in
\* SQLite (500); MariaDB's INSERT IGNORE drops the row, and that is a success.
UploadRecord(key, form) ==
    /\ cases[CaseOf(key)] # None \/ key.db \in MariaDB
    /\ InsertRecord(key, form)
    /\ AnswerTo(key, form)
    /\ UNCHANGED <<cases, shares, requests>>

-----------------------------------------------------------------------------
(* Recovery: one query, and the key is shown (and kept in the cookie).     *)

\* find_key_shares_by_seal_id, ORDER BY share_index.
Indexes(db, s) ==
    {i \in {1, 2, 4} : shares[[db |-> db, seal |-> s, index |-> i]] # None}

ShowKey(db, s, i, j) ==
    /\ LET a == shares[[db |-> db, seal |-> s, index |-> i]]
           b == shares[[db |-> db, seal |-> s, index |-> j]]
       IN a.index # b.index /\ answer' = [seal |-> s, first |-> a, second |-> b]
    /\ UNCHANGED <<tables, requests>>

\* investigator.recover_key takes the first two rows.
Recover(db, s) ==
    \E i, j \in Indexes(db, s) :
        /\ i < j /\ \A k \in Indexes(db, s) \ {i} : j <= k
        /\ ShowKey(db, s, i, j)

\* admin.emergency_recover: the first other row and the admin's share.
EmergencyRecover(db, s) ==
    \E i \in Indexes(db, s) \ {4} :
        /\ \A k \in Indexes(db, s) : i <= k
        /\ 4 \in Indexes(db, s) /\ ShowKey(db, s, i, 4)

-----------------------------------------------------------------------------
(* What each database keeps, see Ledger.                                   *)

Told(keys) ==
    IF answer \in Successes /\ answer.key \in keys THEN answer ELSE None

CaseLedger == INSTANCE Ledger WITH
    Keys <- CaseKeys, Values <- Forms, Strict <- TRUE,
    entries <- cases, told <- Told(CaseKeys)

ShareLedger == INSTANCE Ledger WITH
    Keys <- ShareKeys, Values <- Share, Strict <- FALSE,
    entries <- shares, told <- Told(ShareKeys)

\* Every table of records is write-once.  An answer can be relied on in SQLite,
\* and in MariaDB if the case is registered: the row that INSERT IGNORE drops
\* otherwise is answered as a success.
ReliableRecordKeys == {k \in RecordKeys : k.db \notin MariaDB \/ cases[CaseOf(k)] # None}
RecordLedger == INSTANCE Ledger WITH
    Keys <- RecordKeys, Values <- Forms, Strict <- FALSE,
    entries <- records, told <- Told(ReliableRecordKeys)

=============================================================================
