--------------------------- MODULE CaseStoreProofs ---------------------------
(***************************************************************************)
(* What the case store keeps, for every value of the constants, however    *)
(* its threads run, whatever fails and wherever the program ends.          *)
(*                                                                         *)
(* The strengthening of the first part ties the threads to the processes:  *)
(* a save thread has a process that issued its record, and a reseal is     *)
(* split before it is saved; a process never changes what it issued.  That *)
(* of the second part (LeadOK) says of a table that does not lag behind    *)
(* what the threads that still run may write to it.  The last part is      *)
(* about the list of cases.                                                *)
(***************************************************************************)
EXTENDS CaseStore, FiniteSetTheorems, SequenceTheorems, TLAPS

ProcsOK ==
    /\ \A s \in 1..MaxSessions : procs[s] # None <=> s <= opened
    /\ \A s \in 1..opened : procs[s].history # <<>> => procs[s].id \in Ids

SaverOK(t) ==
    /\ t.proc <= opened
    /\ procs[t.proc].history # <<>>
    /\ procs[t.proc].kind = "reseal" =>
          /\ procs[t.proc].split # 0
          /\ t.stage = "writes" => t.split # 0

SaversOK ==
    /\ \A n \in 1..Len(savers) : SaverOK(savers[n])
    /\ splits <= Len(savers)

Issued(i, h) == \E s \in 1..opened : procs[s].id = i /\ procs[s].history = h
Resealed(i) == \E s \in 1..opened : /\ procs[s].kind = "reseal" /\ procs[s].id = i
                                    /\ procs[s].history # <<>>
\* The record's part of NothingCrosses; that of the shares needs Resealed.
RecordIsOfCase ==
    \A i \in Ids : rows[i] # None /\ rows[i].history # <<>> => Issued(i, rows[i].history)
Stored ==
    /\ BundleTogether /\ RecordIsOfCase
    /\ \A i \in Ids : shares[i] # 0 => Resealed(i)

\* What the screens require of the current process.
ViewOK ==
    /\ view \in Views
    /\ view \in Kinds => opened > 0 /\ Current.kind = view
    /\ view \in Stages => opened > 0 /\ Current.history # <<>>

IInv == TablesOK /\ ViewOK /\ ProcsOK /\ SaversOK /\ Stored

-----------------------------------------------------------------------------

\* A summary counts no more events than there are.
LEMMA SummaryType ==
  ASSUME NEW h \in Histories
  PROVE  Summary(h) \in Statuses
<1>1. h \in Seq({"S", "U", "R"}) /\ Len(h) \in 1..MaxEvents /\ DOMAIN h = 1..Len(h)
  BY DEF Histories
<1>2. IsFiniteSet(1..Len(h)) /\ Cardinality(1..Len(h)) = Len(h)
  BY <1>1, FS_Interval
<1>3. ASSUME NEW e \in {"S", "U", "R"}
      PROVE  Cardinality({n \in DOMAIN h : h[n] = e}) \in 0..MaxEvents
  <2> DEFINE E == {n \in DOMAIN h : h[n] = e}
  <2>1. E \subseteq 1..Len(h)
    BY <1>1
  <2>2. IsFiniteSet(E) /\ Cardinality(E) <= Len(h)
    BY <2>1, <1>2, FS_Subset
  <2>3. Cardinality(E) \in Nat
    BY <2>2, FS_CardinalityType
  <2> HIDE DEF E
  <2>4. Cardinality(E) \in 0..MaxEvents
    BY <2>2, <2>3, <1>1, BoundsAssumption
  <2> QED
    BY <2>4 DEF E
<1> QED
  BY <1>3 DEF Summary, Statuses

LEMMA DefaultStatusType == DefaultStatus \in Statuses
<1>1. <<"S">> \in Histories
  BY BoundsAssumption DEF Histories
<1> QED
  BY <1>1, SummaryType DEF DefaultStatus

\* The record of a process that is given a record.
LEMMA IssueHistory ==
  ASSUME papers \in [Ids -> [Kinds -> Histories \cup {<<>>}]],
         NEW i \in Ids, NEW h \in Given(i), Len(h) < MaxEvents, view \in Kinds
  PROVE  Append(h, Event[view]) \in Histories
<1>1. h \in Histories
  BY DEF Given
<1>3. h \in Seq({"S", "U", "R"}) /\ Len(h) \in Nat
  BY <1>1 DEF Histories
<1>2. Event[view] \in {"S", "U", "R"}
  BY DEF Event, Kinds
<1>4. /\ Append(h, Event[view]) \in Seq({"S", "U", "R"})
     /\ Len(Append(h, Event[view])) = Len(h) + 1
  BY <1>2, <1>3
<1> QED
  BY <1>3, <1>4, BoundsAssumption DEF Histories

LEMMA InitIInv == Init => IInv
<1> SUFFICES ASSUME Init PROVE IInv
  OBVIOUS
<1>1. TablesOK /\ ViewOK
  BY BoundsAssumption DEF Init, TablesOK, ViewOK, Views, Kinds, Stages
<1>2. ProcsOK
  BY BoundsAssumption DEF Init, ProcsOK
<1>3. SaversOK /\ Stored
  BY DEF Init, SaversOK, Stored, BundleTogether, RecordIsOfCase
<1> QED
  BY <1>1, <1>2, <1>3 DEF IInv

-----------------------------------------------------------------------------
(* Steps that leave the tables and the processes alone. *)

ManagerOK ==
    /\ shown \in [Ids -> Statuses \cup {None}]
    /\ load \in {"idle", "reading", "loaded"}
    /\ result \in [Ids -> Statuses \cup {None}]

LEMMA ViewIInv ==
  ASSUME IInv, UNCHANGED <<rows, shares, papers, savers, wizards>>,
         ManagerOK', ViewOK'
  PROVE  IInv'
<1>1. TablesOK'
  BY DEF IInv, TablesOK, ManagerOK, ViewOK, wizards
<1>2. ProcsOK'
  BY DEF IInv, ProcsOK, wizards
<1>3. SaversOK'
  BY DEF IInv, SaversOK, SaverOK, wizards
<1>4. Stored'
  BY DEF IInv, Stored, BundleTogether, RecordIsOfCase, Issued, Resealed, wizards
<1> QED
  BY <1>1, <1>2, <1>3, <1>4 DEF IInv

\* The steps of the case manager, of a load and of the handlers' control.
LEMMA ControlIInv ==
  ASSUME IInv,
         \/ EnterCases \/ LeaveCases \/ LoadReads \/ ApplyCases \/ Refresh
         \/ CloseWarning \/ Cancel \/ Complete \/ CheckRow \/ MetaRaises \/ HandlerFails
  PROVE  IInv'
<1>1. CASE EnterCases
  <2>1. ManagerOK' /\ ViewOK'
    BY <1>1 DEF EnterCases, ManagerOK, ViewOK, Views, Kinds, Stages
  <2> QED
    BY <1>1, <2>1, ViewIInv DEF EnterCases
<1>2. CASE LeaveCases \/ CloseWarning \/ Cancel
  <2>1. ManagerOK' /\ ViewOK'
    BY <1>2 DEF IInv, TablesOK, LeaveCases, CloseWarning, Cancel, manager, ManagerOK,
       ViewOK, Views, Kinds, Stages
  <2> QED
    BY <1>2, <2>1, ViewIInv DEF LeaveCases, CloseWarning, Cancel
<1>3. CASE LoadReads
  <2>1. ASSUME NEW K \in SUBSET Ids PROVE Listed(K) \in [Ids -> Statuses \cup {None}]
    BY DefaultStatusType DEF IInv, TablesOK, Listed, Rows
  <2>2. ManagerOK' /\ ViewOK'
    BY <1>3, <2>1 DEF IInv, TablesOK, LoadReads, ManagerOK, ViewOK, wizards, Current
  <2> QED
    BY <1>3, <2>2, ViewIInv DEF LoadReads
<1>4. CASE ApplyCases \/ Refresh
  <2>1. ManagerOK' /\ ViewOK'
    BY <1>4 DEF IInv, TablesOK, ApplyCases, Refresh, Reload, ManagerOK, ViewOK,
       wizards, Current
  <2> QED
    BY <1>4, <2>1, ViewIInv DEF ApplyCases, Refresh
<1>5. CASE Complete
  <2>1. ManagerOK' /\ ViewOK'
    BY <1>5 DEF IInv, TablesOK, Complete, AtLast, manager, ManagerOK, ViewOK,
       Views, Kinds, Stages, wizards, Current
  <2> QED
    BY <1>5, <2>1, ViewIInv DEF Complete
<1>6. CASE CheckRow \/ HandlerFails
  <2>1. ManagerOK' /\ ViewOK'
    BY <1>6 DEF IInv, TablesOK, CheckRow, HandlerFails, manager, ManagerOK, ViewOK,
       Views, Kinds, Stages, wizards, Current
  <2> QED
    BY <1>6, <2>1, ViewIInv DEF CheckRow, HandlerFails
<1>7. CASE MetaRaises
  <2>1. opened \in 1..MaxSessions /\ procs[opened].kind \in Kinds
    BY <1>7, BoundsAssumption, NoneAssumption
       DEF IInv, TablesOK, ProcsOK, Procs, ViewOK, Stages, MetaRaises
  <2>2. ManagerOK' /\ ViewOK'
    BY <1>7, <2>1 DEF IInv, TablesOK, MetaRaises, manager, ManagerOK, ViewOK,
       Views, Kinds, Stages, wizards, Current
  <2> QED
    BY <1>7, <2>2, ViewIInv DEF MetaRaises
<1> QED
  BY <1>1, <1>2, <1>3, <1>4, <1>5, <1>6, <1>7

-----------------------------------------------------------------------------
(* Steps that write one row. *)

\* A row may be written with a record that was issued for its id; a record
\* with an unlock time only together with shares of a reseal of its id.
LEMMA RowIInv ==
  ASSUME IInv, UNCHANGED <<papers, wizards>>, ManagerOK', ViewOK',
         savers' \in Seq(Savers), Len(savers') <= MaxSavers, SaversOK',
         NEW i \in Ids, NEW r \in Rows \cup {None}, NEW v \in 0..MaxSavers,
         rows' = [rows EXCEPT ![i] = r], shares' = [shares EXCEPT ![i] = v],
         r # None => /\ r.unlock => v # 0
                     /\ r.history # <<>> => Issued(i, r.history),
         v # 0 => Resealed(i)
  PROVE  IInv'
<1>1. TablesOK'
  BY DEF IInv, TablesOK, ManagerOK, ViewOK, wizards
<1>2. ProcsOK'
  BY DEF IInv, ProcsOK, wizards
<1>3. rows' \in [Ids -> Rows \cup {None}] /\ rows'[i] = r /\ shares'[i] = v
  BY DEF IInv, TablesOK
<1>4. \A j \in Ids : j # i => rows'[j] = rows[j] /\ shares'[j] = shares[j]
  BY DEF IInv, TablesOK
<1>5. opened' = opened /\ procs' = procs
  BY DEF wizards
<1>6. BundleTogether'
  BY <1>3, <1>4 DEF IInv, Stored, BundleTogether
<1>7. RecordIsOfCase'
  <2>1. ASSUME NEW j \in Ids, rows'[j] # None, rows'[j].history # <<>>
        PROVE  Issued(j, rows'[j].history)
    <3>1. CASE j = i
      BY <2>1, <3>1, <1>3
    <3>2. CASE j # i
      BY <2>1, <3>2, <1>4 DEF IInv, Stored, RecordIsOfCase, Issued
    <3> QED
      BY <3>1, <3>2
  <2> QED
    BY <2>1, <1>5 DEF RecordIsOfCase, Issued
<1>8. \A j \in Ids : shares'[j] # 0 => Resealed(j)'
  BY <1>3, <1>4, <1>5 DEF IInv, Stored, Resealed
<1> QED
  BY <1>1, <1>2, <1>6, <1>7, <1>8 DEF IInv, Stored

LEMMA NewCaseIInv ==
  ASSUME IInv, NEW i \in Ids, NewCase(i)
  PROVE  IInv'
<1> DEFINE r == [status |-> None, history |-> <<>>, unlock |-> FALSE]
<1>1. r \in Rows /\ ~r.unlock /\ r.history = <<>>
  BY DEF Rows
<1>2. ManagerOK' /\ ViewOK' /\ SaversOK'
  BY DEF IInv, TablesOK, NewCase, Reload, ManagerOK, ViewOK, SaversOK, SaverOK, wizards, Current
<1>3. rows' = [rows EXCEPT ![i] = r] /\ shares' = [shares EXCEPT ![i] = shares[i]]
  BY DEF IInv, TablesOK, NewCase
<1>4. savers' = savers /\ shares[i] \in 0..MaxSavers /\ (shares[i] # 0 => Resealed(i))
  BY DEF IInv, TablesOK, Stored, NewCase
<1> HIDE DEF r
<1> QED
  BY <1>1, <1>2, <1>3, <1>4, RowIInv DEF NewCase, IInv, TablesOK

LEMMA DeleteCaseIInv ==
  ASSUME IInv, NEW i \in Ids, DeleteCase(i)
  PROVE  IInv'
<1>1. ManagerOK' /\ ViewOK' /\ SaversOK'
  BY DEF IInv, TablesOK, DeleteCase, DeleteRow, Reload, ManagerOK, ViewOK, SaversOK, SaverOK, wizards, Current
<1>2. rows' = [rows EXCEPT ![i] = None] /\ shares' = [shares EXCEPT ![i] = shares[i]]
  BY DEF IInv, TablesOK, DeleteCase, DeleteRow
<1>3. savers' = savers /\ shares[i] \in 0..MaxSavers /\ (shares[i] # 0 => Resealed(i))
  BY DEF IInv, TablesOK, Stored, DeleteCase, DeleteRow
<1> QED
  BY <1>1, <1>2, <1>3, RowIInv DEF DeleteCase, DeleteRow, IInv, TablesOK

\* What a save writes.
LEMMA SavedType ==
  ASSUME NEW h \in Histories \cup {<<>>}, NEW u \in BOOLEAN
  PROVE  Saved(h, u) \in Rows /\ Saved(h, u).history = h /\ Saved(h, u).unlock = u
BY DefaultStatusType DEF Saved, Rows

LEMMA ProcType ==
  ASSUME IInv, NEW s \in 1..opened
  PROVE  s \in 1..MaxSessions /\ procs[s] \in Procs
<1>1. opened \in 0..MaxSessions /\ s \in 1..MaxSessions
  BY BoundsAssumption DEF IInv, TablesOK
<1> QED
  BY <1>1 DEF IInv, TablesOK, ProcsOK

\* A save thread, and one that is changed.
LEMMA SaverType ==
  ASSUME IInv, NEW n \in DOMAIN savers
  PROVE  /\ n \in 1..Len(savers) /\ savers[n] \in Savers /\ SaverOK(savers[n])
         /\ savers[n].proc \in 1..opened /\ opened \in 1..MaxSessions
<1>1. savers \in Seq(Savers) /\ Len(savers) \in Nat /\ DOMAIN savers = 1..Len(savers)
  BY DEF IInv, TablesOK
<1>2. savers[n] \in Savers
  BY <1>1, ElementOfSeq
<1>3. SaverOK(savers[n])
  BY <1>1 DEF IInv, SaversOK
<1> QED
  BY <1>1, <1>2, <1>3 DEF SaverOK, Savers, IInv, TablesOK

LEMMA SaverChange ==
  ASSUME IInv, NEW n \in DOMAIN savers, NEW t \in Savers,
         savers' = [savers EXCEPT ![n] = t], UNCHANGED wizards, SaverOK(t)
  PROVE  savers' \in Seq(Savers) /\ Len(savers') = Len(savers) /\ SaversOK'
<1>1. savers \in Seq(Savers) /\ n \in 1..Len(savers)
  BY SaverType DEF IInv, TablesOK
<1>2. /\ savers' \in Seq(Savers) /\ Len(savers') = Len(savers)
     /\ \A j \in 1..Len(savers) : savers'[j] = IF j = n THEN t ELSE savers[j]
  BY <1>1, ExceptSeq
<1>3. \A j \in 1..Len(savers) : SaverOK(savers'[j])
  BY <1>2 DEF IInv, SaversOK
<1>4. \A j \in 1..Len(savers') : SaverOK(savers'[j]) <=> SaverOK(savers[j])'
  BY DEF SaverOK, wizards
<1> QED
  BY <1>2, <1>3, <1>4 DEF IInv, SaversOK, wizards

LEMMA SaverWritesIInv ==
  ASSUME IInv, NEW n \in DOMAIN savers, SaverWrites(n)
  PROVE  IInv'
<1> DEFINE p == procs[savers[n].proc]
           u == p.kind = "reseal"
           r == Saved(p.history, u)
           v == IF u THEN savers[n].split ELSE shares[p.id]
<1>1. /\ savers[n] \in Savers /\ SaverOK(savers[n]) /\ savers[n].stage = "writes"
     /\ savers[n].proc \in 1..opened /\ opened \in 1..MaxSessions
  BY SaverType DEF SaverWrites
<1>2. p \in Procs /\ p.history # <<>> /\ p.id \in Ids
  <2>1. p \in Procs
    BY <1>1, ProcType
  <2> QED
    BY <1>1, <2>1 DEF IInv, ProcsOK, SaverOK
<1>3. u \in BOOLEAN
  OBVIOUS
<1>4. r \in Rows /\ r.history = p.history /\ r.unlock = u
  BY <1>2, <1>3, SavedType DEF Procs
<1>5. Issued(p.id, p.history) /\ (u => Resealed(p.id))
  BY <1>1, <1>2 DEF Issued, Resealed
<1>6. v \in 0..MaxSavers /\ (u => v # 0) /\ (v # 0 => Resealed(p.id))
  BY <1>1, <1>2, <1>5 DEF IInv, TablesOK, SaverOK, Stored, Savers
<1>7. rows' = [rows EXCEPT ![p.id] = r] /\ shares' = [shares EXCEPT ![p.id] = v]
  BY <1>2 DEF IInv, TablesOK, SaverWrites
<1>8. ManagerOK' /\ ViewOK'
  BY DEF IInv, TablesOK, SaverWrites, ManagerOK, ViewOK, wizards, manager, Current
<1> DEFINE t == [savers[n] EXCEPT !.stage = "ended"]
<1>9. t \in Savers /\ SaverOK(t)
  BY <1>1 DEF Savers, SaverOK
<1>10. savers' \in Seq(Savers) /\ Len(savers') = Len(savers) /\ SaversOK'
  <2>1. savers' = [savers EXCEPT ![n] = t] /\ UNCHANGED wizards
    BY DEF SaverWrites
  <2> HIDE DEF t
  <2> QED
    BY <1>9, <2>1, SaverChange
<1>11. UNCHANGED <<papers, wizards>> /\ Len(savers) <= MaxSavers
  BY DEF SaverWrites, IInv, TablesOK
<1> HIDE DEF p, u, r, v
<1> QED
  BY <1>2, <1>4, <1>5, <1>6, <1>7, <1>8, <1>9, <1>10, <1>11, RowIInv

\* The current process of a handler.
LEMMA CurrentType ==
  ASSUME IInv, view \in Kinds \cup Stages
  PROVE  /\ opened \in 1..MaxSessions /\ Current \in Procs
         /\ Current.history # <<>> => Current.id \in Ids /\ Current.history \in Histories
<1>1. opened \in 1..MaxSessions
  BY BoundsAssumption DEF IInv, TablesOK, ViewOK
<1>2. Current \in Procs
  BY <1>1 DEF IInv, TablesOK, ProcsOK, Current
<1> QED
  BY <1>1, <1>2 DEF IInv, ProcsOK, Current, Procs

LEMMA InsertRowIInv ==
  ASSUME IInv, InsertRow
  PROVE  IInv'
<1> DEFINE i == Current.id
           h == IF Current.kind = "seal" THEN Current.history ELSE <<>>
           r == Saved(h, FALSE)
<1>1. i \in Ids /\ h \in Histories \cup {<<>>} /\ opened \in 1..MaxSessions
  BY CurrentType DEF IInv, ViewOK, InsertRow, Stages
<1>2. r \in Rows /\ r.history = h /\ ~r.unlock
  BY <1>1, SavedType
<1>3. h # <<>> => Issued(i, h)
  BY <1>1 DEF Issued, Current
<1>4. rows' = [rows EXCEPT ![i] = r] /\ shares' = [shares EXCEPT ![i] = shares[i]]
  BY DEF IInv, TablesOK, InsertRow
<1>5. savers' = savers /\ shares[i] \in 0..MaxSavers /\ (shares[i] # 0 => Resealed(i))
  BY <1>1 DEF IInv, TablesOK, Stored, InsertRow
<1>6. ManagerOK' /\ ViewOK' /\ SaversOK'
  BY DEF IInv, TablesOK, InsertRow, ManagerOK, ViewOK, SaversOK, SaverOK, Views, Kinds, Stages,
     wizards, manager, Current
<1>7. UNCHANGED <<papers, wizards>>
  BY DEF InsertRow
<1> HIDE DEF i, h, r
<1> QED
  BY <1>1, <1>2, <1>3, <1>4, <1>5, <1>6, <1>7, RowIInv DEF IInv, TablesOK

LEMMA UpdateRowIInv ==
  ASSUME IInv, UpdateRow
  PROVE  IInv'
<1> DEFINE i == Current.id
           r == [status |-> Summary(Current.history), history |-> Current.history,
                 unlock |-> FALSE]
<1>1. i \in Ids /\ Current.history \in Histories /\ opened \in 1..MaxSessions
  BY CurrentType DEF IInv, ViewOK, UpdateRow, Stages
<1>2. r \in Rows /\ r.history = Current.history /\ ~r.unlock
  BY <1>1, SummaryType DEF Rows
<1>3. Issued(i, Current.history)
  BY <1>1 DEF Issued, Current
<1>4. shares' = [shares EXCEPT ![i] = shares[i]] /\ savers' = savers
  BY DEF IInv, TablesOK, UpdateRow
<1>5. shares[i] \in 0..MaxSavers /\ (shares[i] # 0 => Resealed(i))
  BY <1>1 DEF IInv, TablesOK, Stored
<1>6. ManagerOK' /\ ViewOK' /\ SaversOK'
  BY DEF IInv, TablesOK, UpdateRow, ManagerOK, ViewOK, SaversOK, SaverOK, Views, Kinds, Stages,
     wizards, manager, Current
<1>7. UNCHANGED <<papers, wizards>>
  BY DEF UpdateRow
<1>8. CASE rows[i] = None
  BY <1>6, <1>8, ViewIInv DEF UpdateRow
<1>9. CASE rows[i] # None
  <2>1. rows' = [rows EXCEPT ![i] = r]
    BY <1>9 DEF UpdateRow
  <2> HIDE DEF i, r
  <2> QED
    BY <1>1, <1>2, <1>3, <1>4, <1>5, <1>6, <1>7, <2>1, RowIInv DEF IInv, TablesOK
<1> QED
  BY <1>8, <1>9

-----------------------------------------------------------------------------
(* Steps of the processes and of the save threads. *)

\* A process that issued its record keeps it.
Kept ==
    /\ opened <= opened'
    /\ \A s \in 1..opened : procs[s].history # <<>> =>
          /\ procs'[s].kind = procs[s].kind /\ procs'[s].id = procs[s].id
          /\ procs'[s].history = procs[s].history
          /\ procs[s].split # 0 => procs'[s].split # 0

LEMMA KeptIInv ==
  ASSUME IInv, Kept, UNCHANGED <<rows, shares>>, TablesOK', ViewOK', ProcsOK', SaversOK'
  PROVE  IInv'
<1>1. opened \in Nat /\ opened' \in Nat /\ opened <= opened'
  BY DEF IInv, TablesOK, Kept
<1>2. BundleTogether'
  BY DEF IInv, Stored, BundleTogether
<1>3. RecordIsOfCase'
  BY <1>1 DEF IInv, Stored, RecordIsOfCase, Issued, Kept
<1>4. \A i \in Ids : shares'[i] # 0 => Resealed(i)'
  BY <1>1 DEF IInv, Stored, Resealed, Kept
<1> QED
  BY <1>2, <1>3, <1>4 DEF IInv, Stored

\* A wizard is opened: a process more, which has issued nothing.
LEMMA OpenIInv ==
  ASSUME IInv, NEW kind \in Kinds, NEW i \in Ids \cup {None}, OpenWizard(kind, i),
         UNCHANGED <<rows, shares, papers, savers, manager>>
  PROVE  IInv'
<1> DEFINE q == [kind |-> kind, id |-> i, history |-> <<>>, split |-> 0]
<1>1. /\ q \in Procs /\ q # None /\ q.history = <<>> /\ q.kind = kind
  BY NoneAssumption, BoundsAssumption DEF Procs
<1>2. /\ opened \in Nat /\ opened < MaxSessions /\ opened' = opened + 1
      /\ procs' = [procs EXCEPT ![opened + 1] = q] /\ view' = kind /\ splits' = splits
  BY DEF IInv, TablesOK, OpenWizard
<1> HIDE DEF q
<1>3. opened' \in 1..MaxSessions
  BY <1>2, BoundsAssumption
<1>4. /\ procs' \in [1..MaxSessions -> Procs \cup {None}] /\ procs'[opened'] = q
      /\ \A s \in 1..MaxSessions : s # opened' => procs'[s] = procs[s]
  BY <1>1, <1>2, <1>3 DEF IInv, TablesOK
<1>5. TablesOK'
  BY <1>2, <1>3, <1>4 DEF IInv, TablesOK, manager, Views
<1>6. ProcsOK'
  <2>1. \A s \in 1..MaxSessions : procs'[s] # None <=> s <= opened'
    BY <1>1, <1>2, <1>3, <1>4 DEF IInv, ProcsOK
  <2>2. \A s \in 1..opened' : procs'[s].history # <<>> => procs'[s].id \in Ids
    BY <1>1, <1>2, <1>3, <1>4 DEF IInv, ProcsOK
  <2> QED
    BY <2>1, <2>2 DEF ProcsOK
<1>7. \A s \in 1..opened : procs'[s] = procs[s]
  BY <1>2, <1>3, <1>4
<1>8. SaversOK'
  <2>1. ASSUME NEW n \in 1..Len(savers) PROVE SaverOK(savers[n])'
    <3>1. SaverOK(savers[n]) /\ savers[n].proc \in 1..opened
      BY SaverType DEF IInv, TablesOK
    <3> QED
      BY <3>1, <1>2, <1>7 DEF SaverOK
  <2> QED
    BY <2>1, <1>2 DEF IInv, SaversOK
<1>9. ViewOK'
  BY <1>1, <1>2, <1>3, <1>4 DEF ViewOK, Views, Kinds, Stages, Current
<1>10. Kept
  BY <1>2, <1>7 DEF Kept
<1> QED
  BY <1>5, <1>6, <1>8, <1>9, <1>10, KeptIInv

LEMMA StartIInv ==
  ASSUME IInv, NEW kind \in Kinds,
         Start(kind) \/ \E i \in Ids : StartFromCase(kind, i)
  PROVE  IInv'
<1>1. CASE Start(kind)
  BY <1>1, OpenIInv DEF Start
<1>2. ASSUME NEW i \in Ids, StartFromCase(kind, i) PROVE IInv'
  <2>1. CASE Accepts(kind, shown[i])
    BY <1>2, <2>1, OpenIInv DEF StartFromCase
  <2>2. CASE ~Accepts(kind, shown[i])
    <3>1. view' = "refused" /\ UNCHANGED <<rows, shares, papers, savers, wizards, manager>>
      BY <1>2, <2>2 DEF StartFromCase
    <3>2. ManagerOK' /\ ViewOK'
      BY <3>1 DEF IInv, TablesOK, manager, ManagerOK, ViewOK, Views, Kinds, Stages
    <3> QED
      BY <3>1, <3>2, ViewIInv
  <2> QED
    BY <2>1, <2>2
<1> QED
  BY <1>1, <1>2

\* The current process is changed, and a save thread may be started for it.
LEMMA ProcIInv ==
  ASSUME IInv, view \in Kinds, NEW q \in Procs,
         q.kind = view, q.history # <<>>, q.id \in Ids,
         Current.history # <<>> => /\ q.id = Current.id /\ q.history = Current.history
                                   /\ Current.split # 0 => q.split # 0,
         procs' = [procs EXCEPT ![opened] = q],
         papers' \in [Ids -> [Kinds -> Histories \cup {<<>>}]],
         splits' \in 0..MaxSavers, splits' <= Len(savers'),
         \/ savers' = savers
         \/ Spawn /\ Len(savers) < MaxSavers /\ (view = "reseal" => q.split # 0),
         UNCHANGED <<rows, shares, view, opened, manager>>
  PROVE  IInv'
<1>1. /\ opened \in 1..MaxSessions /\ opened' = opened /\ view' = view
      /\ q # None /\ Current.kind = view
  BY CurrentType, NoneAssumption DEF IInv, ViewOK
<1>2. /\ procs' \in [1..MaxSessions -> Procs \cup {None}] /\ procs'[opened] = q
      /\ \A s \in 1..MaxSessions : s # opened => procs'[s] = procs[s]
  BY <1>1 DEF IInv, TablesOK
<1>3. savers \in Seq(Savers) /\ Len(savers) \in Nat /\ Len(savers) <= MaxSavers
  BY DEF IInv, TablesOK
<1> DEFINE t == [proc |-> opened, stage |-> "reads", split |-> 0]
<1>4. t \in Savers /\ t.proc = opened /\ t.stage = "reads"
  BY <1>1, BoundsAssumption DEF Savers
<1>5. ASSUME Spawn
      PROVE  /\ savers' \in Seq(Savers) /\ Len(savers') = Len(savers) + 1
             /\ \A n \in 1..Len(savers) : savers'[n] = savers[n]
             /\ savers'[Len(savers) + 1] = t
  <2>1. savers' = Append(savers, t)
    BY <1>5 DEF Spawn
  <2> HIDE DEF t
  <2> QED
    BY <2>1, <1>3, <1>4, AppendProperties
<1> HIDE DEF t
<1>6. savers' \in Seq(Savers) /\ Len(savers') <= MaxSavers
  BY <1>3, <1>5, BoundsAssumption
<1>7. TablesOK'
  BY <1>1, <1>2, <1>6 DEF IInv, TablesOK, manager
<1>8. ProcsOK'
  <2>1. \A s \in 1..MaxSessions : procs'[s] # None <=> s <= opened'
    BY <1>1, <1>2 DEF IInv, ProcsOK
  <2>2. \A s \in 1..opened' : procs'[s].history # <<>> => procs'[s].id \in Ids
    BY <1>1, <1>2 DEF IInv, ProcsOK
  <2> QED
    BY <2>1, <2>2 DEF ProcsOK
<1>9. \A s \in 1..opened : procs[s].history # <<>> =>
         /\ procs'[s].kind = procs[s].kind /\ procs'[s].id = procs[s].id
         /\ procs'[s].history = procs[s].history
         /\ procs[s].split # 0 => procs'[s].split # 0
  BY <1>1, <1>2 DEF Current
<1>10. Kept
  BY <1>1, <1>9 DEF Kept
<1> DEFINE Fine(u) == /\ u.proc <= opened' /\ procs'[u.proc].history # <<>>
                      /\ procs'[u.proc].kind = "reseal" =>
                            /\ procs'[u.proc].split # 0
                            /\ u.stage = "writes" => u.split # 0
<1>11. \A n \in 1..Len(savers) : Fine(savers[n])
  <2> SUFFICES ASSUME NEW n \in 1..Len(savers) PROVE Fine(savers[n])
    OBVIOUS
  <2>1. SaverOK(savers[n]) /\ savers[n].proc \in 1..opened
    BY SaverType, <1>3
  <2> QED
    BY <2>1, <1>1, <1>9 DEF SaverOK
<1>12. Spawn /\ (view = "reseal" => q.split # 0) => Fine(t)
  BY <1>1, <1>2, <1>4
<1>13. \A n \in 1..Len(savers') : Fine(savers'[n])
  <2> HIDE DEF Fine
  <2> QED
    BY <1>3, <1>5, <1>11, <1>12
<1>14. SaversOK'
  BY <1>13 DEF SaversOK, SaverOK
<1>15. ViewOK'
  BY <1>1, <1>2 DEF ViewOK, Views, Kinds, Stages, Current
<1> HIDE DEF Fine
<1> QED
  BY <1>7, <1>8, <1>10, <1>14, <1>15, KeptIInv

\* A thread more.
LEMMA SpawnLen ==
  ASSUME IInv, Spawn
  PROVE  Len(savers') = Len(savers) + 1 /\ Len(savers) \in Nat
<1> DEFINE t == [proc |-> opened, stage |-> "reads", split |-> 0]
<1>1. savers' = Append(savers, t)
  BY DEF Spawn
<1> HIDE DEF t
<1> QED
  BY <1>1 DEF IInv, TablesOK

\* A record is issued: the current process has none yet.
LEMMA IssueIInv ==
  ASSUME IInv, view \in Kinds, Current.history = <<>>,
         NEW i \in Ids, NEW h \in Histories, h # <<>>, Issue(i, h),
         splits' = splits,
         \/ savers' = savers
         \/ Spawn /\ Len(savers) < MaxSavers /\ view # "reseal",
         UNCHANGED <<rows, shares, view, opened, manager>>
  PROVE  IInv'
<1> DEFINE q == [kind |-> view, id |-> i, history |-> h, split |-> 0]
<1>1. /\ q \in Procs /\ q.kind = view /\ q.history = h /\ q.id = i
  BY BoundsAssumption DEF Procs
<1>2. procs' = [procs EXCEPT ![opened] = q]
  BY DEF Issue, NewRecord
<1> HIDE DEF q
<1>3. papers' \in [Ids -> [Kinds -> Histories \cup {<<>>}]]
  <2>1. papers \in [Ids -> [Kinds -> Histories \cup {<<>>}]]
    BY DEF IInv, TablesOK
  <2>2. [papers[i] EXCEPT ![view] = h] \in [Kinds -> Histories \cup {<<>>}]
    BY <2>1
  <2>3. papers' = [papers EXCEPT ![i] = [papers[i] EXCEPT ![view] = h]]
    BY <2>1 DEF Issue, NewRecord
  <2> QED
    BY <2>1, <2>2, <2>3
<1>4. savers \in Seq(Savers) /\ splits <= Len(savers) /\ splits \in 0..MaxSavers
  BY DEF IInv, TablesOK, SaversOK
<1>5. splits' <= Len(savers')
  <2>1. CASE savers' = savers
    BY <1>4, <2>1
  <2>2. CASE Spawn
    <3>1. Len(savers') = Len(savers) + 1 /\ Len(savers) \in Nat
      BY <2>2, SpawnLen
    <3> QED
      BY <1>4, <3>1
  <2> QED
    BY <2>1, <2>2
<1> QED
  BY <1>1, <1>2, <1>3, <1>4, <1>5, ProcIInv

LEMMA IssueSealIInv ==
  ASSUME IInv, NEW i \in Ids, IssueSeal(i)
  PROVE  IInv'
<1>1. <<"S">> \in Histories /\ <<"S">> # <<>>
  BY BoundsAssumption DEF Histories
<1>2. view \in Kinds
  BY DEF IssueSeal, Kinds
<1> QED
  BY <1>1, <1>2, IssueIInv DEF IssueSeal

LEMMA IssueUnsealIInv ==
  ASSUME IInv, NEW i \in Ids, NEW h \in Given(i), IssueUnseal(i, h)
  PROVE  IInv'
<1> DEFINE g == Append(h, Event[view])
<1>1. view \in Kinds /\ view # "reseal" /\ Current.history = <<>>
      /\ Len(h) < MaxEvents /\ Len(savers) < MaxSavers
  BY DEF IssueUnseal, AppendEvent, Kinds
<1>2. g \in Histories
  BY <1>1, IssueHistory DEF IInv, TablesOK
<1>3. g # <<>>
  BY <1>2 DEF Histories
<1>4. /\ Issue(i, g) /\ Spawn /\ splits' = splits
      /\ UNCHANGED <<rows, shares, view, opened, manager>>
  BY DEF IssueUnseal, AppendEvent
<1> HIDE DEF g
<1> QED
  BY <1>1, <1>2, <1>3, <1>4, IssueIInv

LEMMA IssueResealIInv ==
  ASSUME IInv, NEW i \in Ids, NEW h \in Given(i), IssueReseal(i, h)
  PROVE  IInv'
<1> DEFINE g == Append(h, Event[view])
<1>1. view \in Kinds /\ Current.history = <<>> /\ Len(h) < MaxEvents
  BY DEF IssueReseal, AppendEvent, Kinds
<1>2. g \in Histories
  BY <1>1, IssueHistory DEF IInv, TablesOK
<1>3. g # <<>>
  BY <1>2 DEF Histories
<1>4. /\ Issue(i, g) /\ splits' = splits /\ savers' = savers
      /\ UNCHANGED <<rows, shares, view, opened, manager>>
  BY DEF IssueReseal, AppendEvent
<1> HIDE DEF g
<1> QED
  BY <1>1, <1>2, <1>3, <1>4, IssueIInv

LEMMA SplitKeyIInv ==
  ASSUME IInv, SplitKey
  PROVE  IInv'
<1> DEFINE q == [Current EXCEPT !.split = splits + 1]
<1>1. view \in Kinds /\ view = "reseal" /\ Current.history # <<>> /\ Len(savers) < MaxSavers
  BY DEF SplitKey, Kinds
<1>2. Current \in Procs /\ Current.id \in Ids /\ Current.kind = view
  BY <1>1, CurrentType DEF IInv, ViewOK
<1>3. Len(savers') = Len(savers) + 1 /\ Len(savers) \in Nat
  BY SpawnLen DEF SplitKey
<1>4. splits + 1 \in 0..MaxSavers /\ splits + 1 <= Len(savers') /\ splits + 1 # 0
  BY <1>1, <1>3, BoundsAssumption DEF IInv, TablesOK, SaversOK
<1>5. /\ q \in Procs /\ q.kind = view /\ q.id = Current.id /\ q.history = Current.history
      /\ q.split # 0
  BY <1>2, <1>4 DEF Procs
<1>6. procs' = [procs EXCEPT ![opened] = q]
  BY DEF SplitKey
<1> HIDE DEF q
<1>7. /\ splits' \in 0..MaxSavers /\ splits' <= Len(savers') /\ Spawn
      /\ UNCHANGED <<rows, shares, view, opened, manager>>
  BY <1>4 DEF SplitKey
<1>8. papers' \in [Ids -> [Kinds -> Histories \cup {<<>>}]]
  BY DEF IInv, TablesOK, SplitKey
<1> QED
  BY <1>1, <1>2, <1>5, <1>6, <1>7, <1>8, ProcIInv

LEMMA ShowLastAgainIInv ==
  ASSUME IInv, ShowLastAgain
  PROVE  IInv'
<1>1. /\ view \in Kinds /\ Current.history # <<>> /\ Len(savers) < MaxSavers
      /\ view = "reseal" => Current.split # 0
  BY DEF ShowLastAgain, Kinds
<1>2. Current \in Procs /\ Current.id \in Ids /\ Current.kind = view
  BY <1>1, CurrentType DEF IInv, ViewOK
<1>3. Len(savers') = Len(savers) + 1 /\ Len(savers) \in Nat
  BY SpawnLen DEF ShowLastAgain
<1>4. procs' = [procs EXCEPT ![opened] = Current]
  BY DEF IInv, TablesOK, ShowLastAgain, wizards, Current
<1>5. /\ splits' \in 0..MaxSavers /\ splits' <= Len(savers')
  BY <1>3, BoundsAssumption DEF IInv, TablesOK, SaversOK, ShowLastAgain, wizards
<1>6. Spawn /\ UNCHANGED <<rows, shares, view, opened, manager>>
  BY DEF ShowLastAgain, wizards
<1>7. papers' \in [Ids -> [Kinds -> Histories \cup {<<>>}]]
  BY DEF IInv, TablesOK, ShowLastAgain
<1> QED
  BY <1>1, <1>2, <1>4, <1>5, <1>6, <1>7, ProcIInv

LEMMA WizardIInv ==
  ASSUME IInv, Wizard
  PROVE  IInv'
<1>1. CASE \E i \in Ids : \/ IssueSeal(i)
                          \/ \E h \in Given(i) : IssueUnseal(i, h) \/ IssueReseal(i, h)
  BY <1>1, IssueSealIInv, IssueUnsealIInv, IssueResealIInv
<1>2. CASE SplitKey \/ ShowLastAgain \/ Cancel
  BY <1>2, SplitKeyIInv, ShowLastAgainIInv, ControlIInv
<1> QED
  BY <1>1, <1>2 DEF Wizard

-----------------------------------------------------------------------------
(* The other steps of the save threads, and the end of the program. *)

\* Threads change as long as they stay what SaversOK says.
LEMMA ThreadIInv ==
  ASSUME IInv, UNCHANGED <<rows, shares, papers, wizards, manager>>,
         savers' \in Seq(Savers), Len(savers') = Len(savers), SaversOK', ViewOK'
  PROVE  IInv'
<1>1. TablesOK'
  BY DEF IInv, TablesOK, ViewOK, wizards, manager
<1>2. ProcsOK'
  BY DEF IInv, ProcsOK, wizards
<1>3. Kept
  BY DEF IInv, TablesOK, Kept, wizards
<1> QED
  BY <1>1, <1>2, <1>3, KeptIInv

LEMMA SaverIInv ==
  ASSUME IInv, NEW n \in DOMAIN savers, Saver(n)
  PROVE  IInv'
<1>1. CASE SaverWrites(n)
  BY <1>1, SaverWritesIInv
<1>2. ASSUME NEW t \in Savers, SaverOK(t), savers' = [savers EXCEPT ![n] = t],
             UNCHANGED <<rows, shares, papers, view, wizards, manager>>
      PROVE  IInv'
  <2>1. savers' \in Seq(Savers) /\ Len(savers') = Len(savers) /\ SaversOK'
    BY <1>2, SaverChange
  <2>2. ViewOK'
    BY <1>2 DEF IInv, ViewOK, wizards, Current
  <2> QED
    BY <1>2, <2>1, <2>2, ThreadIInv
<1>3. /\ savers[n] \in Savers /\ SaverOK(savers[n])
      /\ savers[n].proc \in 1..opened /\ opened \in 1..MaxSessions
  BY SaverType
<1>4. CASE SaverReads(n)
  <2> DEFINE p == procs[savers[n].proc]
             t == [proc |-> savers[n].proc, stage |-> "writes", split |-> p.split]
  <2>1. p \in Procs
    BY <1>3, ProcType
  <2>2. t \in Savers /\ SaverOK(t)
    BY <1>3, <2>1 DEF Savers, Procs, SaverOK
  <2>3. savers' = [savers EXCEPT ![n] = t]
        /\ UNCHANGED <<rows, shares, papers, view, wizards, manager>>
    BY <1>4 DEF SaverReads
  <2> HIDE DEF t
  <2> QED
    BY <1>2, <2>2, <2>3
<1>5. CASE SaverFails(n)
  <2> DEFINE t == [savers[n] EXCEPT !.stage = "ended"]
  <2>1. t \in Savers /\ SaverOK(t)
    BY <1>3 DEF Savers, SaverOK
  <2>2. savers' = [savers EXCEPT ![n] = t]
        /\ UNCHANGED <<rows, shares, papers, view, wizards, manager>>
    BY <1>5 DEF SaverFails
  <2> HIDE DEF t
  <2> QED
    BY <1>2, <2>1, <2>2
<1> QED
  BY <1>1, <1>4, <1>5 DEF Saver

LEMMA RestartIInv ==
  ASSUME IInv, Restart
  PROVE  IInv'
<1>1. savers \in Seq(Savers) /\ Len(savers) \in Nat /\ DOMAIN savers = 1..Len(savers)
  BY DEF IInv, TablesOK
<1>2. ASSUME NEW n \in 1..Len(savers)
      PROVE  /\ [savers[n] EXCEPT !.stage = "ended"] \in Savers
             /\ SaverOK([savers[n] EXCEPT !.stage = "ended"])
  BY <1>1, SaverType DEF Savers, SaverOK
<1>3. savers' = [n \in 1..Len(savers) |-> [savers[n] EXCEPT !.stage = "ended"]]
  BY <1>1 DEF Restart
<1>4. savers' \in [1..Len(savers) -> Savers]
  BY <1>2, <1>3
<1>5. savers' \in Seq(Savers) /\ Len(savers') = Len(savers)
  BY <1>1, <1>4, SeqDef, LenProperties
<1>6. \A n \in 1..Len(savers) : SaverOK(savers'[n])
  BY <1>2, <1>3
<1>7. \A n \in 1..Len(savers') : SaverOK(savers'[n]) <=> SaverOK(savers[n])'
  BY DEF SaverOK, Restart, wizards
<1>8. SaversOK'
  BY <1>5, <1>6, <1>7 DEF IInv, SaversOK, Restart, wizards
<1>9. ViewOK'
  BY DEF Restart, ViewOK, Views, Kinds, Stages
<1> QED
  BY <1>5, <1>8, <1>9, ThreadIInv DEF Restart

-----------------------------------------------------------------------------

LEMMA NextIInv ==
  ASSUME IInv, [Next]_vars
  PROVE  IInv'
<1>1. CASE Manage
  <2>1. CASE EnterCases \/ LeaveCases \/ Refresh \/ CloseWarning
    BY <2>1, ControlIInv
  <2>2. CASE \E i \in Ids : NewCase(i) \/ DeleteCase(i)
    BY <2>2, NewCaseIInv, DeleteCaseIInv
  <2>3. CASE \E kind \in Kinds : Start(kind) \/ \E i \in Ids : StartFromCase(kind, i)
    BY <2>3, StartIInv
  <2> QED
    BY <1>1, <2>1, <2>2, <2>3 DEF Manage
<1>2. CASE LoadReads \/ ApplyCases
  BY <1>2, ControlIInv
<1>3. CASE Wizard
  BY <1>3, WizardIInv
<1>4. CASE Handle
  BY <1>4, ControlIInv, InsertRowIInv, UpdateRowIInv DEF Handle
<1>5. CASE Restart
  BY <1>5, RestartIInv
<1>6. CASE \E n \in DOMAIN savers : Saver(n)
  BY <1>6, SaverIInv
<1>7. CASE UNCHANGED vars
  <2>1. UNCHANGED <<rows, shares, papers, view, savers, wizards, manager>>
    BY <1>7 DEF vars
  <2>2. ManagerOK' /\ ViewOK'
    BY <2>1 DEF IInv, TablesOK, ManagerOK, ViewOK, manager, wizards, Current
  <2> QED
    BY <2>1, <2>2, ViewIInv
<1> QED
  BY <1>1, <1>2, <1>3, <1>4, <1>5, <1>6, <1>7 DEF Next

LEMMA Invariance == Spec => []IInv
BY InitIInv, NextIInv, PTL DEF Spec

-----------------------------------------------------------------------------

\* Whatever threads are late, fail or are cut off: a stored record with an
\* unlock time has its key shares beside it (save_seal_bundle).
THEOREM BundleTogetherCorrect == Spec => []BundleTogether
<1>1. IInv => BundleTogether
  BY DEF IInv, Stored
<1> QED
  BY <1>1, Invariance, PTL

\* A stored record was issued by a wizard under the id it is stored by, and
\* stored key shares come from a split of a reseal of the same case.
THEOREM NothingCrossesCorrect == Spec => []NothingCrosses
<1>1. IInv => NothingCrosses
  BY DEF IInv, Stored, RecordIsOfCase, Issued, Resealed, NothingCrosses
<1> QED
  BY <1>1, Invariance, PTL

-----------------------------------------------------------------------------
(***************************************************************************)
(* Who writes last.  Where the row does not lag behind, every thread of    *)
(* the id that still runs is one of its newest process; where the shares   *)
(* do not, every such thread of a reseal is of the last one and has not    *)
(* taken an earlier split.                                                 *)
(***************************************************************************)

Newest(i, s) == \A r \in Issuers(i) : r <= s
LastSplit(i, s) == \A r \in Reseals(i) : r <= s
RowIsOf(r, p) == r # None /\ r.history = p.history /\ r.unlock = (p.kind = "reseal")

\* Thread n is to store shares under i.
Stores(n, i) == Runs(n, i) /\ procs[savers[n].proc].kind = "reseal"

RowFollows(i) ==
    /\ \A n \in DOMAIN savers : Runs(n, i) => Newest(i, savers[n].proc)
    /\ \A s \in Issuers(i) : Idle(i) /\ Newest(i, s) => RowIsOf(rows[i], procs[s])

SharesFollow(i) ==
    /\ \A n \in DOMAIN savers : Stores(n, i) =>
          /\ LastSplit(i, savers[n].proc)
          /\ savers[n].stage = "writes" => savers[n].split = procs[savers[n].proc].split
    /\ \A s \in Reseals(i) :
          (\A n \in DOMAIN savers : ~Stores(n, i)) /\ LastSplit(i, s) =>
             shares[i] = procs[s].split

\* A split is made of a record that was issued.
SplitsOK == \A s \in 1..opened :
    procs[s].split # 0 => procs[s].kind = "reseal" /\ procs[s].history # <<>>

LeadOK ==
    /\ LagsOK /\ SplitsOK
    /\ \A i \in Ids \ rowLags : RowFollows(i)
    /\ \A i \in Ids \ sharesLag : SharesFollow(i)
    /\ view = "insert" => Current.id \in rowLags

\* What a step leaves alone.  The threads that run and their processes are the
\* same, as far as i is concerned.
SameThreads(i) ==
    /\ \A n \in DOMAIN savers' : Runs(n, i)' =>
          n \in DOMAIN savers /\ Runs(n, i) /\ savers'[n].proc = savers[n].proc
    /\ \A n \in DOMAIN savers : Runs(n, i) => n \in DOMAIN savers' /\ Runs(n, i)'

LEMMA SameRow ==
  ASSUME NEW i \in Ids, RowFollows(i), rows'[i] = rows[i], SameThreads(i),
         Issuers(i)' = Issuers(i),
         \A s \in Issuers(i) : procs'[s].history = procs[s].history /\ procs'[s].kind = procs[s].kind
  PROVE  RowFollows(i)'
<1>1. \A s : Newest(i, s)' <=> Newest(i, s)
  BY DEF Newest
<1>2. ASSUME NEW n \in DOMAIN savers', Runs(n, i)' PROVE Newest(i, savers[n].proc)'
  BY <1>2 DEF SameThreads, RowFollows, Newest
<1>3. Idle(i)' => Idle(i)
  BY DEF Idle, SameThreads
<1>4. ASSUME NEW s \in Issuers(i)', Idle(i)', Newest(i, s)' PROVE RowIsOf(rows[i], procs[s])'
  <2>1. RowIsOf(rows[i], procs[s]) /\ s \in Issuers(i)
    BY <1>1, <1>3, <1>4 DEF RowFollows
  <2> QED
    BY <2>1 DEF RowIsOf
<1> QED
  BY <1>2, <1>4 DEF RowFollows

LEMMA SameShares ==
  ASSUME NEW i \in Ids, SharesFollow(i), shares'[i] = shares[i],
         \A n \in DOMAIN savers' : Stores(n, i)' =>
            /\ n \in DOMAIN savers /\ Stores(n, i) /\ savers'[n].proc = savers[n].proc
            /\ savers'[n].stage = "writes" =>
                  \/ savers[n].stage = "writes" /\ savers'[n].split = savers[n].split
                  \/ savers'[n].split = procs'[savers[n].proc].split
            /\ procs'[savers[n].proc].split = procs[savers[n].proc].split,
         \A n \in DOMAIN savers : Stores(n, i) => n \in DOMAIN savers' /\ Stores(n, i)',
         Reseals(i)' = Reseals(i),
         \A s \in Reseals(i) : procs'[s].split = procs[s].split
  PROVE  SharesFollow(i)'
<1>1. \A s : LastSplit(i, s)' <=> LastSplit(i, s)
  BY DEF LastSplit
<1>2. ASSUME NEW n \in DOMAIN savers', Stores(n, i)'
      PROVE  /\ LastSplit(i, savers[n].proc)'
             /\ savers'[n].stage = "writes" => savers'[n].split = procs'[savers'[n].proc].split
  BY <1>2 DEF SharesFollow, LastSplit
<1>3. ASSUME NEW s \in Reseals(i)', \A n \in DOMAIN savers' : ~Stores(n, i)', LastSplit(i, s)'
      PROVE  shares'[i] = procs'[s].split
  BY <1>1, <1>3 DEF SharesFollow
<1> QED
  BY <1>2, <1>3 DEF SharesFollow

\* Steps that touch neither the threads nor the processes, and only rows that lag
\* behind afterwards or follow.
LEMMA SameLead ==
  ASSUME IInv, LeadOK, UNCHANGED <<shares, savers, opened, procs, sharesLag>>,
         \A i \in Ids \ rowLags' : (i \notin rowLags /\ rows'[i] = rows[i]) \/ RowFollows(i)',
         LagsOK', view' = "insert" => Current.id \in rowLags'
  PROVE  LeadOK'
<1>1. SplitsOK'
  BY DEF LeadOK, SplitsOK
<1>2. \A i \in Ids : Issuers(i)' = Issuers(i) /\ Reseals(i)' = Reseals(i) /\ SameThreads(i)
  BY DEF Issuers, Reseals, SameThreads, Runs
<1>3. ASSUME NEW i \in Ids \ rowLags' PROVE RowFollows(i)'
  <2>1. i \notin rowLags => RowFollows(i)
    BY DEF LeadOK
  <2> QED
    BY <2>1, <1>2, SameRow
<1>4. ASSUME NEW i \in Ids \ sharesLag' PROVE SharesFollow(i)'
  <2>1. SharesFollow(i)
    BY DEF LeadOK
  <2>2. \A n \in DOMAIN savers : Stores(n, i)' <=> Stores(n, i)
    BY DEF Stores, Runs
  <2> QED
    BY <2>1, <2>2, <1>2, SameShares
<1> QED
  BY <1>1, <1>3, <1>4 DEF LeadOK, Current

\* The steps of the case manager, of a load and of the handlers' control.
LEMMA ControlLead ==
  ASSUME IInv, LeadOK,
         \/ EnterCases \/ LeaveCases \/ LoadReads \/ ApplyCases \/ Refresh
         \/ CloseWarning \/ Cancel \/ Complete \/ CheckRow \/ MetaRaises \/ HandlerFails
  PROVE  LeadOK'
<1>1. UNCHANGED <<rows, shares, savers, opened, procs, sharesLag>>
  BY DEF EnterCases, LeaveCases, LoadReads, ApplyCases, Refresh, CloseWarning, Cancel,
     Complete, CheckRow, MetaRaises, HandlerFails, wizards, lags
<1>2. /\ rowLags \subseteq rowLags'
      /\ LagsOK'
      /\ view' = "insert" => Current.id \in rowLags'
  <2>1. CASE CheckRow
    <3>1. Current.id \in Ids
      BY <2>1, CurrentType DEF CheckRow, IInv, ViewOK, Stages
    <3> QED
      BY <2>1, <3>1 DEF CheckRow, LeadOK, LagsOK
  <2>2. CASE MetaRaises
    <3>1. Current.kind \in Kinds /\ rowLags' = rowLags /\ sharesLag' = sharesLag
          /\ view' = Current.kind
      BY <2>2, CurrentType DEF MetaRaises, Stages, Procs, lags
    <3> QED
      BY <3>1 DEF Kinds, LeadOK, LagsOK
  <2>3. CASE ~CheckRow /\ ~MetaRaises
    <3>1. rowLags' = rowLags /\ sharesLag' = sharesLag
      BY <2>3 DEF EnterCases, LeaveCases, LoadReads, ApplyCases, Refresh, CloseWarning, Cancel,
         Complete, HandlerFails, lags
    <3>2. view' = "insert" => view = "insert"
      BY <2>3 DEF EnterCases, LeaveCases, LoadReads, ApplyCases, Refresh, CloseWarning, Cancel,
         Complete, HandlerFails
    <3> QED
      BY <3>1, <3>2 DEF LeadOK, LagsOK
  <2> QED
    BY <2>1, <2>2, <2>3
<1> QED
  BY <1>1, <1>2, SameLead

LEMMA CaseLead ==
  ASSUME IInv, LeadOK, NEW i \in Ids, NewCase(i) \/ DeleteCase(i)
  PROVE  LeadOK'
<1>1. UNCHANGED <<shares, savers, opened, procs, sharesLag>> /\ view' = "cases"
  BY DEF NewCase, DeleteCase, wizards, lags
<1>2. \A j \in Ids : j # i => rows'[j] = rows[j]
  BY DEF IInv, TablesOK, NewCase, DeleteCase, DeleteRow
<1>3. rowLags \subseteq rowLags' /\ LagsOK'
  BY DEF NewCase, DeleteCase, lags, LeadOK, LagsOK
<1>4. i \in rowLags' \/ RowFollows(i)'
  <2>1. CASE DeleteCase(i)
    BY <2>1 DEF DeleteCase
  <2>2. CASE NewCase(i)
    <3>1. \A s \in 1..opened : procs[s].id # i
      BY <2>2 DEF NewCase, Used
    <3>2. Issuers(i)' = {}
      BY <1>1, <3>1 DEF Issuers
    <3>3. \A n \in DOMAIN savers : ~Runs(n, i)'
      BY <1>1, <3>1, SaverType DEF Runs
    <3> QED
      BY <1>1, <3>2, <3>3 DEF RowFollows
  <2> QED
    BY <2>1, <2>2
<1>5. \A j \in Ids \ rowLags' : (j \notin rowLags /\ rows'[j] = rows[j]) \/ RowFollows(j)'
  <2> SUFFICES ASSUME NEW j \in Ids \ rowLags'
               PROVE  (j \notin rowLags /\ rows'[j] = rows[j]) \/ RowFollows(j)'
    OBVIOUS
  <2> QED
    BY <1>2, <1>3, <1>4
<1> QED
  BY <1>1, <1>3, <1>5, SameLead

LEMMA InsertLead ==
  ASSUME IInv, LeadOK, InsertRow
  PROVE  LeadOK'
<1>1. /\ UNCHANGED <<shares, savers, opened, procs, rowLags, sharesLag>> /\ view' = "update"
      /\ Current.id \in rowLags
  BY DEF InsertRow, wizards, lags, LeadOK
<1>2. \A i \in Ids \ rowLags' : i \notin rowLags /\ rows'[i] = rows[i]
  BY <1>1 DEF InsertRow, IInv, TablesOK
<1>3. LagsOK'
  BY <1>1 DEF LeadOK, LagsOK
<1> QED
  BY <1>1, <1>2, <1>3, SameLead

LEMMA UpdateLead ==
  ASSUME IInv, LeadOK, UpdateRow
  PROVE  LeadOK'
<1>0. PICK i \in Ids : i = Current.id
  BY CurrentType DEF IInv, ViewOK, UpdateRow, Stages
<1> DEFINE r == [status |-> Summary(Current.history), history |-> Current.history,
                 unlock |-> FALSE]
<1>1. /\ opened \in 1..MaxSessions /\ Current.history # <<>>
      /\ Current.kind = "seal"
  BY CurrentType DEF IInv, ViewOK, UpdateRow, Stages
<1>2. UNCHANGED <<shares, savers, opened, procs, sharesLag>> /\ view' = "home"
  BY DEF UpdateRow, wizards
<1>3. CASE rows[i] = None
  <2>1. rows' = rows /\ rowLags' = rowLags
    BY <1>0, <1>3 DEF UpdateRow
  <2>2. LagsOK'
    BY <1>2, <2>1 DEF LeadOK, LagsOK
  <2> QED
    BY <1>2, <2>1, <2>2, SameLead
<1>4. CASE rows[i] # None
  <2>1. /\ rows' = [rows EXCEPT ![i] = r]
        /\ rowLags' = IF Overtaken(i) THEN rowLags ELSE rowLags \ {i}
    BY <1>0, <1>4 DEF UpdateRow
  <2>2. r # None /\ r.history = Current.history /\ r.unlock = FALSE
    <3>1. r \in Rows
      BY <1>1, CurrentType, SummaryType DEF Rows, UpdateRow, Stages
    <3> QED
      BY <3>1, NoneAssumption
  <2> HIDE DEF r
  <2>3. rows'[i] = r /\ \A j \in Ids : j # i => rows'[j] = rows[j]
    BY <1>1, <2>1 DEF IInv, TablesOK
  <2>4. LagsOK'
    BY <1>2, <2>1 DEF LeadOK, LagsOK
  <2>5. ASSUME i \notin rowLags' PROVE RowFollows(i)'
    <3>1. opened \in Issuers(i) /\ Newest(i, opened)
      BY <1>0, <1>1, BoundsAssumption DEF Issuers, Newest, Current
    <3>2. \A s \in Issuers(i) : Newest(i, s) => s = opened
      BY <1>1, <3>1, BoundsAssumption DEF Issuers, Newest
    <3>3. RowIsOf(r, procs[opened])
      BY <1>1, <2>2 DEF RowIsOf, Current
    <3>4. \A n \in DOMAIN savers : Runs(n, i) => Newest(i, savers[n].proc)
      <4>1. CASE Overtaken(i)
        <5>1. RowFollows(i)
          BY <1>1, <2>1, <2>5, <4>1 DEF LeadOK
        <5> QED
          BY <5>1 DEF RowFollows
      <4>2. CASE ~Overtaken(i)
        BY <3>1, <4>2 DEF Overtaken
      <4> QED
        BY <4>1, <4>2
    <3>5. Issuers(i)' = Issuers(i) /\ \A n \in DOMAIN savers : Runs(n, i)' <=> Runs(n, i)
      BY <1>2 DEF Issuers, Runs
    <3>6. ASSUME NEW n \in DOMAIN savers', Runs(n, i)' PROVE Newest(i, savers[n].proc)'
      BY <1>2, <3>4, <3>5, <3>6 DEF Newest
    <3>7. ASSUME NEW s \in Issuers(i)', Newest(i, s)' PROVE RowIsOf(rows[i], procs[s])'
      <4>1. s = opened
        BY <3>2, <3>5, <3>7 DEF Newest
      <4> QED
        BY <4>1, <1>2, <2>3, <3>3 DEF RowIsOf
    <3> QED
      BY <3>6, <3>7 DEF RowFollows
  <2>6. \A j \in Ids \ rowLags' : (j \notin rowLags /\ rows'[j] = rows[j]) \/ RowFollows(j)'
    <3> SUFFICES ASSUME NEW j \in Ids \ rowLags'
                 PROVE  (j \notin rowLags /\ rows'[j] = rows[j]) \/ RowFollows(j)'
      OBVIOUS
    <3>1. CASE j = i
      BY <3>1, <2>5
    <3>2. CASE j # i
      BY <3>2, <2>1, <2>3
    <3> QED
      BY <3>1, <3>2
  <2> QED
    BY <1>2, <2>4, <2>6, SameLead
<1> QED
  BY <1>3, <1>4

\* A step of thread n.
LEMMA ThreadStep ==
  ASSUME IInv, NEW n \in DOMAIN savers, NEW t, savers' = [savers EXCEPT ![n] = t]
  PROVE  /\ DOMAIN savers' = DOMAIN savers /\ savers'[n] = t
         /\ \A m \in DOMAIN savers : m # n => savers'[m] = savers[m]
BY DEF IInv, TablesOK

LEMMA SaverReadsLead ==
  ASSUME IInv, LeadOK, NEW n \in DOMAIN savers, SaverReads(n)
  PROVE  LeadOK'
<1> DEFINE t == [proc |-> savers[n].proc, stage |-> "writes",
                 split |-> procs[savers[n].proc].split]
<1>1. /\ UNCHANGED <<rows, shares, opened, procs, rowLags, sharesLag, view>>
      /\ savers[n].stage = "reads" /\ savers' = [savers EXCEPT ![n] = t]
  BY DEF SaverReads, wizards, lags
<1>2. t.proc = savers[n].proc /\ t.stage = "writes" /\ t.split = procs[savers[n].proc].split
  OBVIOUS
<1> HIDE DEF t
<1>3. /\ DOMAIN savers' = DOMAIN savers /\ savers'[n] = t
      /\ \A m \in DOMAIN savers : m # n => savers'[m] = savers[m]
  BY <1>1, ThreadStep
<1>4. \A i \in Ids, m \in DOMAIN savers : Runs(m, i)' <=> Runs(m, i)
  BY <1>1, <1>2, <1>3 DEF Runs
<1>5. \A m \in DOMAIN savers : savers'[m].proc = savers[m].proc
  BY <1>2, <1>3
<1>6. \A i \in Ids : Issuers(i)' = Issuers(i) /\ Reseals(i)' = Reseals(i)
  BY <1>1 DEF Issuers, Reseals
<1>7. ASSUME NEW i \in Ids \ rowLags' PROVE RowFollows(i)'
  <2>1. RowFollows(i)
    BY <1>1 DEF LeadOK
  <2>2. SameThreads(i)
    BY <1>3, <1>4, <1>5 DEF SameThreads
  <2> QED
    BY <2>1, <2>2, <1>1, <1>6, SameRow
<1>8. ASSUME NEW i \in Ids \ sharesLag' PROVE SharesFollow(i)'
  <2>1. SharesFollow(i)
    BY <1>1 DEF LeadOK
  <2>2. \A m \in DOMAIN savers : Stores(m, i)' <=> Stores(m, i)
    BY <1>1, <1>4, <1>5 DEF Stores
  <2>3. ASSUME NEW m \in DOMAIN savers'
        PROVE  savers'[m].stage = "writes" =>
                  \/ savers[m].stage = "writes" /\ savers'[m].split = savers[m].split
                  \/ savers'[m].split = procs'[savers[m].proc].split
    BY <1>1, <1>2, <1>3
  <2> QED
    BY <2>1, <2>2, <2>3, <1>1, <1>3, <1>5, <1>6, SameShares
<1>9. SplitsOK' /\ LagsOK' /\ (view' = "insert" => Current'.id \in rowLags')
  BY <1>1 DEF LeadOK, SplitsOK, LagsOK, Current
<1> QED
  BY <1>7, <1>8, <1>9 DEF LeadOK, Current

\* The threads of N end without having saved.
LEMMA StopLead ==
  ASSUME IInv, LeadOK, NEW N \in SUBSET DOMAIN savers,
         UNCHANGED <<rows, shares, opened, procs>>,
         DOMAIN savers' = DOMAIN savers,
         \A n \in N : savers'[n].stage = "ended",
         \A n \in DOMAIN savers \ N : savers'[n] = savers[n],
         rowLags \cup Unfinished(N, Kinds) \subseteq rowLags',
         sharesLag \cup Unfinished(N, {"reseal"}) \subseteq sharesLag',
         LagsOK', view' = "insert" => view = "insert"
  PROVE  LeadOK'
<1>1. \A i \in Ids : Issuers(i)' = Issuers(i) /\ Reseals(i)' = Reseals(i)
  BY DEF Issuers, Reseals
<1>2. ASSUME NEW i \in Ids \ rowLags' PROVE RowFollows(i)'
  <2>1. RowFollows(i)
    BY DEF LeadOK
  <2>2. ASSUME NEW n \in N PROVE ~Runs(n, i)
    <3>1. procs[savers[n].proc].kind \in Kinds
      BY SaverType, ProcType DEF Procs
    <3> QED
      BY <3>1 DEF Unfinished, Runs
  <2>3. SameThreads(i)
    BY <2>2 DEF SameThreads, Runs
  <2> QED
    BY <2>1, <2>3, <1>1, SameRow
<1>3. ASSUME NEW i \in Ids \ sharesLag' PROVE SharesFollow(i)'
  <2>1. SharesFollow(i)
    BY DEF LeadOK
  <2>2. \A n \in N : ~Stores(n, i) /\ ~Stores(n, i)'
    BY DEF Unfinished, Stores, Runs
  <2>3. \A n \in DOMAIN savers : Stores(n, i)' <=> Stores(n, i)
    BY <2>2 DEF Stores, Runs
  <2>4. \A n \in DOMAIN savers : Stores(n, i) => savers'[n] = savers[n]
    BY <2>2
  <2> QED
    BY <2>1, <2>3, <2>4, <1>1, SameShares
<1>4. SplitsOK' /\ (view' = "insert" => Current'.id \in rowLags')
  BY DEF LeadOK, SplitsOK, Current
<1> QED
  BY <1>2, <1>3, <1>4 DEF LeadOK, Current

LEMMA UnfinishedType ==
  ASSUME IInv, NEW N \in SUBSET DOMAIN savers, NEW K
  PROVE  Unfinished(N, K) \subseteq Ids
<1>1. \A n \in DOMAIN savers : procs[savers[n].proc].id \in Ids
  BY SaverType DEF SaverOK, IInv, ProcsOK
<1> QED
  BY <1>1 DEF Unfinished

LEMMA SaverFailsLead ==
  ASSUME IInv, LeadOK, NEW n \in DOMAIN savers, SaverFails(n)
  PROVE  LeadOK'
<1> DEFINE t == [savers[n] EXCEPT !.stage = "ended"]
<1>1. /\ UNCHANGED <<rows, shares, opened, procs, view>>
      /\ savers' = [savers EXCEPT ![n] = t]
  BY DEF SaverFails, wizards
<1>2. t.stage = "ended"
  BY SaverType DEF Savers
<1> HIDE DEF t
<1>3. /\ DOMAIN savers' = DOMAIN savers /\ savers'[n] = t
      /\ \A m \in DOMAIN savers : m # n => savers'[m] = savers[m]
  BY <1>1, ThreadStep
<1>4. /\ rowLags' = rowLags \cup Unfinished({n}, Kinds)
      /\ sharesLag' = sharesLag \cup Unfinished({n}, {"reseal"})
  BY DEF SaverFails
<1>5. LagsOK'
  BY <1>4, UnfinishedType DEF LeadOK, LagsOK
<1> QED
  BY <1>1, <1>2, <1>3, <1>4, <1>5, StopLead

LEMMA RestartLead ==
  ASSUME IInv, LeadOK, Restart
  PROVE  LeadOK'
<1>1. /\ UNCHANGED <<rows, shares, opened, procs>> /\ view' = "home"
      /\ savers' = [n \in DOMAIN savers |-> [savers[n] EXCEPT !.stage = "ended"]]
  BY DEF Restart, wizards
<1>2. DOMAIN savers' = DOMAIN savers /\ \A n \in DOMAIN savers : savers'[n].stage = "ended"
  BY <1>1, SaverType DEF Savers
<1>3. /\ rowLags' = rowLags \cup Unfinished(DOMAIN savers, Kinds)
                   \cup (IF view \in Stages THEN {Current.id} ELSE {})
      /\ sharesLag' = sharesLag \cup Unfinished(DOMAIN savers, {"reseal"})
  BY DEF Restart
<1>4. view \in Stages => Current.id \in Ids
  BY CurrentType DEF IInv, ViewOK
<1>5. LagsOK'
  BY <1>3, <1>4, UnfinishedType DEF LeadOK, LagsOK
<1> QED
  BY <1>1, <1>2, <1>3, <1>5, StopLead

\* What thread n writes is of the newest process where the table follows.
LEMMA SaverWritesLead ==
  ASSUME IInv, LeadOK, NEW n \in DOMAIN savers, SaverWrites(n)
  PROVE  LeadOK'
<1> DEFINE s == savers[n].proc
           p == procs[s]
           u == p.kind = "reseal"
           t == [savers[n] EXCEPT !.stage = "ended"]
           r == Saved(p.history, u)
<1>0. PICK i \in Ids : i = p.id
  BY SaverType DEF SaverOK, IInv, ProcsOK
<1>1. /\ UNCHANGED <<opened, procs, view, rowLags, sharesLag>>
      /\ savers' = [savers EXCEPT ![n] = t] /\ savers[n].stage = "writes"
      /\ rows' = [rows EXCEPT ![i] = r]
      /\ shares' = IF u THEN [shares EXCEPT ![i] = savers[n].split] ELSE shares
  BY <1>0 DEF SaverWrites, wizards, lags
<1>2. t.stage = "ended"
  BY SaverType DEF Savers
<1>3. s \in 1..opened /\ opened \in Nat /\ p.history # <<>> /\ p \in Procs
  BY SaverType, ProcType, BoundsAssumption DEF SaverOK
<1>4. RowIsOf(r, p)
  <2>1. r \in Rows /\ r.history = p.history /\ r.unlock = u
    BY <1>3, SavedType DEF Procs
  <2> QED
    BY <2>1, NoneAssumption DEF RowIsOf
<1> HIDE DEF t, r
<1>5. /\ DOMAIN savers' = DOMAIN savers /\ savers'[n] = t
      /\ \A m \in DOMAIN savers : m # n => savers'[m] = savers[m]
  BY <1>1, ThreadStep
<1>6. /\ rows'[i] = r /\ \A j \in Ids : j # i => rows'[j] = rows[j]
      /\ u => shares'[i] = savers[n].split
      /\ \A j \in Ids : j # i \/ ~u => shares'[j] = shares[j]
  BY <1>1 DEF IInv, TablesOK
<1>7. \A j \in Ids : Issuers(j)' = Issuers(j) /\ Reseals(j)' = Reseals(j)
  BY <1>1 DEF Issuers, Reseals
<1>8. Runs(n, i) /\ ~Runs(n, i)' /\ (\A j \in Ids : j # i => ~Runs(n, j) /\ ~Runs(n, j)')
  BY <1>0, <1>1, <1>2, <1>5 DEF Runs
<1>9. \A j \in Ids, m \in DOMAIN savers : m # n => (Runs(m, j)' <=> Runs(m, j))
  BY <1>1, <1>5 DEF Runs
<1>10. ASSUME NEW j \in Ids \ rowLags' PROVE RowFollows(j)'
  <2>1. RowFollows(j)
    BY <1>1 DEF LeadOK
  <2>2. CASE j # i
    <3>1. SameThreads(j)
      BY <2>2, <1>5, <1>8, <1>9 DEF SameThreads
    <3> QED
      BY <2>1, <2>2, <3>1, <1>1, <1>6, <1>7, SameRow
  <2>3. CASE j = i
    <3>1. Newest(i, s) /\ s \in Issuers(i)
      BY <2>1, <2>3, <1>0, <1>3, <1>8 DEF RowFollows, Issuers
    <3>2. \A x \in Issuers(i) : Newest(i, x) => x = s
      BY <3>1, <1>3 DEF Newest, Issuers
    <3>3. ASSUME NEW m \in DOMAIN savers', Runs(m, i)' PROVE Newest(i, savers[m].proc)'
      <4>1. m \in DOMAIN savers /\ Runs(m, i) /\ savers'[m] = savers[m]
        BY <3>3, <1>5, <1>8, <1>9
      <4>2. Newest(i, savers[m].proc)
        BY <4>1, <2>1, <2>3 DEF RowFollows
      <4> QED
        BY <4>1, <4>2, <1>7 DEF Newest
    <3>4. ASSUME NEW x \in Issuers(i)', Newest(i, x)' PROVE RowIsOf(rows[i], procs[x])'
      <4>1. x = s
        BY <3>2, <3>4, <1>7 DEF Newest
      <4> QED
        BY <4>1, <1>1, <1>4, <1>6 DEF RowIsOf
    <3> QED
      BY <2>3, <3>3, <3>4 DEF RowFollows
  <2> QED
    BY <2>2, <2>3
<1>11. \A j \in Ids, m \in DOMAIN savers : m # n => (Stores(m, j)' <=> Stores(m, j))
  BY <1>1, <1>5, <1>9 DEF Stores
<1>12. ASSUME NEW j \in Ids \ sharesLag' PROVE SharesFollow(j)'
  <2>1. SharesFollow(j)
    BY <1>1 DEF LeadOK
  <2>2. CASE j # i \/ ~u
    <3>1. ~Stores(n, j) /\ ~Stores(n, j)'
      BY <2>2, <1>1, <1>2, <1>5, <1>8 DEF Stores, Runs
    <3>2. \A m \in DOMAIN savers : (Stores(m, j)' <=> Stores(m, j))
                                   /\ (Stores(m, j) => savers'[m] = savers[m])
      BY <3>1, <1>5, <1>11
    <3> QED
      BY <2>1, <2>2, <3>2, <1>1, <1>5, <1>6, <1>7, SameShares
  <2>3. CASE j = i /\ u
    <3>1. Stores(n, i)
      BY <2>3, <1>8 DEF Stores
    <3>2. LastSplit(i, s) /\ savers[n].split = p.split
      BY <2>1, <2>3, <3>1, <1>1 DEF SharesFollow
    <3>3. s \in Reseals(i)
      BY <2>3, <1>0, <1>3, SaverType DEF Reseals, SaverOK
    <3>4. \A x \in Reseals(i) : LastSplit(i, x) => x = s
      BY <3>2, <3>3, <1>3 DEF LastSplit, Reseals
    <3>5. ASSUME NEW m \in DOMAIN savers', Stores(m, i)'
          PROVE  /\ LastSplit(i, savers[m].proc)'
                 /\ savers'[m].stage = "writes" => savers'[m].split = procs'[savers'[m].proc].split
      <4>1. m # n
        BY <3>5, <1>8 DEF Stores
      <4>2. m \in DOMAIN savers /\ Stores(m, i) /\ savers'[m] = savers[m]
        BY <3>5, <4>1, <1>5, <1>11
      <4>3. /\ LastSplit(i, savers[m].proc)
            /\ savers[m].stage = "writes" => savers[m].split = procs[savers[m].proc].split
        BY <4>2, <2>1, <2>3 DEF SharesFollow
      <4> QED
        BY <4>2, <4>3, <1>1, <1>7 DEF LastSplit
    <3>6. ASSUME NEW x \in Reseals(i)', LastSplit(i, x)' PROVE shares'[i] = procs'[x].split
      <4>1. x = s
        BY <3>4, <3>6, <1>7 DEF LastSplit
      <4> QED
        BY <4>1, <2>3, <3>2, <1>1, <1>6
    <3> QED
      BY <2>3, <3>5, <3>6 DEF SharesFollow
  <2> QED
    BY <2>2, <2>3
<1>13. SplitsOK' /\ LagsOK' /\ (view' = "insert" => Current'.id \in rowLags')
  BY <1>1 DEF LeadOK, SplitsOK, LagsOK, Current
<1> QED
  BY <1>10, <1>12, <1>13 DEF LeadOK, Current

-----------------------------------------------------------------------------
(* Steps of the wizards. *)

LEMMA OpenLead ==
  ASSUME IInv, LeadOK, NEW kind \in Kinds, NEW i, OpenWizard(kind, i),
         UNCHANGED <<rows, shares, savers, lags>>
  PROVE  LeadOK'
<1> DEFINE q == [kind |-> kind, id |-> i, history |-> <<>>, split |-> 0]
<1>1. /\ opened' = opened + 1 /\ procs' = [procs EXCEPT ![opened + 1] = q] /\ view' = kind
      /\ q.history = <<>> /\ q.split = 0
  BY DEF OpenWizard
<1> HIDE DEF q
<1>2. opened \in Nat /\ opened + 1 \in 1..MaxSessions /\ DOMAIN procs = 1..MaxSessions
  BY BoundsAssumption DEF OpenWizard, IInv, TablesOK
<1>3. procs'[opened + 1] = q /\ \A s \in 1..opened : procs'[s] = procs[s]
  BY <1>1, <1>2
<1>4. \A s \in 1..opened' : s \in 1..opened \/ s = opened + 1
  BY <1>1, <1>2
<1>5. 1..opened \subseteq 1..opened'
  BY <1>1, <1>2
<1>6. \A j \in Ids : Issuers(j)' = Issuers(j) /\ Reseals(j)' = Reseals(j)
  BY <1>1, <1>3, <1>4, <1>5 DEF Issuers, Reseals
<1>7. \A n \in DOMAIN savers : savers[n].proc \in 1..opened /\ procs'[savers[n].proc] = procs[savers[n].proc]
  BY <1>3, SaverType
<1>8. \A j \in Ids, n \in DOMAIN savers :
         (Runs(n, j)' <=> Runs(n, j)) /\ (Stores(n, j)' <=> Stores(n, j))
  BY <1>7 DEF Runs, Stores
<1>9. ASSUME NEW j \in Ids \ rowLags' PROVE RowFollows(j)'
  <2>1. RowFollows(j)
    BY DEF LeadOK, lags
  <2>2. SameThreads(j)
    BY <1>8 DEF SameThreads
  <2> QED
    BY <2>1, <2>2, <1>3, <1>6, SameRow DEF Issuers
<1>10. ASSUME NEW j \in Ids \ sharesLag' PROVE SharesFollow(j)'
  <2>1. SharesFollow(j)
    BY DEF LeadOK, lags
  <2>2. \A s \in Reseals(j) : procs'[s].split = procs[s].split
    BY <1>3 DEF Reseals
  <2> QED
    BY <2>1, <2>2, <1>6, <1>7, <1>8, SameShares
<1>11. SplitsOK' /\ LagsOK' /\ view' # "insert"
  BY <1>1, <1>3, <1>4 DEF LeadOK, SplitsOK, LagsOK, lags, Kinds
<1> QED
  BY <1>9, <1>10, <1>11 DEF LeadOK

LEMMA StartLead ==
  ASSUME IInv, LeadOK, NEW kind \in Kinds,
         Start(kind) \/ \E i \in Ids : StartFromCase(kind, i)
  PROVE  LeadOK'
<1>1. CASE Start(kind)
  BY <1>1, OpenLead DEF Start
<1>2. ASSUME NEW i \in Ids, StartFromCase(kind, i) PROVE LeadOK'
  <2>1. CASE Accepts(kind, shown[i])
    BY <1>2, <2>1, OpenLead DEF StartFromCase
  <2>2. CASE ~Accepts(kind, shown[i])
    <3>1. view' = "refused" /\ UNCHANGED <<rows, shares, savers, wizards, lags>>
      BY <1>2, <2>2 DEF StartFromCase
    <3>2. LagsOK'
      BY <3>1 DEF LeadOK, LagsOK, lags
    <3> QED
      BY <3>1, <3>2, SameLead DEF wizards, lags
  <2> QED
    BY <2>1, <2>2
<1> QED
  BY <1>1, <1>2

\* The current process is replaced by q, with a record of i: nothing is different
\* for the other ids, and the threads keep their ids and kinds.
LEMMA ProcFacts ==
  ASSUME IInv, LeadOK, view \in Kinds, NEW i \in Ids, NEW q \in Procs,
         q.kind = view, q.id = i, q.history # <<>>,
         Current.history # <<>> => q.id = Current.id,
         q.split # 0 => q.kind = "reseal",
         procs' = [procs EXCEPT ![opened] = q], opened' = opened
  PROVE  /\ opened \in 1..MaxSessions /\ procs'[opened] = q
         /\ \A s \in 1..opened : s # opened => procs'[s] = procs[s]
         /\ \A n \in DOMAIN savers, j \in Ids :
               /\ savers[n].stage # "ended" /\ procs'[savers[n].proc].id = j <=> Runs(n, j)
               /\ procs'[savers[n].proc].kind = procs[savers[n].proc].kind
         /\ \A j \in Ids : j # i => Issuers(j)' = Issuers(j) /\ Reseals(j)' = Reseals(j)
         /\ q.split = Current.split => Reseals(i)' = Reseals(i)
         /\ SplitsOK'
<1>1. opened \in 1..MaxSessions /\ Current.kind = view
  BY CurrentType DEF IInv, ViewOK
<1>2. procs'[opened] = q /\ \A s \in 1..opened : s # opened => procs'[s] = procs[s]
  BY <1>1 DEF IInv, TablesOK
<1>3. Current.split # 0 => Current.history # <<>>
  BY <1>1, BoundsAssumption DEF LeadOK, SplitsOK, Current
<1>4. ASSUME NEW n \in DOMAIN savers, NEW j \in Ids
      PROVE  /\ savers[n].stage # "ended" /\ procs'[savers[n].proc].id = j <=> Runs(n, j)
             /\ procs'[savers[n].proc].kind = procs[savers[n].proc].kind
  <2>1. savers[n].proc \in 1..opened /\ procs[savers[n].proc].history # <<>>
    BY SaverType DEF SaverOK
  <2> QED
    BY <2>1, <1>1, <1>2 DEF Runs, Current
<1>5. ASSUME NEW j \in Ids, j # i PROVE Issuers(j)' = Issuers(j)
  BY <1>2, <1>5 DEF Issuers, Current
<1>6. ASSUME NEW j \in Ids, j # i PROVE Reseals(j)' = Reseals(j)
  BY <1>2, <1>3, <1>6 DEF Reseals, Current
<1>7. ASSUME q.split = Current.split PROVE Reseals(i)' = Reseals(i)
  BY <1>2, <1>3, <1>7 DEF Reseals, Current
<1>8. SplitsOK'
  BY <1>2 DEF LeadOK, SplitsOK
<1> QED
  BY <1>1, <1>2, <1>4, <1>5, <1>6, <1>7, <1>8

\* A record is issued and not saved yet.
LEMMA IssueLead ==
  ASSUME IInv, LeadOK, view \in Kinds, Current.history = <<>>,
         NEW i \in Ids, NEW h \in Histories, h # <<>>, Issue(i, h),
         rowLags' = rowLags \cup {i},
         UNCHANGED <<rows, shares, savers, view, opened, sharesLag>>
  PROVE  LeadOK'
<1> DEFINE q == [kind |-> view, id |-> i, history |-> h, split |-> 0]
<1>1. q \in Procs /\ q.kind = view /\ q.history = h /\ q.id = i /\ q.split = 0
  BY BoundsAssumption DEF Procs
<1>2. procs' = [procs EXCEPT ![opened] = q]
  BY DEF Issue, NewRecord
<1> HIDE DEF q
<1>3. /\ opened \in 1..MaxSessions /\ procs'[opened] = q
      /\ \A s \in 1..opened : s # opened => procs'[s] = procs[s]
      /\ \A n \in DOMAIN savers, j \in Ids :
            /\ savers[n].stage # "ended" /\ procs'[savers[n].proc].id = j <=> Runs(n, j)
            /\ procs'[savers[n].proc].kind = procs[savers[n].proc].kind
      /\ \A j \in Ids : j # i => Issuers(j)' = Issuers(j) /\ Reseals(j)' = Reseals(j)
      /\ q.split = Current.split => Reseals(i)' = Reseals(i)
      /\ SplitsOK'
  BY <1>1, <1>2, ProcFacts
<1>4. Current.split = 0
  BY <1>3, BoundsAssumption DEF LeadOK, SplitsOK, Current
<1>5. \A j \in Ids, n \in DOMAIN savers :
         (Runs(n, j)' <=> Runs(n, j)) /\ (Stores(n, j)' <=> Stores(n, j))
  BY <1>3 DEF Runs, Stores
<1>6. \A n \in DOMAIN savers : savers[n].proc \in 1..opened /\ savers[n].proc # opened
  BY SaverType DEF SaverOK, Current
<1>7. ASSUME NEW j \in Ids \ rowLags' PROVE RowFollows(j)'
  <2>1. RowFollows(j) /\ j # i
    BY DEF LeadOK
  <2>2. SameThreads(j)
    BY <1>5 DEF SameThreads
  <2>3. \A s \in Issuers(j) : procs'[s] = procs[s]
    BY <1>3 DEF Issuers, Current
  <2> QED
    BY <2>1, <2>2, <2>3, <1>3, SameRow
<1>8. ASSUME NEW j \in Ids \ sharesLag' PROVE SharesFollow(j)'
  <2>1. SharesFollow(j)
    BY DEF LeadOK
  <2>2. \A s \in Reseals(j) : procs'[s] = procs[s]
    BY <1>3, <1>4 DEF Reseals, Current
  <2>3. Reseals(j)' = Reseals(j)
    BY <1>1, <1>3, <1>4
  <2> QED
    BY <2>1, <2>2, <2>3, <1>3, <1>5, <1>6, SameShares
<1>9. LagsOK' /\ view' # "insert"
  BY DEF LeadOK, LagsOK, Kinds
<1> QED
  BY <1>3, <1>7, <1>8, <1>9 DEF LeadOK

\* A save thread is started for the record of the current process, which may be
\* new or have a new split.
LEMMA FollowLead ==
  ASSUME IInv, LeadOK, view \in Kinds, NEW i \in Ids, NEW q \in Procs,
         q.kind = view, q.id = i, q.history # <<>>,
         Current.history # <<>> => q.id = Current.id /\ q.history = Current.history,
         q.split # 0 => q.kind = "reseal",
         view # "reseal" => q.split = Current.split,
         procs' = [procs EXCEPT ![opened] = q], Spawn, Follow(i),
         UNCHANGED <<rows, shares, view, opened>>
  PROVE  LeadOK'
<1>0. PICK t, k : t = [proc |-> opened, stage |-> "reads", split |-> 0] /\ k = Len(savers) + 1
  OBVIOUS
<1>1. /\ opened \in 1..MaxSessions /\ procs'[opened] = q
      /\ \A s \in 1..opened : s # opened => procs'[s] = procs[s]
      /\ \A n \in DOMAIN savers, j \in Ids :
            /\ savers[n].stage # "ended" /\ procs'[savers[n].proc].id = j <=> Runs(n, j)
            /\ procs'[savers[n].proc].kind = procs[savers[n].proc].kind
      /\ \A j \in Ids : j # i => Issuers(j)' = Issuers(j) /\ Reseals(j)' = Reseals(j)
      /\ q.split = Current.split => Reseals(i)' = Reseals(i)
      /\ SplitsOK'
  BY ProcFacts
<1>2. /\ DOMAIN savers' = DOMAIN savers \cup {k} /\ k \notin DOMAIN savers
      /\ \A n \in DOMAIN savers : savers'[n] = savers[n]
      /\ savers'[k] = t
  <2>1. savers' = Append(savers, t) /\ savers \in Seq(Savers)
    BY <1>0 DEF Spawn, IInv, TablesOK
  <2>2. Len(savers) \in Nat /\ k = Len(savers) + 1
    BY <1>0, <2>1
  <2> QED
    BY <2>1, <2>2
<1>3. t.proc = opened /\ t.stage = "reads"
  BY <1>0
<1>4. \A n \in DOMAIN savers, j \in Ids :
         (Runs(n, j)' <=> Runs(n, j)) /\ (Stores(n, j)' <=> Stores(n, j))
  BY <1>1, <1>2 DEF Runs, Stores
<1>5. Runs(k, i)' /\ \A j \in Ids : j # i => ~Runs(k, j)' /\ ~Stores(k, j)'
  BY <1>1, <1>2, <1>3 DEF Runs, Stores
<1>6. \A n \in DOMAIN savers : savers[n].proc \in 1..opened
  BY SaverType
<1>7. /\ rowLags' = IF Overtaken(i) THEN rowLags \cup {i} ELSE rowLags \ {i}
      /\ sharesLag' = IF view # "reseal" THEN sharesLag
                      ELSE IF HoldsSplit(i) THEN sharesLag \cup {i}
                      ELSE sharesLag \ {i}
  BY DEF Follow
<1>8. \A s \in 1..opened : s <= opened
  BY <1>1
<1>9. ASSUME NEW j \in Ids \ rowLags' PROVE RowFollows(j)'
  <2>1. CASE j # i
    <3>1. RowFollows(j)
      BY <2>1, <1>7 DEF LeadOK
    <3>2. SameThreads(j)
      BY <2>1, <1>2, <1>4, <1>5 DEF SameThreads
    <3>3. \A s \in Issuers(j) : procs'[s] = procs[s]
      BY <2>1, <1>1 DEF Issuers, Current
    <3> QED
      BY <2>1, <3>1, <3>2, <3>3, <1>1, SameRow
  <2>2. CASE j = i
    <3>1. ~Overtaken(i)
      BY <2>2, <1>7
    <3>2. ASSUME NEW n \in DOMAIN savers', Runs(n, i)' PROVE savers'[n].proc = opened
      BY <3>1, <3>2, <1>2, <1>3, <1>4 DEF Overtaken
    <3>3. ~Idle(i)'
      BY <1>2, <1>5 DEF Idle
    <3>4. ASSUME NEW n \in DOMAIN savers', Runs(n, i)' PROVE Newest(i, savers[n].proc)'
      BY <3>2, <3>4, <1>8 DEF Newest, Issuers
    <3> QED
      BY <2>2, <3>3, <3>4 DEF RowFollows
  <2> QED
    BY <2>1, <2>2
<1>10. ASSUME NEW j \in Ids \ sharesLag' PROVE SharesFollow(j)'
  <2>1. CASE j # i
    <3>1. SharesFollow(j)
      BY <2>1, <1>7 DEF LeadOK
    <3>2. \A s \in Reseals(j) : procs'[s] = procs[s]
      <4>1. Current.split # 0 => Current.history # <<>>
        BY <1>1, BoundsAssumption DEF LeadOK, SplitsOK, Current
      <4> QED
        BY <2>1, <4>1, <1>1 DEF Reseals, Current
    <3>3. \A n \in DOMAIN savers : Runs(n, j) => procs'[savers[n].proc] = procs[savers[n].proc]
      <4> SUFFICES ASSUME NEW n \in DOMAIN savers, Runs(n, j)
                   PROVE  procs'[savers[n].proc] = procs[savers[n].proc]
        OBVIOUS
      <4>1. procs[savers[n].proc].history # <<>> /\ procs[savers[n].proc].id = j
        BY SaverType DEF SaverOK, Runs
      <4> QED
        BY <4>1, <2>1, <1>1, <1>6 DEF Current
    <3>4. \A n \in DOMAIN savers' : Stores(n, j)' => n \in DOMAIN savers /\ Runs(n, j)
      BY <2>1, <1>2, <1>4, <1>5 DEF Stores
    <3> QED
      BY <2>1, <3>1, <3>2, <3>3, <3>4, <1>1, <1>2, <1>4, SameShares
  <2>2. CASE j = i /\ view # "reseal"
    <3>1. SharesFollow(i)
      BY <2>2, <1>7 DEF LeadOK
    <3>2. ~Stores(k, i)'
      BY <2>2, <1>1, <1>2, <1>3 DEF Stores
    <3>3. \A s \in 1..opened : procs'[s].split = procs[s].split
      BY <2>2, <1>1 DEF Current
    <3>4. Reseals(i)' = Reseals(i)
      BY <2>2, <1>1
    <3>5. \A s \in Reseals(i) : procs'[s].split = procs[s].split
      BY <3>3 DEF Reseals
    <3>6. \A n \in DOMAIN savers' : Stores(n, i)' => n \in DOMAIN savers
      BY <3>2, <1>2
    <3> QED
      BY <2>2, <3>1, <3>3, <3>4, <3>5, <3>6, <1>2, <1>4, <1>6, SameShares
  <2>3. CASE j = i /\ view = "reseal"
    <3>1. ~HoldsSplit(i)
      BY <2>3, <1>7
    <3>2. ASSUME NEW n \in DOMAIN savers', Stores(n, i)'
          PROVE  savers'[n].proc = opened /\ savers'[n].stage # "writes"
      BY <3>1, <3>2, <1>2, <1>3, <1>4 DEF HoldsSplit, Stores
    <3>3. Stores(k, i)' /\ k \in DOMAIN savers'
      BY <2>3, <1>1, <1>2, <1>3, <1>5 DEF Stores
    <3>4. ASSUME NEW n \in DOMAIN savers', Stores(n, i)' PROVE LastSplit(i, savers[n].proc)'
      BY <3>2, <3>4, <1>8 DEF LastSplit, Reseals
    <3> QED
      BY <2>3, <3>2, <3>3, <3>4 DEF SharesFollow
  <2> QED
    BY <2>1, <2>2, <2>3
<1>11. LagsOK' /\ view' # "insert"
  BY <1>7 DEF LeadOK, LagsOK, Kinds
<1> QED
  BY <1>1, <1>9, <1>10, <1>11 DEF LeadOK

LEMMA IssueOthersLead ==
  ASSUME IInv, LeadOK, NEW i \in Ids,
         IssueSeal(i) \/ \E h \in Given(i) : IssueReseal(i, h)
  PROVE  LeadOK'
<1>1. CASE IssueSeal(i)
  <2>1. <<"S">> \in Histories /\ <<"S">> # <<>>
    BY BoundsAssumption DEF Histories
  <2>2. view \in Kinds
    BY <1>1 DEF IssueSeal, Kinds
  <2> QED
    BY <1>1, <2>1, <2>2, IssueLead DEF IssueSeal
<1>2. ASSUME NEW h \in Given(i), IssueReseal(i, h) PROVE LeadOK'
  <2> DEFINE g == Append(h, Event[view])
  <2>1. view \in Kinds /\ Current.history = <<>> /\ Len(h) < MaxEvents
    BY <1>2 DEF IssueReseal, Kinds
  <2>2. g \in Histories
    BY <2>1, IssueHistory DEF IInv, TablesOK
  <2>3. g # <<>>
    BY <2>2 DEF Histories
  <2>4. /\ Issue(i, g) /\ rowLags' = rowLags \cup {i}
        /\ UNCHANGED <<rows, shares, savers, view, opened, sharesLag>>
    BY <1>2 DEF IssueReseal, AppendEvent
  <2> HIDE DEF g
  <2> QED
    BY <2>1, <2>2, <2>3, <2>4, IssueLead
<1> QED
  BY <1>1, <1>2

LEMMA IssueUnsealLead ==
  ASSUME IInv, LeadOK, NEW i \in Ids, NEW h \in Given(i), IssueUnseal(i, h)
  PROVE  LeadOK'
<1> DEFINE g == Append(h, Event[view])
           q == [kind |-> view, id |-> i, history |-> g, split |-> 0]
<1>1. view \in Kinds /\ view # "reseal" /\ Current.history = <<>> /\ Len(h) < MaxEvents
  BY DEF IssueUnseal, Kinds
<1>2. g \in Histories
  BY <1>1, IssueHistory DEF IInv, TablesOK
<1>3. g # <<>>
  BY <1>2 DEF Histories
<1> HIDE DEF g
<1>4. q \in Procs /\ q.kind = view /\ q.history = g /\ q.id = i /\ q.split = 0
  BY <1>1, <1>2, BoundsAssumption DEF Procs
<1>5. /\ procs' = [procs EXCEPT ![opened] = q] /\ Spawn /\ Follow(i)
      /\ UNCHANGED <<rows, shares, view, opened>>
  BY DEF IssueUnseal, AppendEvent, Issue, NewRecord, g
<1>6. Current.split = 0
  <2>1. opened \in 1..MaxSessions
    BY <1>1, CurrentType
  <2> QED
    BY <1>1, <2>1, BoundsAssumption DEF LeadOK, SplitsOK, Current
<1> HIDE DEF q
<1> QED
  BY <1>1, <1>3, <1>4, <1>5, <1>6, FollowLead

LEMMA SplitKeyLead ==
  ASSUME IInv, LeadOK, SplitKey
  PROVE  LeadOK'
<1>1. view \in Kinds /\ view = "reseal" /\ Current.history # <<>> /\ Len(savers) < MaxSavers
  BY DEF SplitKey, Kinds
<1>2. Current \in Procs /\ Current.id \in Ids /\ Current.kind = view
  BY <1>1, CurrentType DEF IInv, ViewOK
<1>3. PICK i \in Ids : i = Current.id
  BY <1>2
<1> DEFINE q == [Current EXCEPT !.split = splits + 1]
<1>4. splits + 1 \in 0..MaxSavers
  BY <1>1, BoundsAssumption DEF IInv, TablesOK, SaversOK
<1>5. /\ q \in Procs /\ q.kind = view /\ q.id = i /\ q.history = Current.history
  BY <1>2, <1>3, <1>4 DEF Procs
<1>6. /\ procs' = [procs EXCEPT ![opened] = q] /\ Spawn /\ Follow(i)
      /\ UNCHANGED <<rows, shares, view, opened>>
  BY <1>3 DEF SplitKey
<1> HIDE DEF q
<1> QED
  BY <1>1, <1>3, <1>5, <1>6, FollowLead

LEMMA ShowLastAgainLead ==
  ASSUME IInv, LeadOK, ShowLastAgain
  PROVE  LeadOK'
<1>1. view \in Kinds /\ Current.history # <<>>
  BY DEF ShowLastAgain, Kinds
<1>2. Current \in Procs /\ Current.id \in Ids /\ Current.kind = view /\ opened \in 1..MaxSessions
  BY <1>1, CurrentType DEF IInv, ViewOK
<1>3. PICK i \in Ids, q \in Procs : i = Current.id /\ q = Current
  BY <1>2
<1>4. /\ procs' = [procs EXCEPT ![opened] = q] /\ Spawn /\ Follow(i)
      /\ UNCHANGED <<rows, shares, view, opened>>
  BY <1>3 DEF ShowLastAgain, wizards, Current, IInv, TablesOK
<1>5. q.split # 0 => q.kind = "reseal"
  BY <1>2, <1>3, BoundsAssumption DEF LeadOK, SplitsOK, Current
<1> QED
  BY <1>1, <1>2, <1>3, <1>4, <1>5, FollowLead

LEMMA InitLead == Init => LeadOK
<1> SUFFICES ASSUME Init PROVE LeadOK
  OBVIOUS
<1>1. 1..opened = {} /\ DOMAIN savers = {}
  BY DEF Init
<1>2. \A i \in Ids : RowFollows(i) /\ SharesFollow(i)
  BY <1>1 DEF RowFollows, SharesFollow, Issuers, Reseals
<1> QED
  BY <1>1, <1>2 DEF Init, LeadOK, LagsOK, SplitsOK

LEMMA NextLead ==
  ASSUME IInv, LeadOK, [Next]_vars
  PROVE  LeadOK'
<1>1. CASE Manage
  <2>1. CASE EnterCases \/ LeaveCases \/ Refresh \/ CloseWarning
    BY <2>1, ControlLead
  <2>2. CASE \E i \in Ids : NewCase(i) \/ DeleteCase(i)
    BY <2>2, CaseLead
  <2>3. CASE \E kind \in Kinds : Start(kind) \/ \E i \in Ids : StartFromCase(kind, i)
    BY <2>3, StartLead
  <2> QED
    BY <1>1, <2>1, <2>2, <2>3 DEF Manage
<1>2. CASE LoadReads \/ ApplyCases
  BY <1>2, ControlLead
<1>3. CASE Wizard
  <2>1. CASE \E i \in Ids : \/ IssueSeal(i)
                            \/ \E h \in Given(i) : IssueUnseal(i, h) \/ IssueReseal(i, h)
    BY <2>1, IssueOthersLead, IssueUnsealLead
  <2>2. CASE SplitKey \/ ShowLastAgain \/ Cancel
    BY <2>2, SplitKeyLead, ShowLastAgainLead, ControlLead
  <2> QED
    BY <1>3, <2>1, <2>2 DEF Wizard
<1>4. CASE Handle
  BY <1>4, ControlLead, InsertLead, UpdateLead DEF Handle
<1>5. CASE Restart
  BY <1>5, RestartLead
<1>6. CASE \E n \in DOMAIN savers : Saver(n)
  BY <1>6, SaverReadsLead, SaverWritesLead, SaverFailsLead DEF Saver
<1>7. CASE UNCHANGED vars
  <2>1. UNCHANGED <<rows, shares, view, savers, opened, procs, rowLags, sharesLag>>
    BY <1>7 DEF vars, wizards, lags
  <2>2. LagsOK' /\ (view' = "insert" => Current.id \in rowLags')
    BY <2>1 DEF LeadOK, LagsOK
  <2> QED
    BY <2>1, <2>2, SameLead
<1> QED
  BY <1>1, <1>2, <1>3, <1>4, <1>5, <1>6, <1>7 DEF Next

LEMMA LeadInvariance == Spec => [](IInv /\ LeadOK)
BY InitIInv, NextIInv, InitLead, NextLead, PTL DEF Spec

\* Every variable keeps its type: statuses stay within a digit per event, and
\* no more splits are made than saves are started.
THEOREM TypeCorrect == Spec => []TypeOK
<1>1. IInv /\ LeadOK => TypeOK
  BY DEF IInv, LeadOK, TypeOK
<1> QED
  BY <1>1, LeadInvariance, PTL

\* Once the threads of an id have ended, its row holds the record of the newest
\* process, however the threads and the handlers ran and whatever failed, with
\* the exceptions that rowLags collects, and the next save ends each of these
\* (run_u7_save, run_r8_save, _save_case_meta).
THEOREM RowOfNewestCorrect == Spec => []RowOfNewest
<1>1. LeadOK => RowOfNewest
  <2> SUFFICES ASSUME LeadOK, NEW i \in Ids \ rowLags, NEW s \in Issuers(i), Idle(i),
                      \A r \in Issuers(i) : r <= s
               PROVE  RowIsOf(rows[i], procs[s])
    BY DEF RowOfNewest, RowIsOf
  <2> QED
    BY DEF LeadOK, RowFollows, Newest
<1> QED
  BY <1>1, LeadInvariance, PTL

\* Once the threads of an id have ended, the shares in the table are those of the
\* last split of its last reseal, with the exceptions that sharesLag collects: a
\* save that failed, or a thread with another split that still ran when the last
\* one was started (run_r8_save).
THEOREM SharesAgreeCorrect == Spec => []SharesAgree
<1>1. LeadOK => SharesAgree
  <2> SUFFICES ASSUME LeadOK, NEW i \in Ids \ sharesLag, NEW s \in Reseals(i), Idle(i),
                      \A r \in Reseals(i) : r <= s
               PROVE  shares[i] = procs[s].split
    BY DEF SharesAgree
  <2>1. \A n \in DOMAIN savers : ~Stores(n, i)
    BY DEF Idle, Stores
  <2> QED
    BY <2>1 DEF LeadOK, SharesFollow, LastSplit
<1> QED
  BY <1>1, LeadInvariance, PTL

-----------------------------------------------------------------------------
(***************************************************************************)
(* What the list of cases offers, whatever the threads do and fails:       *)
(* the status column never gets past a sealing (case_status shows one case *)
(* of it), so that the list is of use for unsealing only.                  *)
(***************************************************************************)

\* Every status is that of a sealing, or the empty one: a sealing never starts
\* from a case of the list.
SealedOnly == {None, DefaultStatus}
StatusesOK ==
    \A i \in Ids : /\ rows[i] # None => rows[i].status \in SealedOnly
                   /\ shown[i] \in SealedOnly /\ result[i] \in SealedOnly

\* The status of a case that was sealed and no more.
LEMMA SealingStatus ==
  /\ DefaultStatus.S = 1 /\ DefaultStatus.U = 0 /\ DefaultStatus # None
  /\ ~Accepts("seal", DefaultStatus)
<1> DEFINE h == <<"S">>
<1>1. DOMAIN h = {1} /\ h[1] = "S"
  OBVIOUS
<1>2. {n \in DOMAIN h : h[n] = "S"} = {1} /\ {n \in DOMAIN h : h[n] = "U"} = {}
  BY <1>1
<1>3. Cardinality({1}) = 1 /\ Cardinality({}) = 0
  BY FS_Singleton, FS_EmptySet
<1> HIDE DEF h
<1>4. Summary(h).S = 1 /\ Summary(h).U = 0
  BY <1>2, <1>3 DEF Summary
<1>5. DefaultStatus # None
  BY DefaultStatusType, NoneAssumption
<1> QED
  BY <1>4, <1>5 DEF DefaultStatus, h, Accepts

\* What the case manager shows.
LEMMA ListedStatuses ==
  ASSUME StatusesOK, NEW K \in SUBSET Ids, NEW i \in Ids
  PROVE  Listed(K)[i] \in SealedOnly
BY DEF StatusesOK, SealedOnly, Listed

\* A seal wizard issues the record of a sealing and no other.
SealsIssue ==
    \A s \in 1..opened : procs[s].kind = "seal" => procs[s].history \in {<<>>, <<"S">>}

ListInv == SealsIssue /\ StatusesOK

LEMMA SealingAccepts ==
  \A kind \in Kinds : Accepts(kind, DefaultStatus) <=> kind = "unseal"
<1>1. DefaultStatus.S = 1 /\ DefaultStatus.U = 0
  BY SealingStatus
<1>2. /\ ~Accepts("seal", DefaultStatus) /\ Accepts("unseal", DefaultStatus)
      /\ ~Accepts("reseal", DefaultStatus)
  BY <1>1 DEF Accepts
<1> QED
  BY <1>2 DEF Kinds

\* Steps that leave the processes alone.
LEMMA SameSeals ==
  ASSUME ListInv, UNCHANGED <<opened, procs>>
  PROVE  SealsIssue'
BY DEF ListInv, SealsIssue

LEMMA ManageList ==
  ASSUME IInv, ListInv, Manage
  PROVE  ListInv'
<1>1. CASE EnterCases \/ LeaveCases \/ Refresh \/ CloseWarning
  <2>1. SealsIssue'
    BY <1>1, SameSeals DEF EnterCases, LeaveCases, Refresh, CloseWarning, wizards
  <2>2. StatusesOK'
    BY <1>1 DEF EnterCases, LeaveCases, Refresh, CloseWarning, Reload, manager, ListInv,
       StatusesOK, SealedOnly
  <2> QED
    BY <2>1, <2>2 DEF ListInv
<1>2. ASSUME NEW i \in Ids, NewCase(i) \/ DeleteCase(i) PROVE ListInv'
  <2>1. SealsIssue'
    BY <1>2, SameSeals DEF NewCase, DeleteCase, wizards
  <2>2. \A j \in Ids : rows'[j] = rows[j] \/ rows'[j] = None \/ rows'[j].status = None
    BY <1>2 DEF IInv, TablesOK, NewCase, DeleteCase, DeleteRow
  <2>3. StatusesOK'
    BY <1>2, <2>2 DEF NewCase, DeleteCase, Reload, ListInv, StatusesOK, SealedOnly
  <2> QED
    BY <2>1, <2>3 DEF ListInv
<1>3. ASSUME NEW kind \in Kinds, Start(kind) \/ \E i \in Ids : StartFromCase(kind, i)
      PROVE  ListInv'
  <2>1. UNCHANGED <<rows, manager>>
    BY <1>3 DEF Start, StartFromCase
  <2>2. UNCHANGED <<opened, procs>> \/ \E i : OpenWizard(kind, i)
    BY <1>3 DEF Start, StartFromCase, wizards
  <2>3. ASSUME NEW i, OpenWizard(kind, i) PROVE SealsIssue'
    <3> DEFINE p == [kind |-> kind, id |-> i, history |-> <<>>, split |-> 0]
    <3>1. opened' = opened + 1 /\ procs' = [procs EXCEPT ![opened + 1] = p] /\ p.history = <<>>
      BY <2>3 DEF OpenWizard
    <3> HIDE DEF p
    <3>2. opened \in Nat /\ opened + 1 \in 1..MaxSessions /\ DOMAIN procs = 1..MaxSessions
      BY <2>3, BoundsAssumption DEF OpenWizard, IInv, TablesOK
    <3>3. procs'[opened + 1] = p /\ \A s \in 1..opened : procs'[s] = procs[s]
      BY <3>1, <3>2
    <3>4. \A s \in 1..opened' : s \in 1..opened \/ s = opened + 1
      BY <3>1, <3>2
    <3> QED
      BY <3>1, <3>3, <3>4 DEF ListInv, SealsIssue
  <2>4. SealsIssue'
    BY <2>2, <2>3, SameSeals
  <2>5. StatusesOK'
    BY <2>1 DEF manager, ListInv, StatusesOK
  <2> QED
    BY <2>4, <2>5 DEF ListInv
<1> QED
  BY <1>1, <1>2, <1>3 DEF Manage

\* The process that is open is replaced by one that keeps to SealsIssue.
LEMMA ReplacedSeals ==
  ASSUME IInv, ListInv, view \in Kinds, NEW p,
         p.kind = "seal" => p.history \in {<<>>, <<"S">>},
         procs' = [procs EXCEPT ![opened] = p], UNCHANGED <<rows, opened, manager>>
  PROVE  ListInv'
<1>1. opened \in 1..MaxSessions /\ DOMAIN procs = 1..MaxSessions
  BY CurrentType DEF IInv, TablesOK
<1>2. \A s \in 1..opened : procs'[s] = IF s = opened THEN p ELSE procs[s]
  BY <1>1
<1>3. SealsIssue'
  BY <1>2 DEF ListInv, SealsIssue
<1>4. StatusesOK'
  BY DEF manager, ListInv, StatusesOK
<1> QED
  BY <1>3, <1>4 DEF ListInv

LEMMA WizardList ==
  ASSUME IInv, ListInv, Wizard
  PROVE  ListInv'
<1>1. ASSUME NEW i \in Ids, IssueSeal(i) PROVE ListInv'
  <2> DEFINE p == NewRecord(i, <<"S">>)
  <2>1. view \in Kinds /\ procs' = [procs EXCEPT ![opened] = p] /\ UNCHANGED <<rows, opened, manager>>
    BY <1>1 DEF IssueSeal, Issue, Kinds
  <2>2. p.history = <<"S">>
    BY DEF NewRecord
  <2> HIDE DEF p
  <2> QED
    BY <2>1, <2>2, ReplacedSeals
<1>2. ASSUME NEW i \in Ids, NEW h \in Given(i), IssueUnseal(i, h) \/ IssueReseal(i, h)
      PROVE  ListInv'
  <2> DEFINE p == NewRecord(i, AppendEvent(h, view))
  <2>1. /\ view \in {"unseal", "reseal"} /\ procs' = [procs EXCEPT ![opened] = p]
        /\ UNCHANGED <<rows, opened, manager>>
    BY <1>2 DEF IssueUnseal, IssueReseal, Issue
  <2>2. p.kind = view
    BY DEF NewRecord
  <2> HIDE DEF p
  <2>3. p.kind # "seal" /\ view \in Kinds
    BY <2>1, <2>2 DEF Kinds
  <2> QED
    BY <2>1, <2>3, ReplacedSeals
<1>3. CASE SplitKey
  <2> DEFINE p == [Current EXCEPT !.split = splits + 1]
  <2>1. view = "reseal" /\ procs' = [procs EXCEPT ![opened] = p] /\ UNCHANGED <<rows, opened, manager>>
    BY <1>3 DEF SplitKey
  <2>2. view \in Kinds /\ Current.kind = "reseal" /\ Current \in Procs
    BY <2>1, CurrentType DEF Kinds, IInv, ViewOK
  <2>3. p.kind = "reseal"
    BY <2>2 DEF Procs
  <2> HIDE DEF p
  <2> QED
    BY <2>1, <2>2, <2>3, ReplacedSeals
<1>4. CASE ShowLastAgain \/ Cancel
  <2>1. UNCHANGED <<rows, opened, procs, manager>>
    BY <1>4 DEF ShowLastAgain, Cancel, wizards
  <2> QED
    BY <2>1 DEF manager, ListInv, SealsIssue, StatusesOK
<1> QED
  BY <1>1, <1>2, <1>3, <1>4 DEF Wizard

\* A row written with the status of a sealing.
LEMMA SealedWritten ==
  ASSUME IInv, StatusesOK, shown' = shown, result' = result,
         NEW i, NEW r, r.status = DefaultStatus, rows' = [rows EXCEPT ![i] = r]
  PROVE  StatusesOK'
<1>1. \A j \in Ids : rows'[j] = rows[j] \/ rows'[j] = r
  BY DEF IInv, TablesOK
<1> QED
  BY <1>1 DEF StatusesOK, SealedOnly

\* The status of what the handlers and the threads write is that of a sealing.
LEMMA WriteList ==
  ASSUME IInv, ListInv, Handle \/ Restart \/ \E n \in DOMAIN savers : Saver(n)
  PROVE  ListInv'
<1>1. UNCHANGED <<opened, procs, manager>>
  BY DEF Handle, Complete, CheckRow, InsertRow, UpdateRow, MetaRaises, HandlerFails, Restart,
     Saver, SaverReads, SaverWrites, SaverFails, wizards
<1>2. SealsIssue'
  BY <1>1, SameSeals
<1>3. StatusesOK /\ shown' = shown /\ result' = result
  BY <1>1 DEF ListInv, manager
<1>4. CASE rows' = rows
  BY <1>2, <1>3, <1>4 DEF StatusesOK, SealedOnly, ListInv
<1>5. CASE InsertRow \/ \E n \in DOMAIN savers : SaverWrites(n)
  <2>1. \E i, h, u : rows' = [rows EXCEPT ![i] = Saved(h, u)]
    <3>1. CASE InsertRow
      BY <3>1 DEF InsertRow
    <3>2. ASSUME NEW n \in DOMAIN savers, SaverWrites(n)
          PROVE  \E i, h, u : rows' = [rows EXCEPT ![i] = Saved(h, u)]
      BY <3>2 DEF SaverWrites
    <3> QED
      BY <1>5, <3>1, <3>2
  <2>2. PICK i, h, u : rows' = [rows EXCEPT ![i] = Saved(h, u)]
    BY <2>1
  <2> DEFINE r == Saved(h, u)
  <2>3. r.status = DefaultStatus
    BY DEF Saved
  <2>4. rows' = [rows EXCEPT ![i] = r]
    BY <2>2
  <2> HIDE DEF r
  <2> QED
    BY <1>2, <1>3, <2>3, <2>4, SealedWritten DEF ListInv
<1>6. CASE UpdateRow /\ rows[Current.id] # None
  <2> DEFINE r == [status |-> Summary(Current.history), history |-> Current.history,
                   unlock |-> FALSE]
             i == Current.id
  <2>1. view = "update" /\ Current.kind = "seal" /\ rows' = [rows EXCEPT ![i] = r]
    BY <1>6 DEF UpdateRow
  <2>2. Current.history # <<>> /\ opened \in 1..MaxSessions
    BY <2>1, CurrentType DEF IInv, ViewOK, Stages
  <2>3. Current.history = <<"S">>
    BY <2>1, <2>2 DEF ListInv, SealsIssue, Current
  <2>4. r.status = DefaultStatus
    BY <2>3 DEF DefaultStatus
  <2> HIDE DEF r, i
  <2> QED
    BY <1>2, <1>3, <2>1, <2>4, SealedWritten DEF ListInv
<1>7. \/ rows' = rows \/ InsertRow \/ (UpdateRow /\ rows[Current.id] # None)
      \/ \E n \in DOMAIN savers : SaverWrites(n)
  BY DEF Handle, Complete, CheckRow, UpdateRow, MetaRaises, HandlerFails, Restart,
     Saver, SaverReads, SaverFails
<1> QED
  BY <1>4, <1>5, <1>6, <1>7

LEMMA NextList == IInv /\ ListInv /\ [Next]_vars => ListInv'
<1> SUFFICES ASSUME IInv, ListInv, [Next]_vars PROVE ListInv'
  OBVIOUS
<1>1. CASE LoadReads \/ ApplyCases
  <2>1. SealsIssue'
    BY <1>1, SameSeals DEF LoadReads, ApplyCases, wizards
  <2>2. StatusesOK'
    <3>1. CASE LoadReads
      BY <3>1, ListedStatuses DEF LoadReads, ListInv, StatusesOK
    <3>2. CASE ApplyCases
      BY <3>2 DEF ApplyCases, ListInv, StatusesOK
    <3> QED
      BY <1>1, <3>1, <3>2
  <2> QED
    BY <2>1, <2>2 DEF ListInv
<1>2. CASE UNCHANGED vars
  BY <1>2 DEF vars, wizards, manager, ListInv, SealsIssue, StatusesOK
<1> QED
  BY <1>1, <1>2, ManageList, WizardList, WriteList DEF Next

\* A case of the list can be unsealed, and only that: not even one that was
\* unsealed or resealed meanwhile is ever accepted for a resealing, and none is
\* for a sealing (Accepts: the guards of _on_start_seal, _on_start_unseal and
\* _on_start_reseal).
OnlyUnseal ==
    \A i \in Ids : shown[i] # None =>
       \A kind \in Kinds : Accepts(kind, shown[i]) <=> kind = "unseal"

\* Whatever is cancelled, fails or is cut off, for any number of cases and
\* wizards: the list of cases offers its cases for unsealing only.
THEOREM OnlyUnsealCorrect == Spec => []OnlyUnseal
<1>1. Init => ListInv
  BY BoundsAssumption DEF Init, ListInv, SealsIssue, StatusesOK, SealedOnly
<1>2. ListInv => OnlyUnseal
  BY SealingAccepts DEF ListInv, StatusesOK, SealedOnly, OnlyUnseal
<1> QED
  BY <1>1, <1>2, InitIInv, NextIInv, NextList, PTL DEF Spec

==============================================================================
