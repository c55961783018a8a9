---------------------------- MODULE KeyCustody ----------------------------
(***************************************************************************)
(* The way of a key from the sealing to its recovery: SealProcess hands    *)
(* out the shares with the seal id, suspect and investigator upload theirs *)
(* on the portal of WebShares under that id, and the key is recovered      *)
(* there.  Records are uploaded for any id.                                *)
(***************************************************************************)
EXTENDS SealProcess, WebShares

vars == <<sealVars, portalVars>>

TypeOK == SealTypeOK /\ PortalTypeOK

Init == SealInit /\ PortalInit

Seal ==
    /\ SealNext
    /\ answer' = None /\ UNCHANGED <<tables, requests>>

\* A case is registered under a seal id that the sealing has given out.
Register(q) ==
    \E key \in CaseKeys, form \in Forms :
        handed[key.seal] # {} /\ SendRegistration(q, key, form)

\* Suspect and investigator upload their share of a result; the id they type
\* may be another one.
Upload ==
    \E key \in ShareKeys, s \in Seals : \E n \in handed[s] :
        UploadShare(key, [split |-> n, index |-> key.index])

Deposit ==
    \E key \in ShareKeys : \E n \in handed[key.seal] :
        DepositShare4(key, [split |-> n, index |-> 4])

Portal ==
    /\ \/ \E q \in Slots : Register(q) \/ Serve(q)
       \/ Upload \/ Deposit
       \/ \E key \in RecordKeys, form \in Forms : UploadRecord(key, form)
       \/ \E db \in Databases, s \in Typed : Recover(db, s) \/ EmergencyRecover(db, s)
    /\ UNCHANGED sealVars

Next == Seal \/ Portal

Spec == Init /\ [][Next]_vars

-----------------------------------------------------------------------------
(* What holds.                                                             *)

\* Once shares were uploaded under the id they were handed out with, whatever
\* failed, was tried again or was sealed again meanwhile, the key recovered from
\* them is that of the container which the record stored under the id describes
\* (the results of run_s7 against insert_key_share and recover_key).
RecoversKey ==
    answer \in Recovered /\ {answer.first.split, answer.second.split} \subseteq handed[answer.seal]
        => /\ Stored(answer.seal)
           /\ RecoverKey(splits, answer.first, answer.second) = bundles[answer.seal].described

\* Each table of the portal is a ledger.  A registered case stays as it is and
\* only he who registered it is told so, however many look for it at once
\* (register_case looks and then inserts); a share that is stored is never
\* replaced, and who is told that his share was uploaded finds one there
\* (insert_key_share); and so with the records (insert_seal_record), except
\* that MariaDB answers a success when it drops the record of a case that is
\* not registered.
LedgersKept == CaseLedger!Spec /\ ShareLedger!Spec /\ RecordLedger!Spec

=============================================================================
