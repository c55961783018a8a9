---------------------------- MODULE SealProcess ----------------------------
(***************************************************************************)
(* The sealing without a wizard: SealProcess and run_seal_in_background of *)
(* desktop/seal_process.py.                                                *)
(*                                                                         *)
(* The caller runs S1 and then S4 to S7 on a thread.  "On error the        *)
(* current state is preserved so the user can retry from the failing       *)
(* step": the caller repeats a step that failed, goes on from there, or    *)
(* starts again at S1 or S4.  Keys are numbered as they are drawn.         *)
(***************************************************************************)
EXTENDS KeyShares

CONSTANT MaxKeys        \* bound on the calls of run_s1

ASSUME MaxKeysAssumption == MaxKeys \in Nat

VARIABLES
    drawn,      \* keys drawn by run_s1
    container,  \* the key of the container at enc_path; 0: none, or a partial one
    splits,     \* see KeyShares
    seals,      \* seal ids issued by run_s4
    state,      \* SealProcess.state, see States
    pc,         \* the step that runs
    failed,     \* the step that failed last
    bundles,    \* what save_seal_bundle stored of each seal id
    handed      \* the splits of the key_shares in SealResults, by seal id

sealVars == <<drawn, container, splits, seals, state, pc, failed, bundles, handed>>

-----------------------------------------------------------------------------

Steps == {"s4", "s5", "s6", "s7"}

\* s1: the key, 0 for none.  seal and described: the id of the record of s4, 0
\* for none, and the key of the container that the record describes.  s6: the
\* split.
States == [s1 : 0..MaxKeys, seal : 0..MaxSeals, described : 0..MaxKeys,
           s5 : BOOLEAN, s6 : 0..MaxSplits]
NoState == [s1 |-> 0, seal |-> 0, described |-> 0, s5 |-> FALSE, s6 |-> 0]

\* described is 0 if nothing is stored; split is that of the shares 3 and 4.
Bundles == [described : 0..MaxKeys, split : 0..MaxSplits]
NoBundle == [described |-> 0, split |-> 0]

SealTypeOK ==
    /\ drawn \in 0..MaxKeys /\ container \in 0..drawn
    /\ splits \in Seq(1..drawn) /\ Len(splits) <= MaxSplits
    /\ seals \in 0..MaxSeals
    /\ state \in States
    /\ pc \in Steps \cup {"idle", "s1", "answer"}
    /\ failed \in Steps \cup {"none", "s1"}
    /\ bundles \in [Seals -> Bundles]
    /\ handed \in [Seals -> SUBSET (1..Len(splits))]

SealInit ==
    /\ drawn = 0 /\ container = 0 /\ splits = <<>> /\ seals = 0
    /\ state = NoState /\ pc = "idle" /\ failed = "none"
    /\ bundles = [s \in Seals |-> NoBundle]
    /\ handed = [s \in Seals |-> {}]

-----------------------------------------------------------------------------
(* run_s1: a key of its own and encrypt_file on the same output path.      *)

StartS1 ==
    /\ pc = "idle" /\ drawn < MaxKeys
    /\ pc' = "s1" /\ drawn' = drawn + 1
    /\ UNCHANGED <<container, splits, seals, state, failed, bundles, handed>>

EndS1 ==
    /\ pc = "s1"
    /\ container' = drawn
    /\ state' = [state EXCEPT !.s1 = drawn]
    /\ pc' = "idle" /\ failed' = "none"
    /\ UNCHANGED <<drawn, splits, seals, bundles, handed>>

\* Cancelled or failed, before or after the output was overwritten; the state
\* of the S1 before it stays.
FailS1 ==
    /\ pc = "s1"
    /\ container' \in {container, 0}
    /\ pc' = "idle" /\ failed' = "s1"
    /\ UNCHANGED <<drawn, splits, seals, state, bundles, handed>>

-----------------------------------------------------------------------------
(* run_seal_in_background, or the caller's retry of one step.              *)

\* Faulty: S1 need not be there.
BeginUnchecked ==
    /\ pc = "idle" /\ failed # "s1"
    /\ pc' = "s4"
    /\ UNCHANGED <<drawn, container, splits, seals, state, failed, bundles,
                   handed>>

Begin ==
    /\ pc = "idle" /\ failed # "s1" /\ state.s1 # 0
    /\ pc' = "s4"
    /\ UNCHANGED <<drawn, container, splits, seals, state, failed, bundles,
                   handed>>

Retry ==
    /\ pc = "idle" /\ failed \in Steps
    /\ pc' = failed
    /\ UNCHANGED <<drawn, container, splits, seals, state, failed, bundles,
                   handed>>

\* Faulty: the id is kept for the next attempt.
KeepsSealId ==
    /\ pc = "s4" /\ (state.seal # 0 \/ seals < MaxSeals)
    /\ seals' = IF state.seal # 0 THEN seals ELSE seals + 1
    /\ state' = [state EXCEPT !.seal = IF @ # 0 THEN @ ELSE seals + 1,
                              !.described = state.s1]
    /\ pc' = "s5"
    /\ UNCHANGED <<drawn, container, splits, failed, bundles, handed>>

\* create_seal_id, build_seal_record: an id of its own; the record describes
\* the container of s1.
SealRecord == [state EXCEPT !.seal = seals + 1, !.described = state.s1]

RunS4 ==
    /\ pc = "s4" /\ seals < MaxSeals
    /\ seals' = seals + 1
    /\ state' = SealRecord
    /\ pc' = "s5"
    /\ UNCHANGED <<drawn, container, splits, failed, bundles, handed>>

\* The record file, its PDF and the signature; without one if signing fails.
RunS5 ==
    /\ pc = "s5"
    /\ state' = [state EXCEPT !.s5 = TRUE]
    /\ pc' = "s6"
    /\ UNCHANGED <<drawn, container, splits, seals, failed, bundles, handed>>

\* Faulty: a split is kept for the next attempt.
KeepsSplit ==
    /\ pc = "s6" /\ Len(splits) < MaxSplits
    /\ splits' = IF state.s6 = 0 THEN SplitKey(splits, state.s1) ELSE splits
    /\ state' = [state EXCEPT !.s6 = Len(splits')]
    /\ pc' = "s7"
    /\ UNCHANGED <<drawn, container, seals, failed, bundles, handed>>

RunS6 ==
    /\ pc = "s6" /\ Len(splits) < MaxSplits
    /\ splits' = SplitKey(splits, state.s1)
    /\ state' = [state EXCEPT !.s6 = Len(splits) + 1]
    /\ pc' = "s7"
    /\ UNCHANGED <<drawn, container, seals, failed, bundles, handed>>

\* run_s7, one transaction of save_seal_bundle; S1, S4, S5 and S6 must be there.
RunS7 ==
    /\ pc = "s7"
    /\ 0 \notin {state.s1, state.seal, state.s6} /\ state.s5
    /\ bundles' = [bundles EXCEPT ![state.seal] =
                     [described |-> state.described, split |-> state.s6]]
    /\ pc' = "answer"
    /\ UNCHANGED <<drawn, container, splits, seals, state, failed, handed>>

\* After the push to the research site (push_seal_record_safe), which nobody
\* sees fail: the SealResult, given to on_complete; what on_complete raises is
\* an error of the workflow like any other.
Answer ==
    /\ pc = "answer"
    /\ handed' = [handed EXCEPT ![state.seal] = @ \cup {state.s6}]
    /\ failed' \in {"none", "s7"}
    /\ pc' = "idle"
    /\ UNCHANGED <<drawn, container, splits, seals, state, bundles>>

Fail ==
    /\ pc \in Steps
    /\ failed' = pc /\ pc' = "idle"
    /\ UNCHANGED <<drawn, container, splits, seals, state, bundles, handed>>

\* The program ends, at any point, and starts again: the state was in memory.
Restart ==
    /\ state' = NoState /\ pc' = "idle" /\ failed' = "none"
    /\ container' \in IF pc = "s1" THEN {container, 0} ELSE {container}
    /\ UNCHANGED <<drawn, splits, seals, bundles, handed>>

SealNext ==
    \/ StartS1 \/ EndS1 \/ FailS1
    \/ Begin \/ Retry
    \/ RunS4 \/ RunS5 \/ RunS6 \/ RunS7 \/ Answer \/ Fail
    \/ Restart

-----------------------------------------------------------------------------

Stored(s) == bundles[s].described # 0

\* Whatever failed, was tried again or was interrupted: the shares stored with
\* a record are of the key of the container that the record describes, and that
\* container is on disk until S1 is run again (run_s4, run_s6 and run_s7 read
\* the state that several calls of run_s1 may have written).
BundleOpens ==
    \A s \in Seals : Stored(s) =>
        LET b == bundles[s] IN
        /\ b.split # 0 /\ splits[b.split] = b.described
        /\ container = b.described \/ b.described < drawn

=============================================================================
