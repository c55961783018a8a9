---------------------------- MODULE MCCaseStore ----------------------------
(* Model values and bounds for CaseStore. *)
EXTENDS CaseStore, TLC

CONSTANTS i1, i2
MCIds == {i1, i2}
Symmetry == Permutations(MCIds)

=============================================================================
