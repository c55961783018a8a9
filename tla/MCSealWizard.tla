---------------------------- MODULE MCSealWizard ----------------------------
(* Values of the constants of SealWizard for TLC. *)
EXTENDS SealWizard, TLC

CONSTANTS f1, f2, p1, p2

\* Two evidence files with different names.
TwoOutputs == f1 :> p1 @@ f2 :> p2
=============================================================================
