--------------------------- MODULE MCResealWizard ---------------------------
(* Values of the constants of ResealWizard for TLC. *)
EXTENDS ResealWizard, TLC

CONSTANTS f1, f2, p1, p2

\* A file of the record and a new one, with different stems.
TwoOutputs == f1 :> p1 @@ f2 :> p2
=============================================================================
