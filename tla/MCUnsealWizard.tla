--------------------------- MODULE MCUnsealWizard ---------------------------
(* UnsealWizard for TLC: its only constant is a number. *)
EXTENDS UnsealWizard
=============================================================================
