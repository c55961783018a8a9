---------------------------- MODULE MCKeyCustody ----------------------------
(* Values of the constants of KeyCustody for TLC. *)
EXTENDS KeyCustody, TLC

CONSTANTS q1, q2, form1, form2, mariadb

SlotsAndForms == Permutations({q1, q2}) \cup Permutations({form1, form2})
=============================================================================
