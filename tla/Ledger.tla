------------------------------- MODULE Ledger -------------------------------
(***************************************************************************)
(* What a table of the portal promises: an entry that is made stays as it  *)
(* is, and who is told that his entry is there can rely on it.             *)
(***************************************************************************)

CONSTANTS
    Keys, Values,
    Strict,         \* "there" means his own value, not only some value
    None

VARIABLES
    entries,        \* [Keys -> Values \cup {None}]
    told            \* the last one that was told: [key, value], or None

vars == <<entries, told>>

Init == entries = [k \in Keys |-> None] /\ told = None

Enter(k, v) == entries[k] = None /\ entries' = [entries EXCEPT ![k] = v]

Holds(k, v) == IF Strict THEN entries[k] = v ELSE entries[k] # None

Tell(k, v) == told' = [key |-> k, value |-> v] /\ Holds(k, v)'

Next ==
    /\ entries' = entries \/ \E k \in Keys, v \in Values : Enter(k, v)
    /\ told' = None \/ \E k \in Keys, v \in Values : Tell(k, v)

Spec == Init /\ [][Next]_vars

=============================================================================
