----------------------------- MODULE SealedFile -----------------------------
(***************************************************************************)
(* What encrypt_file promises, whatever it does to get there: a call ends  *)
(* without a result, or returns a container that holds the whole source    *)
(* for its key, each unit as it was at some time of the call.  Of the      *)
(* calls before it nothing is left.  If the promise is Sound, a container  *)
(* can be decrypted, but for one case: the call resumed an earlier one and *)
(* its source was edited meanwhile.  Never does it hold other text.        *)
(***************************************************************************)
EXTENDS Naturals

CONSTANTS
  Keys, Sources,
  Units,     \* of a source
  Sound,     \* a container can be decrypted if nothing changed under the call
  None

VARIABLES
  ver,       \* the version each source is at
  call,      \* the call that runs: [src, key, from, resumes], or None; "from"
             \* is the version the source was at when it began
  holds      \* what the last call returned: [key, text], or None; the text
             \* is None if it cannot be decrypted

vars == <<ver, call, holds>>

\* The text of s when unit u is of the version w[u].
Text(s, w) == [u \in Units |-> [src |-> s, unit |-> u, ver |-> w[u]]]

\* The texts that reading s may give since it was at version v.
Texts(s, v) == {Text(s, w) : w \in [Units -> v..ver[s]]}

Init ==
  /\ ver = [s \in Sources |-> 1]
  /\ call = None
  /\ holds = None

Begin(s, k) ==
  /\ call = None
  /\ \E r \in BOOLEAN : call' = [src |-> s, key |-> k, from |-> ver[s], resumes |-> r]
  /\ holds' = None
  /\ UNCHANGED ver

Edit(s) ==
  /\ ver' = [ver EXCEPT ![s] = @ + 1]
  /\ UNCHANGED <<call, holds>>

GiveUp ==
  /\ call # None
  /\ call' = None
  /\ UNCHANGED <<ver, holds>>

\* A call that resumes takes the hash of the source before it reads the rest of
\* it: the hash of a source that changes meanwhile may be of no text it gives.
Refusable == ~Sound \/ (call.resumes /\ ver[call.src] # call.from)

Seal ==
  /\ call # None
  /\ call' = None
  /\ \E t \in Texts(call.src, call.from) \cup (IF Refusable THEN {None} ELSE {}) :
       holds' = [key |-> call.key, text |-> t]
  /\ UNCHANGED ver

Next == \/ \E s \in Sources, k \in Keys : Begin(s, k)
        \/ \E s \in Sources : Edit(s)
        \/ GiveUp
        \/ Seal

Spec == Init /\ [][Next]_vars
=============================================================================
