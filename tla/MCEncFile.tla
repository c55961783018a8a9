------------------------------ MODULE MCEncFile ------------------------------
EXTENDS EncFile

\* Two sources with the same output path: SealProcess names it after the stem.
TwoNames == [s \in Sources |-> s]
OneName == [s \in Sources |-> "name"]
=============================================================================
