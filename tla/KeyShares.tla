----------------------------- MODULE KeyShares -----------------------------
(***************************************************************************)
(* AES keys split in four shares, two of which give the key back           *)
(* (desktop/crypto/sss_split.py and sss_recover.py).                       *)
(*                                                                         *)
(* Splits are numbered in the order in which they are made: splits[n] is   *)
(* the key of the n-th.  The polynomial of a split is random, so that      *)
(* shares of two splits have nothing to do with each other, even if the    *)
(* key is the same.                                                        *)
(***************************************************************************)
EXTENDS Naturals, Sequences

CONSTANTS MaxSeals, MaxSplits       \* bounds on the seal ids and the splits

ASSUME KeySharesAssumption == MaxSeals \in Nat /\ MaxSplits \in Nat

Seals == 1..MaxSeals
Share == [split : 1..MaxSplits, index : 1..4]

\* split_key
SplitKey(splits, key) == Append(splits, key)

\* recover_key with two share strings: 0 stands for the error of two shares
\* with one index, and for the number that shares of two splits give, which
\* is the key of nothing.
RecoverKey(splits, a, b) ==
    IF a.split = b.split /\ a.index # b.index THEN splits[a.split] ELSE 0

=============================================================================
