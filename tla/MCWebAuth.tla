------------------------------ MODULE MCWebAuth ------------------------------
(* Model values and bounds for WebAuth. *)
EXTENDS WebAuth, TLC

CONSTANTS b1, b2, a1, q1, q2, c1, f1, f2, f3

\* Two browsers behind one address.
OneAddress == [b \in Browsers |-> a1]

OtpChain == <<"basic", "otp">>
=============================================================================
