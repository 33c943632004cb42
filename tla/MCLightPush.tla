----------------------------- MODULE MCLightPush -----------------------------
(* A finite instance of LightPush for TLC. *)
EXTENDS LightPush

CONSTANTS p1, p2, s1, s2

TwoPeers == {p1, p2}
OneSend == {s1}
TwoSends == {s1, s2}
GoodThenEmpty == [s \in Sends |-> IF s = s1 THEN {"good"} ELSE {"empty"}]
=============================================================================
