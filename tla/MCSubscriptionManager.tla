------------------------- MODULE MCSubscriptionManager -------------------------
(* Finite instances of SubscriptionManager for TLC. *)
EXTENDS SubscriptionManager

CONSTANTS p1, p2, a, m1, c1, c2

TwoPeers == {p1, p2}
OneTopic == {a}
OneMessage == {m1}
TopicA == [m \in Messages |-> a]
TwoCalls == {c1, c2}
=============================================================================
