-------------------------- MODULE MCBaseProtocolSDK --------------------------
(* A finite instance of BaseProtocolSDK for TLC. *)
EXTENDS BaseProtocolSDK

CONSTANTS p1, p2, t1, t2

TwoPeers == {p1, p2}
NoBootstrap == {}

OneTask == {t1}
TwoTasks == {t1, t2}

OnlyTwo == {2}
=============================================================================
