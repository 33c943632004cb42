--------------------- MODULE MCReceiverReliabilityMonitor ---------------------
(* Finite instances of ReceiverReliabilityMonitor for TLC. *)
EXTENDS ReceiverReliabilityMonitor, TLC

CONSTANTS p1, p2, t1, t2, t3

OnePeer == {p1}
TwoPeers == {p1, p2}
TwoTasks == {t1, t2}
ThreeTasks == {t1, t2, t3}
OneAndTwo == {1, 2}

IdSymmetry == Permutations(Peers) \cup Permutations(Tasks)
=============================================================================
