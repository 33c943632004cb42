------------------------- MODULE MCConnectionManager -------------------------
(* Finite instances of ConnectionManager for TLC. *)
EXTENDS ConnectionManager, TLC

CONSTANTS p1, p2, c1, c2, h1

OnePeer == {p1}
TwoPeers == {p1, p2}
NoPeers == {}

TwoCalls == {c1, c2}

OneHandler == {h1}

\* Calls are interchangeable identities.
IdSymmetry == Permutations(Calls)
=============================================================================
