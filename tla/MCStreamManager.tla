--------------------------- MODULE MCStreamManager ---------------------------
(* A finite instance of StreamManager for TLC. *)
EXTENDS StreamManager

CONSTANTS g1, g2, r1, r2

TwoGets == {g1, g2}
TwoPromises == {r1, r2}
=============================================================================
