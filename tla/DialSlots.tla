------------------------------ MODULE DialSlots ------------------------------
(***************************************************************************)
(* What maxParallelDials promises, free of how it is kept: a pool of at    *)
(* most "limit" slots, each held by one dial.  A dial takes a slot only    *)
(* when one is free and returns exactly its own.  ConnectionManager, which *)
(* only keeps a number, implements this specification.                     *)
(***************************************************************************)
EXTENDS Naturals, FiniteSets

CONSTANTS Users, limit

VARIABLE holders   \* the users that hold a slot

Init == holders = {}

Acquire(u) ==
    /\ u \notin holders
    /\ Cardinality(holders) < limit
    /\ holders' = holders \cup {u}

Release(u) ==
    /\ u \in holders
    /\ holders' = holders \ {u}

Next == \E u \in Users : Acquire(u) \/ Release(u)

Spec == Init /\ [][Next]_holders
=============================================================================
