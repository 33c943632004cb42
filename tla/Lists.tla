--------------------------------- MODULE Lists ---------------------------------
(***************************************************************************)
(* What Array.filter, Array.sort and new Set make of a list, said by the   *)
(* places of the list they take, without recursion.                        *)
(***************************************************************************)
EXTENDS Integers, FiniteSets, Sequences

\* The elements of a list at some of its places, in an order of these places
\* that gives for each the places up to it.
Arranged(list, upTo) ==
    [k \in 1 .. Cardinality(DOMAIN upTo) |->
        list[CHOOSE i \in DOMAIN upTo : Cardinality(upTo[i]) = k]]

\* The elements at some places, in the order of the list.
ElementsAt(list, places) ==
    Arranged(list, [i \in places |-> {j \in places : j <= i}])

\* The elements of a list that are in a set, in the order of the list.
Keep(list, some) == ElementsAt(list, {i \in DOMAIN list : list[i] \in some})

\* Array.from(new Set(list)): each value once, where it came first.
Deduplicated(list) ==
    ElementsAt(list, {i \in DOMAIN list : \A j \in 1 .. i - 1 : list[j] # list[i]})
=============================================================================
