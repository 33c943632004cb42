------------------------------- MODULE PeerStore -------------------------------
(***************************************************************************)
(* The peer store of libp2p, as the discovery services of @waku/discovery  *)
(* use it: what it holds of a peer, and its three ways to write.  It is    *)
(* in memory and gone with the node.                                       *)
(***************************************************************************)
EXTENDS Naturals, FiniteSets

CONSTANTS
    Peers,      \* the remote peers there are
    Versions    \* versions of a peer's addresses and shards; 0 is none

ASSUME PeerStoreAssumption == Versions \subseteq Nat \ {0}

VARIABLES
    store,      \* what is known of each peer
    announced   \* the peers for which a "peer" event was dispatched

None == 0
TagNames == {"bootstrap", "peer-exchange", "local-peer-cache"}

Unknown == [known |-> FALSE, tags |-> {}, addresses |-> None, shards |-> None]

PeerStoreTypeOK ==
    /\ store \in [Peers -> [known : BOOLEAN, tags : SUBSET TagNames,
                            addresses : Versions \cup {None},
                            shards : Versions \cup {None}]]
    /\ announced \subseteq Peers

\* save replaces what was known; merge adds tags; patch sets what it is given.
Saved(p, tag, addresses, shards) ==
    [store EXCEPT ![p] = [known |-> TRUE, tags |-> {tag},
                          addresses |-> addresses, shards |-> shards]]
MergedTag(p, tag) ==
    [store EXCEPT ![p] = [store[p] EXCEPT !.known = TRUE,
                                          !.tags = store[p].tags \cup {tag}]]
Patched(p, addresses) ==
    [store EXCEPT ![p] = [store[p] EXCEPT !.known = TRUE, !.addresses = addresses]]
MergedShards(p, shards) ==
    [store EXCEPT ![p] = [store[p] EXCEPT !.known = TRUE, !.shards = shards]]
=============================================================================
