----------------------------- MODULE LocalPeerCache -----------------------------
(***************************************************************************)
(* Local peer cache discovery of @waku/discovery                           *)
(* (discovery/src/local-peer-cache/index.ts): the addresses of peers that  *)
(* were identified are written to local storage, and a node that starts    *)
(* reads them back.  Local storage outlives the node; one node at a time   *)
(* uses it.                                                                *)
(***************************************************************************)
EXTENDS PeerStore, Sequences, SequencesExt

CONSTANT MaxRestarts  \* bound on the nodes that are created one after another

\* What is assumed of the constants, where this module is instantiated.
LocalPeerCacheAssumption == MaxRestarts \in Nat

VARIABLES
    localStorage,  \* the stored address of each peer, or None
    peers,         \* this.peers, likewise
    registered,    \* handleNewPeers is registered
    started,       \* isStarted
    loop,          \* the loop of start: whether it waits for has or for save,
                   \* the peers left, and the list it goes over
    restarts,      \* how many nodes there were
    latest         \* the last address at which the peer was identified

cacheVars == <<localStorage, peers, registered, started, loop, restarts, latest>>

NotLooping == [at |-> "off", left |-> <<>>, cache |-> [p \in Peers |-> None]]
Addresses == Versions \cup {None}

TypeOK ==
    /\ localStorage \in [Peers -> Addresses]
    /\ peers \in [Peers -> Addresses]
    /\ registered \in BOOLEAN /\ started \in BOOLEAN
    /\ loop.at \in {"off", "has", "save", "over"}
    /\ loop.left \in Seq(Peers)
    /\ loop.at \in {"has", "save"} => loop.left # <<>>
    /\ loop.cache \in [Peers -> Addresses]
    /\ restarts \in 0 .. MaxRestarts
    /\ latest \in [Peers -> Addresses]

Init ==
    /\ localStorage = [p \in Peers |-> None]
    /\ peers = localStorage
    /\ registered = FALSE /\ started = FALSE
    /\ loop = NotLooping
    /\ restarts = 0
    /\ latest = localStorage

-----------------------------------------------------------------------------
Stored(cache) == {p \in Peers : cache[p] # None}

\* savePeersToLocalStorage: the quota may be used up, and this is only logged.
\* What it writes is the whole of this.peers.
savePeersToLocalStorage(cache) ==
    \/ localStorage' = cache
    \/ UNCHANGED localStorage

\* The loop goes on with the peers left; the mutant leaves it after one.
LeavesLoop(left) == [NotLooping EXCEPT !.at = "over"]
NextPeer(left) == IF left = <<>> THEN [NotLooping EXCEPT !.at = "over"]
                   ELSE [loop EXCEPT !.at = "has", !.left = left]

\* start, up to the first await: the listener, and the list of peers, which is
\* not the one that handleNewPeers makes meanwhile.
start ==
    /\ ~started /\ loop.at = "off"
    /\ registered' = TRUE
    /\ \E order \in SetToSeqs(Stored(peers)) :
         loop' = IF order = <<>> THEN [NotLooping EXCEPT !.at = "over"]
                 ELSE [at |-> "has", left |-> order, cache |-> peers]
    /\ UNCHANGED <<localStorage, peers, started, restarts, latest, store, announced>>

\* peerStore.has resolves; a known peer is passed over.
Has ==
    /\ loop.at = "has"
    /\ loop' = IF store[Head(loop.left)].known THEN NextPeer(Tail(loop.left))
               ELSE [loop EXCEPT !.at = "save"]
    /\ UNCHANGED <<localStorage, peers, registered, started, restarts, latest,
                   store, announced>>

\* peerStore.save resolves and the peer is announced, though it may have been
\* identified since.
Save ==
    LET p == Head(loop.left) IN
    /\ loop.at = "save"
    /\ store' = Saved(p, "local-peer-cache", loop.cache[p], None)
    /\ announced' = announced \cup {p}
    /\ loop' = NextPeer(Tail(loop.left))
    /\ UNCHANGED <<localStorage, peers, registered, started, restarts, latest>>

\* peerStore.has or peerStore.save rejects, and start with it: the peers left are
\* not read back, the node is not started, and its listener stays.
LoopThrows ==
    /\ loop.at \in {"has", "save"}
    /\ loop' = NotLooping
    /\ UNCHANGED <<localStorage, peers, registered, started, restarts, latest,
                   store, announced>>

StartReturns ==
    /\ loop.at = "over"
    /\ loop' = NotLooping
    /\ started' = TRUE
    /\ UNCHANGED <<localStorage, peers, registered, restarts, latest, store,
                   announced>>

\* stop, before start has returned, does nothing.  removeEventListener is given
\* the function that was registered.
stop ==
    /\ started
    /\ registered' = FALSE
    /\ started' = FALSE
    /\ savePeersToLocalStorage(peers)
    /\ UNCHANGED <<peers, loop, restarts, latest, store, announced>>

\* What handleNewPeers starts from; the mutant forgets what is stored.  Where
\* there is no local storage, reading and writing both fail, and localStorage
\* stays empty.  A text under its key that is no list, which is taken for nothing
\* and then written over, is none that this code has stored: it is not modelled.
FromNothing == [p \in Peers |-> None]
getPeersFromLocalStorage == localStorage

\* A peer is identified at a WebSocket address, which libp2p has written to the
\* peer store; a peer without one makes the listener throw and changes nothing.
handleNewPeers(p, address) ==
    /\ registered
    /\ store' = Patched(p, address)
    /\ peers' = [getPeersFromLocalStorage EXCEPT ![p] = address]
    /\ savePeersToLocalStorage(peers')
    /\ latest' = [latest EXCEPT ![p] = address]
    /\ UNCHANGED <<registered, started, loop, restarts, announced>>

\* The node dies or its page is closed at any moment, and a new one is made
\* (a step of the whole node, in the module Discovery).
Restart ==
    /\ restarts < MaxRestarts
    /\ restarts' = restarts + 1
    /\ peers' = getPeersFromLocalStorage
    /\ registered' = FALSE /\ started' = FALSE
    /\ loop' = NotLooping
    /\ store' = [p \in Peers |-> Unknown]
    /\ announced' = {}
    /\ UNCHANGED <<localStorage, latest>>

LoopStep == Has \/ Save \/ LoopThrows \/ StartReturns

OtherStep ==
    \/ start \/ stop
    \/ \E p \in Peers, address \in Versions : handleNewPeers(p, address)

-----------------------------------------------------------------------------
\* Memory knows every peer that is stored, at the address where it was last
\* identified or at the stored one.
MemoryCoversStorage ==
    /\ Stored(localStorage) \subseteq Stored(peers)
    /\ \A p \in Stored(localStorage) :
         peers[p] = latest[p] \/ peers[p] = localStorage[p]

\* A node that has started knows every peer of its cache, whichever were
\* identified while it went over them.
CachedPeersKnown == started => \A p \in Stored(peers) : store[p].known

-----------------------------------------------------------------------------
\* The addresses in the peer store are those last identified: not so when a
\* peer is identified between has and save.
AddressesAreLatest ==
    \A p \in Peers : latest[p] # None /\ store[p].known =>
        store[p].addresses = latest[p]
=============================================================================
