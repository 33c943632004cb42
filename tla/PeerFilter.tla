------------------------------ MODULE PeerFilter ------------------------------
(***************************************************************************)
(* BaseProtocol.getPeers of @waku/core (core/src/lib/base_protocol.ts): a  *)
(* protocol takes the peers of the peer store that speak it and are        *)
(* connected, picks some (filterPeersByDiscovery, core/src/lib/            *)
(* filterPeers.ts) and orders them by latency (sortPeersByLatency,         *)
(* utils/src/libp2p/index.ts).  It fills up with random peers, so this is  *)
(* a module of steps: each Pick is one round of that loop.                 *)
(***************************************************************************)
EXTENDS Lists, Integers, SequencesExt

CONSTANTS
    Peers,              \* peers of the peer store
    Bootstrap,          \* those tagged "bootstrap"
    StoreOrders,        \* the orders the peer store may list them in
    Pings,              \* what the peer store may have as a latency
    MaxNumber           \* bound on the two numbers a caller may ask for

\* No latency is stored.
NoPing == -1

ASSUME PeerFilterAssumption ==
    /\ IsFiniteSet(Peers)
    /\ Bootstrap \subseteq Peers
    /\ \A s \in StoreOrders :
         s \in Seq(Peers) /\ IsInjective(s) /\ Range(s) = Peers
    /\ MaxNumber \in Nat
    /\ Pings \subseteq Nat \cup {NoPing}

VARIABLES
    peerStore,                           \* the peers, in the store's order
    speaking, connectedTo,               \* those with the protocol; connected
    numPeers, maxBootstrapPeers,         \* the arguments
    peers,                               \* those available to the call
    selectedPeers, nonBootstrapPeers,    \* the locals of the loop
    ping,                                \* latencies read, by peer
    progress            \* "called", "picking", "sorting" or "done"

selectionVars == <<peerStore, speaking, connectedTo, numPeers, maxBootstrapPeers,
                   peers, selectedPeers, nonBootstrapPeers, ping, progress>>

FirstOf(s, n) == SubSeq(s, 1, IF n < Len(s) THEN n ELSE Len(s))

SelectionInit ==
    /\ peerStore \in StoreOrders
    /\ \E u \in [Peers -> {"available", "disconnected", "other"}] :
          /\ speaking = {p \in Peers : u[p] # "other"}
          /\ connectedTo = {p \in Peers : u[p] # "disconnected"}
    /\ numPeers \in 0 .. MaxNumber
    /\ maxBootstrapPeers \in 0 .. MaxNumber
    /\ peers = <<>> /\ selectedPeers = <<>> /\ nonBootstrapPeers = <<>>
    /\ ping = <<>>
    /\ progress = "called"

\* allPeers: getPeersForProtocol reads the whole peer store.
allPeers == Keep(peerStore, speaking)

\* connectedPeers
connectedPeers == Keep(allPeers, connectedTo)

\* The bootstrap peers taken: as many as allowed, and as asked for unless 0.
BootstrapTaken(available) ==
    LET allowed == FirstOf(Keep(available, Bootstrap), maxBootstrapPeers)
    IN  IF numPeers > 0 /\ numPeers < Len(allowed)
        THEN FirstOf(allowed, numPeers) ELSE allowed

\* The peer store has been read: from here to the latencies nothing is awaited.
Available ==
    /\ progress = "called"
    /\ peers' = connectedPeers
    /\ selectedPeers' = BootstrapTaken(peers')
    /\ nonBootstrapPeers' = Keep(peers', Peers \ Bootstrap)
    /\ progress' = "picking"
    /\ UNCHANGED <<peerStore, speaking, connectedTo, numPeers,
                   maxBootstrapPeers, ping>>

\* numPeers 0: every other peer is taken.
TakeAll ==
    /\ progress = "picking"
    /\ numPeers = 0
    /\ selectedPeers' = selectedPeers \o nonBootstrapPeers
    /\ progress' = "sorting"
    /\ UNCHANGED <<peerStore, speaking, connectedTo, numPeers,
                   maxBootstrapPeers, peers, nonBootstrapPeers, ping>>

\* Whether the loop goes on; the mutant is off by one.
OnePeerTooMany == Len(selectedPeers) <= numPeers /\ nonBootstrapPeers # <<>>
MorePeers == Len(selectedPeers) < numPeers /\ nonBootstrapPeers # <<>>

\* One round of the loop: splice a random peer.
Pick(i) ==
    /\ progress = "picking"
    /\ numPeers # 0
    /\ MorePeers
    /\ selectedPeers' = Append(selectedPeers, nonBootstrapPeers[i])
    /\ nonBootstrapPeers' = RemoveAt(nonBootstrapPeers, i)
    /\ UNCHANGED <<peerStore, speaking, connectedTo, numPeers,
                   maxBootstrapPeers, peers, ping, progress>>

Picked ==
    /\ progress = "picking"
    /\ numPeers # 0
    /\ ~MorePeers
    /\ progress' = "sorting"
    /\ UNCHANGED <<peerStore, speaking, connectedTo, numPeers,
                   maxBootstrapPeers, peers, selectedPeers, nonBootstrapPeers,
                   ping>>

\* a.ping - b.ping < 0, where no latency is Infinity.  The mutant takes it for
\* the least.
BeforeAsRead(a, b) == a < b
Before(a, b) == a # NoPing /\ (b = NoPing \/ a < b)

\* Array.sort is stable: equals stay in order.
Sorted(list, latency) ==
    LET Earlier(i, j) ==
            \/ Before(latency[list[i]], latency[list[j]])
            \/ ~Before(latency[list[j]], latency[list[i]]) /\ i <= j
    IN  Arranged(list, [j \in DOMAIN list |-> {i \in DOMAIN list : Earlier(i, j)}])

\* sortPeersByLatency, at its end: the latencies were read one by one from the
\* peer store, where pings write them meanwhile; a peer that is gone from it
\* has none.
SortPeers(latency) ==
    /\ progress = "sorting"
    /\ ping' = latency
    /\ selectedPeers' = Sorted(selectedPeers, latency)
    /\ progress' = "done"
    /\ UNCHANGED <<peerStore, speaking, connectedTo, numPeers,
                   maxBootstrapPeers, peers, nonBootstrapPeers>>

SelectionNext ==
    \/ Available
    \/ TakeAll
    \/ \E i \in DOMAIN nonBootstrapPeers : Pick(i)
    \/ Picked
    \/ \E latency \in [Range(selectedPeers) -> Pings] : SortPeers(latency)

SelectionSpec == SelectionInit /\ [][SelectionNext]_selectionVars

-----------------------------------------------------------------------------
Least(a, b) == IF a < b THEN a ELSE b

\* What is returned: distinct peers out of those available, never more
\* bootstrap peers than allowed, exactly as many peers as asked for when there
\* are enough, and no other peer in place of a bootstrap peer that was allowed.
SelectionExact ==
    progress = "done" =>
        LET available == speaking \cap connectedTo
            allowed == Least(maxBootstrapPeers, Cardinality(available \cap Bootstrap))
            others == Cardinality(available \ Bootstrap)
        IN  /\ IsInjective(selectedPeers)
            /\ Range(selectedPeers) \subseteq available
            /\ Len(selectedPeers) =
                 IF numPeers = 0 THEN allowed + others
                 ELSE Least(numPeers, allowed + others)
            /\ Cardinality(Range(selectedPeers) \cap Bootstrap) =
                 IF numPeers = 0 THEN allowed ELSE Least(numPeers, allowed)

\* The peer a light push or a store query tries first is the one with the
\* least latency known: a peer whose latency is not known comes after all
\* others, and the order is by latency throughout.
FastestFirst ==
    progress = "done" =>
        \A i, j \in DOMAIN selectedPeers :
            i < j /\ ping[selectedPeers[j]] # NoPing =>
                /\ ping[selectedPeers[i]] # NoPing
                /\ ping[selectedPeers[i]] <= ping[selectedPeers[j]]

\* getPeers returns the right peers in the right order.
PeersChosen == SelectionExact /\ FastestFirst

-----------------------------------------------------------------------------
\* "If 0, all peers are returned, irrespective of maxBootstrapPeers"
\* (filterPeers.ts).
AllWhenZero ==
    progress = "done" /\ numPeers = 0 => Range(selectedPeers) = Range(peers)
=============================================================================
