------------------------------- MODULE Discovery -------------------------------
(***************************************************************************)
(* The discovery services of a node (sdk/src/create/discovery.ts) over the *)
(* one peer store that they share: their steps between two awaits          *)
(* interleave.  libp2p starts them one after another when the node starts; *)
(* here each may be started at any moment.                                 *)
(***************************************************************************)
EXTENDS PeerStore, Sequences

CONSTANTS
    Deployments,  \* which of "exchange", "dns", "cache" the node has
    Servers, Chains, Records, MaxRecords, maxRetries,
    Subdomains, Domain, EntryType, Children, NodeOf, Capabilities, Wanted,
    errorTolerance,
    MaxRestarts

ASSUME DiscoveryAssumption ==
    Deployments \subseteq SUBSET {"exchange", "dns", "cache"}

VARIABLES
    services,                                            \* the node's
    listening, queryingPeers, queryAttempts, chain,      \* peer exchange
    _started, find, cached,                              \* DNS
    localStorage, peers, registered, started, loop, restarts, latest  \* cache

Exchange == INSTANCE PeerExchangeDiscovery
Dns == INSTANCE DnsDiscovery
Cache == INSTANCE LocalPeerCache

ASSUME ServicesAssumption ==
    /\ Exchange!PeerExchangeAssumption
    /\ Dns!DnsDiscoveryAssumption
    /\ Cache!LocalPeerCacheAssumption

exchangeVars == <<listening, queryingPeers, queryAttempts, chain>>
dnsVars == <<_started, find, cached>>
cacheVars == <<localStorage, peers, registered, started, loop, restarts, latest>>
vars == <<services, exchangeVars, dnsVars, cacheVars, store, announced>>

TypeOK ==
    /\ services \in Deployments
    /\ PeerStoreTypeOK
    /\ Exchange!TypeOK /\ Dns!TypeOK /\ Cache!TypeOK

Init ==
    /\ services \in Deployments
    /\ store = [p \in Peers |-> Unknown]
    /\ announced = {}
    /\ Exchange!Init /\ Dns!Init /\ Cache!Init

-----------------------------------------------------------------------------
OfExchange == "exchange" \in services /\ UNCHANGED <<services, dnsVars, cacheVars>>
OfDns == "dns" \in services /\ UNCHANGED <<services, exchangeVars, cacheVars>>
OfCache == "cache" \in services /\ UNCHANGED <<services, exchangeVars, dnsVars>>

ChainStep(c) == Exchange!ChainStep(c) /\ OfExchange
FindStep == Dns!FindStep /\ OfDns
LoopStep == Cache!LoopStep /\ OfCache

\* The services of a new node start from nothing but the local storage.
NodeRestarts ==
    /\ "cache" \in services
    /\ Cache!Restart
    /\ listening' = FALSE
    /\ queryingPeers' = {}
    /\ queryAttempts' = [p \in Servers |-> 0]
    /\ chain' = [c \in Chains |-> Exchange!NoChain]
    /\ _started' = FALSE
    /\ find' = Dns!NotFinding
    /\ cached' = {}
    /\ UNCHANGED services

Next ==
    \/ Exchange!StartStep /\ OfExchange
    \/ \E c \in Chains : ChainStep(c)
    \/ Dns!StartStep /\ OfDns
    \/ FindStep
    \/ Cache!OtherStep /\ OfCache
    \/ LoopStep
    \/ NodeRestarts

Spec == Init /\ [][Next]_vars

FairSpec ==
    /\ Spec
    /\ \A c \in Chains : WF_vars(ChainStep(c))
    /\ WF_vars(FindStep)
    /\ WF_vars(LoopStep)

-----------------------------------------------------------------------------
\* Peer exchange: one chain of queries per peer, however often the peer is
\* identified again.
OneChainPerPeer == Exchange!OneChainPerPeer

\* Peer exchange: every chain of queries comes to an end.
ChainsEnd == Exchange!ChainsEnd

\* DNS: no search comes to a record that an earlier one has returned, unless
\* the record hangs under no branch.
RecordsDiffer == Dns!RecordsDiffer

\* DNS: no more peers become bootstrap peers than capabilities are wanted.
NoPeerTooMany == Dns!NoPeerTooMany

\* DNS: the search ends, whatever circles and dead ends the branches of the tree
\* make, unless it comes to roots that lead only to roots.
SearchEnds == Dns!SearchEnds

\* Cache: memory knows every peer that is stored.
MemoryCoversStorage == Cache!MemoryCoversStorage

\* Cache: a node that has started knows every peer of its cache.
CachedPeersKnown == Cache!CachedPeersKnown

\* The three services keep to what they are allowed to ask and to forget,
\* whichever of them share the peer store.
DiscoverySafe ==
    /\ TypeOK
    /\ OneChainPerPeer
    /\ RecordsDiffer /\ NoPeerTooMany
    /\ MemoryCoversStorage /\ CachedPeersKnown

\* Neither peer exchange nor DNS discovery goes on asking for ever, the latter
\* unless its tree has roots that lead only to roots.
DiscoveryEnds == ChainsEnd /\ SearchEnds

\* A peer that is stored stays stored, over writes that fail and nodes that
\* die, and the peers of several nodes add up.
NothingForgotten ==
    [][Cache!Stored(localStorage) \subseteq Cache!Stored(localStorage')]_vars

-----------------------------------------------------------------------------
\* A bootstrap peer stays one: not so when peer exchange has found the peer
\* unknown before DNS saves it, or finds nothing new in its record, and saves it.
TagsSurvive ==
    [][\A p \in Peers : "bootstrap" \in store[p].tags =>
                          "bootstrap" \in store'[p].tags \/ ~store'[p].known]_vars
=============================================================================
