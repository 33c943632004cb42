-------------------------------- MODULE WakuNode --------------------------------
(***************************************************************************)
(* The two kinds of node that there are (sdk/src/waku/waku.ts): a relay    *)
(* node (relay/src/create.ts) mounts relay alone, a light node             *)
(* (sdk/src/create/create.ts) mounts store, light push and filter.         *)
(* start, stop and waitForPeers of the node act on what it mounts: on a    *)
(* relay node the wait is for a peer of the GossipSub mesh, on a light     *)
(* node it is that of WaitForRemotePeer.  The mesh and the messages of a    *)
(* relay node share nothing but its start, and the wait of a light node     *)
(* nothing with its queries (StoreQuery), so a node has only one of them.   *)
(***************************************************************************)
EXTENDS Naturals, FiniteSets, Sequences

CONSTANTS
    Topics, Calls, Observers, Messages, MaxRounds,  \* of Relay
    Peers, Callers, Shards, Protocols, Serves, Requests, \* of WaitForRemotePeer
    MaxMessages, Unreadable, Modes, paginationLimit, MAX_PAGE_SIZE, \* of StoreQuery
    FilterNodes, ConfiguredOn, Subscribers, Incoming, MaxPushes \* of FilterSDK

VARIABLES
    kind,   \* "relay" (its messages), "mesh" (a relay node's mesh), "light"
            \* (its wait), "query" (a light node's query) or "filter" (the
            \* filter subscriptions of the light nodes of a process)
    gossip, starting, rounds, subscribed, calls, observers, arrived, reading,
    decoding, received, due, iterator, mesh, meshWait, seen,
    handshakesConfirmed, storedShards, queries,
    status, connected, identifying, wait, timed, wanted, listening, fulfilled,
    pass, served,
    first, last, query, aborted,
    activeSubscriptions, receiverMonitors, monitorOf, subscriptionCallbacks,
    receivedMessages, subscriber, pushes, given

R == INSTANCE Relay
W == INSTANCE WaitForRemotePeer
S == INSTANCE StoreQuery
F == INSTANCE FilterSDK

ASSUME WakuNodeAssumption ==
    /\ R!RelayAssumption
    /\ W!MetadataAssumption /\ W!WaitAssumption
    /\ S!StoreQueryAssumption
    /\ F!FilterAssumption

relayVars == <<gossip, starting, rounds, subscribed, calls, observers, arrived,
               reading, decoding, received, due, iterator, mesh, meshWait, seen>>
lightVars == <<handshakesConfirmed, storedShards, queries, status, connected,
               identifying, wanted, listening, fulfilled, pass, served>>
storeVars == <<first, last, query, aborted>>
filterVars == <<activeSubscriptions, receiverMonitors, monitorOf,
                subscriptionCallbacks, receivedMessages, subscriber, pushes, given>>
vars == <<kind, relayVars, lightVars, wait, timed, storeVars, filterVars>>

TypeOK ==
    /\ kind \in {"relay", "mesh", "light", "query", "filter"}
    /\ R!RelayTypeOK
    /\ W!MetadataTypeOK
    /\ W!WaitTypeOK
    /\ S!TypeOK
    /\ F!FilterTypeOK

Init ==
    /\ kind \in {"relay", "mesh", "light", "query", "filter"}
    /\ R!Init
    /\ W!MetadataInit
    /\ W!WaitInit
    /\ S!Init
    /\ F!FilterInit
    /\ kind # "query" => last = 0

-----------------------------------------------------------------------------
(* A relay node *)

OfRelay == UNCHANGED <<kind, lightVars, wait, timed, storeVars, filterVars>>

RelayStarts == kind \in {"relay", "mesh"} /\ R!StartStep /\ OfRelay
RelayMesh == kind = "mesh" /\ R!MeshStep /\ OfRelay
RelayProcesses == kind = "relay" /\ R!ProcessStep /\ OfRelay
RelayIterates == kind = "relay" /\ R!IteratorStep /\ OfRelay
RelayIsUsed == kind = "relay" /\ R!MessageStep /\ OfRelay

\* WakuNode.start and stop.
StartRelayNode ==
    /\ kind \in {"relay", "mesh"}
    /\ R!StartGossip
    /\ OfRelay

StopRelayNode ==
    /\ kind \in {"relay", "mesh"}
    /\ R!StopGossip
    /\ OfRelay

\* waitForPeers; it throws for a protocol that is not mounted.
RelayNodeWaits(withTimeout) ==
    /\ kind = "mesh"
    /\ wait = "idle"
    /\ IF gossip = "stopped"
       THEN wait' = "threw" /\ UNCHANGED <<relayVars, timed>>
       ELSE wait' = "waiting" /\ timed' = withTimeout /\ R!waitForPeers
    /\ UNCHANGED <<kind, lightVars, storeVars, filterVars>>

RelayNodeFindsPeers ==
    /\ kind = "mesh"
    /\ wait = "waiting" /\ meshWait.at = "done"
    /\ wait' = "resolved"
    /\ UNCHANGED <<kind, relayVars, lightVars, timed, storeVars, filterVars>>

RelayNodeTimeout ==
    /\ kind = "mesh"
    /\ wait = "waiting" /\ timed
    /\ wait' = "rejected"
    /\ UNCHANGED <<kind, relayVars, lightVars, timed, storeVars, filterVars>>

-----------------------------------------------------------------------------
(* A light node *)

OfLight == UNCHANGED <<kind, relayVars, storeVars, filterVars>>

LightPass == kind = "light" /\ W!PassStep /\ OfLight
LightTimeout == kind = "light" /\ W!Timeout /\ OfLight
LightStep == kind = "light" /\ W!WaitNext /\ OfLight

StartLightNode == kind = "light" /\ W!Start /\ OfLight
StopLightNode == kind = "light" /\ W!Stop /\ OfLight

OfQuery == UNCHANGED <<kind, relayVars, lightVars, wait, timed, filterVars>>

QueryGoesOn == kind = "query" /\ S!QueryStep /\ OfQuery
HistoryChanges == kind = "query" /\ (S!Store \/ S!Drop) /\ OfQuery
LightNodeQueries(mode, forward, cursor) ==
    kind = "query" /\ S!Query(mode, forward, cursor) /\ OfQuery

FilterIsUsed ==
    /\ kind = "filter"
    /\ F!FilterStep
    /\ UNCHANGED <<kind, relayVars, lightVars, wait, timed, storeVars>>

-----------------------------------------------------------------------------
Next ==
    \/ RelayStarts \/ RelayMesh \/ RelayProcesses \/ RelayIterates \/ RelayIsUsed
    \/ StartRelayNode \/ StopRelayNode
    \/ \E withTimeout \in BOOLEAN : RelayNodeWaits(withTimeout)
    \/ RelayNodeFindsPeers \/ RelayNodeTimeout
    \/ LightPass \/ LightTimeout \/ LightStep \/ StartLightNode \/ StopLightNode
    \/ HistoryChanges \/ QueryGoesOn
    \/ \E mode \in Modes, forward \in BOOLEAN, cursor \in {S!NoMessage} \cup S!Numbers :
         LightNodeQueries(mode, forward, cursor)
    \/ FilterIsUsed

Spec == Init /\ [][Next]_vars

\* Awaited promises and timers come; a consumer of the iterator
\* keeps asking.  Every handshake is answered or fails; so is every request
\* of a query, and its callbacks return.
FairSpec ==
    /\ Spec
    /\ WF_vars(RelayIterates)
    /\ WF_vars(RelayProcesses)
    /\ WF_vars(LightPass)
    /\ WF_vars(QueryGoesOn)

-----------------------------------------------------------------------------
\* An observer that was registered when a message arrived, and still is, gets it
\* if it can decode it, whatever other observers do (Relay.processIncomingMessage).
ObserversAreServed == R!ObserversAreServed

\* A callback gets only valid messages of its own topics, and a message at most
\* once per listener (Relay.gossipSubSubscribe, processIncomingMessage).
DeliveredAsSubscribed == R!DeliveredAsSubscribed

\* After stop, a consumer that keeps asking comes to the end of the iterator
\* (toAsyncIterator).
IteratorEnds == R!IteratorEnds

\* When every wanted protocol has had an answer from some peer, or the pass over
\* the peers has come to its end, the wait is over (waitForMetadata).
AnsweredWaitEnds == kind = "light" => W!AnsweredWaitEnds

\* A wait that finds peers connected ends without a timeout when no handshake is
\* left unanswered, whatever the peers serve (waitForMetadata).
WaitWithPeersEnds == W!WaitWithPeersEnds

\* A wait that resolves has found peers that serve what was waited for, "A
\* promise that resolves if all desired protocols are fulfilled by remote
\* nodes" (wait_for_remote_peer.ts).
ResolvedMeansFulfilled == kind = "light" => W!ResolvedMeansFulfilled

\* The pages of a query join without a gap, an overlap or a repetition while
\* the service node stores and drops messages (StoreCore.queryPerPage).
PagesJoin == S!PagesJoin

\* A query that returns undisturbed has delivered all it asked for that the
\* service node had at the first reply and has kept (StoreCore.queryPerPage).
QueryIsComplete == S!QueryIsComplete

\* A query that goes backward ends whatever the service node stores meanwhile,
\* one that goes forward once it stores nothing more (StoreCore.queryPerPage).
QueryEnds == S!QueryEnds

\* A call of subscribe that has returned is the one its node gives the messages
\* of its topics to, whatever calls for other topics run beside it
\* (Filter.createSubscription).
SubscriberIsReached == F!SubscriberIsReached

\* A message that several service nodes push is given to a callback of a node
\* once (ReliabilityMonitorManager.createReceiverMonitor).
GivenOnce == F!GivenOnce

\* When waitForPeers of a relay node with topics resolves, it has seen a mesh
\* peer of one of them.
RelayWaitMeansPeer ==
    kind = "mesh" /\ wait = "resolved" /\ Topics # <<>> => seen # {}

-----------------------------------------------------------------------------
\* Relay gives messages to the observers they are for, and to no other, while
\* observers come and go and the relay stops and starts.
RelayDelivers == R!RelayTypeOK /\ ObserversAreServed /\ DeliveredAsSubscribed

\* Filter does so for calls of subscribe.
FilterDelivers == F!FilterTypeOK /\ SubscriberIsReached /\ GivenOnce

\* A history query delivers the history it was asked for.
QueryExact == S!TypeOK /\ PagesJoin /\ QueryIsComplete

\* A wait is over when what it waits for is there, and not before, as far as
\* the code keeps that (waitForRemotePeer; see ResolvedMeansFulfilled).
WaitsAnswered ==
    /\ W!MetadataTypeOK /\ W!WaitTypeOK
    /\ AnsweredWaitEnds /\ RelayWaitMeansPeer

\* Iterators and waits come to their end, and so do queries, forward ones when
\* the service node stores nothing more.
NodeProgresses == IteratorEnds /\ WaitWithPeersEnds /\ QueryEnds
=============================================================================
