-------------------------- MODULE ConnectionManager --------------------------
(***************************************************************************)
(* The connection manager of @waku/core (core/src/lib/connection_manager.ts)*)
(* with its keep-alive timers, over a libp2p node that is modelled from how *)
(* the class uses it.                                                      *)
(*                                                                         *)
(* JavaScript runs one callback at a time: a step of this module is the    *)
(* code between two awaits.  Every running attemptDial() is a member of    *)
(* Calls, every running peer:connect handler a member of Handlers.         *)
(*                                                                         *)
(* A call's "at" is the await it is suspended in:                          *)
(*   discovered  dispatchDiscoveryEvent, in the peer:discovery handler     *)
(*   shard       isPeerTopicConfigured                                     *)
(*   bootstrap   the tag lookup of isPeerDialableBasedOnBootstrapStatus    *)
(*   attempts    back in shouldDialPeer, before the dialAttemptsForPeer test*)
(*   slots       back in attemptDial, before the parallel-dial test        *)
(*   dialing     libp2p.dial, in dialPeer                                  *)
(*   tagging     the tag lookup after a successful dial                    *)
(*   deleting    peerStore.delete, after the last failed attempt           *)
(*   dns         peerStore.all, in attemptDnsDiscovery                     *)
(*   finding     dnsDiscovery.findPeers                                    *)
(* A handler's "at": tags (the tag lookup), hangup (libp2p.hangUp, of a    *)
(* connection still open), hungup (hangUp has nothing left to close).      *)
(***************************************************************************)
EXTENDS KeepAliveManager, FiniteSets, Sequences, Functions

CONSTANTS
    NoPeer,                 \* the peer of an idle call or handler
    Bootstrap,              \* peers the peer store tags "bootstrap"
    OtherShard,             \* peers whose shard info names no configured topic
    Calls, Handlers,        \* ids for the calls and handlers in flight (bounds)
    maxDialAttemptsForPeer,
    maxParallelDials,
    maxBootstrapPeersAllowed

ASSUME ConnectionManagerAssumption ==
    /\ NoPeer \notin Peers
    /\ Bootstrap \subseteq Peers
    /\ OtherShard \subseteq Peers
    /\ IsFiniteSet(Calls)
    /\ maxDialAttemptsForPeer \in Nat \ {0}
    /\ maxParallelDials \in Nat
    /\ maxBootstrapPeersAllowed \in Nat

VARIABLES
    call,                           \* the attemptDial() calls
    handler,                        \* the peer:connect handlers
    currentActiveParallelDialCount,
    pendingPeerDialQueue,
    dialAttemptsForPeer,            \* NotDialed: the map has no entry
    isP2PNetworkConnected,
    starting,                       \* dialPeerStorePeers awaits peerStore.all
    stopped,                        \* stop() removed the listeners
    connection,                     \* libp2p: per peer, its connection
    peerStore                       \* libp2p: the peers it knows

managerVars == <<currentActiveParallelDialCount, pendingPeerDialQueue,
                 dialAttemptsForPeer>>
vars == <<call, handler, managerVars, isP2PNetworkConnected, starting, stopped,
          connection, peerStore, keepAliveVars>>

NotDialed == -2

\* A connection as its tag says, and one that a hangUp did not close.
Kept == {"keptUntagged", "keptBootstrap"}
ConnectionStates == {"none", "untagged", "bootstrap"} \cup Kept

CallStates == {"idle", "discovered", "shard", "bootstrap", "attempts", "slots",
               "dialing", "tagging", "deleting", "dns", "finding"}
HandlerStates == {"idle", "tags", "hangup", "hungup"}

Call == [at : CallStates, peer : Peers \cup {NoPeer},
         attempt : 0 .. maxDialAttemptsForPeer - 1]
Handler == [at : HandlerStates, peer : Peers \cup {NoPeer}]

IdleCall == [at |-> "idle", peer |-> NoPeer, attempt |-> 0]
IdleHandler == [at |-> "idle", peer |-> NoPeer]

CallAt(state, p) == [at |-> state, peer |-> p, attempt |-> 0]
HandlerAt(state, p) == [at |-> state, peer |-> p]

TypeOK ==
    /\ call \in [Calls -> Call]
    /\ handler \in [Handlers -> Handler]
    /\ currentActiveParallelDialCount \in Nat
    /\ pendingPeerDialQueue \in Seq(Peers)
    /\ dialAttemptsForPeer \in
         [Peers -> {NotDialed, -1} \cup 1 .. maxDialAttemptsForPeer]
    /\ isP2PNetworkConnected \in BOOLEAN
    /\ starting \in BOOLEAN
    /\ stopped \in BOOLEAN
    /\ connection \in [Peers -> ConnectionStates]
    /\ peerStore \subseteq Peers
    /\ KeepAliveTypeOK

\* libp2p may have discovered peers before the manager is constructed.
Init ==
    /\ call = [c \in Calls |-> IdleCall]
    /\ handler = [h \in Handlers |-> IdleHandler]
    /\ currentActiveParallelDialCount = 0
    /\ pendingPeerDialQueue = <<>>
    /\ dialAttemptsForPeer = [p \in Peers |-> NotDialed]
    /\ isP2PNetworkConnected = FALSE
    /\ starting = TRUE
    /\ stopped = FALSE
    /\ connection = [p \in Peers |-> "none"]
    /\ peerStore \in SUBSET Peers
    /\ KeepAliveInit

-----------------------------------------------------------------------------
Connected(p) == connection[p] # "none"

\* getTagNamesForPeer yields no tags for a peer the store does not have.
IsBootstrap(p) == p \in peerStore \cap Bootstrap

BootstrapConnections ==
    {p \in Peers : connection[p] \in {"bootstrap", "keptBootstrap"}}

\* peerStore.get throws for a peer that was deleted meanwhile; like a wrong
\* shard, that ends the attempt.
isPeerTopicConfigured(p) == p \in peerStore \ OtherShard

isPeerDialableBasedOnBootstrapStatus(p) ==
    IsBootstrap(p) => Cardinality(BootstrapConnections) < maxBootstrapPeersAllowed

\* The bound on attempts in flight: n more may start when each of them and each
\* queued peer can have an id of its own.
RoomFor(n) ==
    Cardinality({c \in Calls : call[c] # IdleCall})
        + Len(pendingPeerDialQueue) + n <= Cardinality(Calls)

\* The first, synchronous test of shouldDialPeer: already connected.
AfterConnectedCheck(p) ==
    IF Connected(p) THEN IdleCall ELSE CallAt("shard", p)

\* The parallel-dial test of attemptDial and processDialQueue; the mutant is
\* off by one.
SlotFreeOffByOne == currentActiveParallelDialCount <= maxParallelDials
SlotFree == currentActiveParallelDialCount < maxParallelDials

\* A call that goes on to its next await.
Advance(c, to) == call' = [call EXCEPT ![c].at = to]

\* A call that returns, or throws into a caller that only logs the error.
Return(c) == call' = [call EXCEPT ![c] = IdleCall]

-----------------------------------------------------------------------------
\* dialPeerStorePeers: peerStore.all resolves and every stored peer is given
\* an attemptDial of its own.
DialPeerStorePeers ==
    /\ starting
    /\ RoomFor(Cardinality(peerStore))
    /\ starting' = FALSE
    /\ \E f \in Injection(peerStore, {c \in Calls : call[c] = IdleCall}) :
         call' = [c \in Calls |->
                    IF \E p \in peerStore : f[p] = c
                    THEN AfterConnectedCheck(CHOOSE p \in peerStore : f[p] = c)
                    ELSE call[c]]
    /\ UNCHANGED <<handler, managerVars, isP2PNetworkConnected, stopped,
                   connection, peerStore, keepAliveVars>>

\* libp2p adds a peer to the store and, for a new one, emits peer:discovery.
Discover(p, c) ==
    /\ p \notin peerStore
    /\ peerStore' = peerStore \cup {p}
    /\ call[c] = IdleCall
    /\ RoomFor(1)
    /\ call' = IF stopped THEN call
               ELSE [call EXCEPT ![c] = CallAt("discovered", p)]
    /\ UNCHANGED <<handler, managerVars, isP2PNetworkConnected, starting,
                   stopped, connection, keepAliveVars>>

\* The peer:discovery handler goes on to attemptDial.
AfterDiscovery(c) ==
    /\ call[c].at = "discovered"
    /\ call' = [call EXCEPT ![c] = AfterConnectedCheck(call[c].peer)]
    /\ UNCHANGED <<handler, managerVars, isP2PNetworkConnected, starting,
                   stopped, connection, peerStore, keepAliveVars>>

\* attemptDial is public: the SDK's peer manager calls it for stored peers.
AttemptDial(p, c) ==
    /\ p \in peerStore
    /\ call[c] = IdleCall
    /\ RoomFor(1)
    /\ ~Connected(p)
    /\ call' = [call EXCEPT ![c] = AfterConnectedCheck(p)]
    /\ UNCHANGED <<handler, managerVars, isP2PNetworkConnected, starting,
                   stopped, connection, peerStore, keepAliveVars>>

\* The three tests of shouldDialPeer that follow an await.
CheckShard(c) ==
    /\ call[c].at = "shard"
    /\ IF isPeerTopicConfigured(call[c].peer)
       THEN Advance(c, "bootstrap")
       ELSE Return(c)
    /\ UNCHANGED <<handler, managerVars, isP2PNetworkConnected, starting,
                   stopped, connection, peerStore, keepAliveVars>>

CheckBootstrap(c) ==
    /\ call[c].at = "bootstrap"
    /\ IF isPeerDialableBasedOnBootstrapStatus(call[c].peer)
       THEN Advance(c, "attempts")
       ELSE Return(c)
    /\ UNCHANGED <<handler, managerVars, isP2PNetworkConnected, starting,
                   stopped, connection, peerStore, keepAliveVars>>

CheckAttempts(c) ==
    /\ call[c].at = "attempts"
    /\ IF dialAttemptsForPeer[call[c].peer] = NotDialed
       THEN Advance(c, "slots")
       ELSE Return(c)
    /\ UNCHANGED <<handler, managerVars, isP2PNetworkConnected, starting,
                   stopped, connection, peerStore, keepAliveVars>>

\* attemptDial after shouldDialPeer: queue the peer when all slots are taken.
Enqueue(c) ==
    /\ call[c].at = "slots"
    /\ ~SlotFree
    /\ pendingPeerDialQueue' = Append(pendingPeerDialQueue, call[c].peer)
    /\ Return(c)
    /\ UNCHANGED <<handler, currentActiveParallelDialCount, dialAttemptsForPeer,
                   isP2PNetworkConnected, starting, stopped, connection,
                   peerStore, keepAliveVars>>

\* ... and otherwise enter dialPeer, up to its first libp2p.dial.
StartDial(c) ==
    /\ call[c].at = "slots"
    /\ SlotFree
    /\ Advance(c, "dialing")
    /\ currentActiveParallelDialCount' = currentActiveParallelDialCount + 1
    /\ UNCHANGED <<handler, pendingPeerDialQueue, dialAttemptsForPeer,
                   isP2PNetworkConnected, starting, stopped, connection,
                   peerStore, keepAliveVars>>

-----------------------------------------------------------------------------
\* The synchronous part of the peer:connect handler, for a new connection.
OnConnect(p) ==
    /\ connection' = [connection EXCEPT ![p] = "untagged"]
    /\ IF stopped
       THEN UNCHANGED <<handler, keepAliveVars>>
       ELSE /\ \E h \in Handlers :
                 /\ handler[h] = IdleHandler
                 /\ handler' = [handler EXCEPT ![h] = HandlerAt("tags", p)]
            /\ start(p, "connection")

\* libp2p.dial resolves: with a new connection, or with the one that exists.
DialSucceeds(c) ==
    /\ call[c].at = "dialing"
    /\ Advance(c, "tagging")
    /\ IF Connected(call[c].peer)
       THEN UNCHANGED <<connection, handler, keepAliveVars>>
       ELSE OnConnect(call[c].peer)
    /\ UNCHANGED <<managerVars, isP2PNetworkConnected, starting, stopped,
                   peerStore>>

\* What processDialQueue does once a dial has released its slot and the call
\* table is "calls": at most one queued peer is taken up again.
processDialQueue(calls) ==
    IF pendingPeerDialQueue # <<>> /\ SlotFree'
    THEN LET p == Head(pendingPeerDialQueue)
         IN /\ pendingPeerDialQueue' = Tail(pendingPeerDialQueue)
            /\ IF Connected(p)
               THEN call' = calls
               ELSE \E d \in Calls :
                      /\ calls[d] = IdleCall
                      /\ call' = [calls EXCEPT ![d] = AfterConnectedCheck(p)]
    ELSE call' = calls /\ UNCHANGED pendingPeerDialQueue

\* dialPeer after a successful dial: tag the connection, mark the peer as
\* dialled, start its keep-alive, give the slot back.
FinishDial(c) ==
    LET p == call[c].peer IN
    /\ call[c].at = "tagging"
    /\ connection' = [connection EXCEPT
                        ![p] = IF Connected(p) /\ IsBootstrap(p)
                               THEN "bootstrap" ELSE @]
    /\ dialAttemptsForPeer' = [dialAttemptsForPeer EXCEPT ![p] = -1]
    /\ start(p, "discovered")
    /\ currentActiveParallelDialCount' = currentActiveParallelDialCount - 1
    /\ processDialQueue([call EXCEPT ![c] = IdleCall])
    /\ UNCHANGED <<handler, isP2PNetworkConnected, starting, stopped, peerStore>>

\* The retry loop of dialPeer: the attempt it counts after a failure, whether
\* it tries again, and what that leaves of the slot counter.  The mutants lose
\* the increment, try once too often, and give the slot back on every failure.
AttemptNotCounted(c) == call[c].attempt
NextAttempt(c) == call[c].attempt + 1

OneRetryTooMany(attempt) == attempt <= maxDialAttemptsForPeer
RetriesLeft(attempt) == attempt < maxDialAttemptsForPeer

SlotGivenBackEarly(attempt) == currentActiveParallelDialCount - 1
SlotsAfterFailure(attempt) ==
    IF RetriesLeft(attempt) THEN currentActiveParallelDialCount
    ELSE currentActiveParallelDialCount - 1

\* libp2p.dial rejects, also when the peer has connected itself meanwhile.
DialFails(c) ==
    LET p == call[c].peer
        attempt == NextAttempt(c)
    IN
    /\ call[c].at = "dialing"
    /\ dialAttemptsForPeer' = [dialAttemptsForPeer EXCEPT ![p] = attempt]
    /\ currentActiveParallelDialCount' = SlotsAfterFailure(attempt)
    /\ IF RetriesLeft(attempt)
       THEN /\ call' = [call EXCEPT ![c].attempt = attempt]
            /\ UNCHANGED pendingPeerDialQueue
       ELSE processDialQueue([call EXCEPT ![c] = CallAt("deleting", p)])
    /\ UNCHANGED <<handler, isP2PNetworkConnected, starting, stopped,
                   connection, peerStore, keepAliveVars>>

\* peerStore.delete resolves; attemptDnsDiscovery first looks at connections.
DeleteUndialable(c) ==
    /\ call[c].at = "deleting"
    /\ peerStore' = peerStore \ {call[c].peer}
    /\ IF \E p \in Peers : Connected(p)
       THEN Return(c)
       ELSE Advance(c, "dns")
    /\ UNCHANGED <<handler, managerVars, isP2PNetworkConnected, starting,
                   stopped, connection, keepAliveVars>>

\* ... then at the peer store, and searches DNS only if that is empty.
AttemptDnsDiscovery(c) ==
    /\ call[c].at = "dns"
    /\ IF peerStore = {}
       THEN Advance(c, "finding")
       ELSE Return(c)
    /\ UNCHANGED <<handler, managerVars, isP2PNetworkConnected, starting,
                   stopped, connection, peerStore, keepAliveVars>>

\* findPeers resolves; what it found arrives by Discover.
DnsDiscoveryDone(c) ==
    /\ call[c].at = "finding"
    /\ Return(c)
    /\ UNCHANGED <<handler, managerVars, isP2PNetworkConnected, starting,
                   stopped, connection, peerStore, keepAliveVars>>

-----------------------------------------------------------------------------
\* A connection the manager did not dial: the application's, or inbound.
OtherConnect(p) ==
    /\ ~Connected(p)
    /\ OnConnect(p)
    /\ UNCHANGED <<call, managerVars, isP2PNetworkConnected, starting, stopped,
                   peerStore>>

\* setP2PNetworkDisconnected, when p's connection is the one that closed; the
\* mutant does not look at the connections that are left.
DisconnectedUnchecked(p) == isP2PNetworkConnected' = FALSE
setP2PNetworkDisconnected(p) ==
    isP2PNetworkConnected' =
        (isP2PNetworkConnected /\ \E q \in Peers \ {p} : Connected(q))

\* setP2PNetworkConnected; the mutant forgets to set the flag.
ConnectedNotSet == UNCHANGED isP2PNetworkConnected
setP2PNetworkConnected == isP2PNetworkConnected' = TRUE

\* The last connection of p closes; the peer:disconnect handler runs at once.
\* A hangUp that was closing it has nothing left to do.
Disconnect(p) ==
    /\ Connected(p)
    /\ connection' = [connection EXCEPT ![p] = "none"]
    /\ handler' = [h \in Handlers |->
                     IF handler[h] = HandlerAt("hangup", p)
                     THEN HandlerAt("hungup", p) ELSE handler[h]]
    /\ IF stopped
       THEN UNCHANGED <<isP2PNetworkConnected, keepAliveVars>>
       ELSE /\ stop(p, "connection")
            /\ setP2PNetworkDisconnected(p)
    /\ UNCHANGED <<call, managerVars, starting, stopped, peerStore>>

\* dropConnection waits for hangUp when there is something to close; the
\* mutant stops the timer and never hangs up.
NeverHangsUp(p) == "hungup"
DropState(p) == IF Connected(p) THEN "hangup" ELSE "hungup"

\* The peer:connect handler after the tag lookup: drop the connection when
\* there are too many bootstrap connections, else report the network connected.
HandleConnect(h) ==
    LET p == handler[h].peer
        tooMany == /\ IsBootstrap(p)
                   /\ Cardinality(BootstrapConnections) > maxBootstrapPeersAllowed
    IN
    /\ handler[h].at = "tags"
    /\ IF tooMany
       THEN /\ stop(p, "connection")
            /\ handler' = [handler EXCEPT ![h].at = DropState(p)]
            /\ UNCHANGED isP2PNetworkConnected
       ELSE /\ setP2PNetworkConnected
            /\ handler' = [handler EXCEPT ![h] = IdleHandler]
            /\ UNCHANGED keepAliveVars
    /\ UNCHANGED <<call, managerVars, starting, stopped, connection, peerStore>>

\* hangUp rejects; dropConnection only logs that, and its handler goes on as if
\* the connection were closed.
HangUpFails(h) ==
    LET p == handler[h].peer IN
    /\ handler[h].at = "hangup"
    /\ Connected(p)
    /\ connection' = [connection EXCEPT
                        ![p] = IF p \in BootstrapConnections
                               THEN "keptBootstrap" ELSE "keptUntagged"]
    /\ handler' = [handler EXCEPT ![h] = IdleHandler]
    /\ setP2PNetworkConnected
    /\ UNCHANGED <<call, managerVars, starting, stopped, peerStore,
                   keepAliveVars>>

\* dropConnection returns, and the handler still calls setP2PNetworkConnected.
AfterDrop(h) ==
    /\ handler[h].at = "hungup"
    /\ handler' = [handler EXCEPT ![h] = IdleHandler]
    /\ setP2PNetworkConnected
    /\ UNCHANGED <<call, managerVars, starting, stopped, connection, peerStore,
                   keepAliveVars>>

\* stop(): clear the timers and remove the listeners.  Nothing is cancelled.
Stop ==
    /\ ~stopped
    /\ stopped' = TRUE
    /\ stopAll
    /\ UNCHANGED <<call, handler, managerVars, isP2PNetworkConnected, starting,
                   connection, peerStore>>

-----------------------------------------------------------------------------
CallStep(c) ==
    \/ AfterDiscovery(c) \/ CheckShard(c) \/ CheckBootstrap(c)
    \/ CheckAttempts(c) \/ Enqueue(c) \/ StartDial(c)
    \/ DialSucceeds(c) \/ FinishDial(c) \/ DialFails(c)
    \/ DeleteUndialable(c) \/ AttemptDnsDiscovery(c) \/ DnsDiscoveryDone(c)

HandlerStep(h) == HandleConnect(h) \/ HangUpFails(h) \/ AfterDrop(h)

Next ==
    \/ DialPeerStorePeers
    \/ \E p \in Peers, c \in Calls : Discover(p, c) \/ AttemptDial(p, c)
    \/ \E c \in Calls : CallStep(c)
    \/ \E p \in Peers : OtherConnect(p) \/ Disconnect(p)
    \/ \E h \in Handlers : HandlerStep(h)
    \/ Stop

Spec == Init /\ [][Next]_vars

\* A suspended call or handler is resumed by the event loop; libp2p.dial and
\* libp2p.hangUp settle one way or the other.
Fairness ==
    /\ WF_vars(DialPeerStorePeers)
    /\ \A c \in Calls : WF_vars(CallStep(c))
    /\ \A h \in Handlers : WF_vars(HandlerStep(h))

FairSpec == Spec /\ Fairness

-----------------------------------------------------------------------------
(* Safety: what holds. *)

\* The calls that occupy a parallel-dial slot.
Dialing == {c \in Calls : call[c].at \in {"dialing", "tagging"}}

\* The slot counter is exact whatever the order in which dials start, retry,
\* succeed, fail and hand over to the queue (dialPeer, processDialQueue), and
\* never exceeds maxParallelDials although every test of it follows an await.
SlotAccounting ==
    /\ currentActiveParallelDialCount = Cardinality(Dialing)
    /\ currentActiveParallelDialCount <= maxParallelDials

\* The manager reports "not connected" beside an open connection only while
\* a peer:connect handler is still to finish: no connect event is lost in the
\* races of connect and disconnect handlers.
ConnectSignalled ==
    (/\ ~stopped
     /\ ~isP2PNetworkConnected
     /\ \E p \in Peers : Connected(p))
        => \E h \in Handlers : handler[h].at # "idle"

\* Until stop(), every ping interval that runs has its entry in the map, and
\* one peer never has two: start() replaces what dialPeer or the peer:connect
\* handler set before it.
PingIntervalsOwned ==
    ~stopped => \A p \in Peers :
        pingIntervals[p] = IF p \in pingKeepAliveTimers THEN 1 ELSE 0

\* Until stop(), a peer with an open connection is pinged, unless that very
\* connection is being dropped, or was to be and hangUp failed: a late
\* disconnect handler or a drop never takes the timer away from a newer
\* connection.
ConnectedPeersKeptAlive ==
    (PingEnabled /\ ~stopped) =>
        \A p \in Peers : Connected(p) =>
            \/ p \in pingKeepAliveTimers
            \/ connection[p] \in Kept
            \/ \E h \in Handlers : handler[h] = HandlerAt("hangup", p)

\* The counter implements the pool of slots: every step of the manager takes
\* a slot while one is free, returns one that was taken, or does neither.
Slots == INSTANCE DialSlots WITH
            Users <- Calls, limit <- maxParallelDials, holders <- Dialing
ImplementsDialSlots == Slots!Spec

-----------------------------------------------------------------------------
(* Liveness: what holds under FairSpec. *)

\* Every dial gives its slot back: the retry loop of dialPeer ends.
SlotReleased == \A c \in Calls : c \in Dialing ~> c \notin Dialing

\* A peer that stays connected is eventually reported to the application.
ConnectionReported ==
    \A p \in Peers :
        Connected(p) ~> (isP2PNetworkConnected \/ ~Connected(p) \/ stopped)

\* Dials and connect handlers come to their result, whatever they meet.
DialsConclude == SlotReleased /\ ConnectionReported

-----------------------------------------------------------------------------
(* What the repository says and the code does not keep. *)

\* "If the peer is already has an active dial attempt, or has been dialed
\* before, don't dial it" (connection_manager.ts): no two dials of one peer.
OneDialPerPeer ==
    \A c, d \in Dialing : call[c].peer = call[d].peer => c = d

\* "Max number of bootstrap peers allowed to be connected to": once all
\* handlers and dials have come to rest, the limit is kept.
BootstrapLimit ==
    (/\ ~stopped
     /\ \A c \in Calls : call[c] = IdleCall
     /\ \A h \in Handlers : handler[h] = IdleHandler)
        => Cardinality(BootstrapConnections) <= maxBootstrapPeersAllowed

\* "isConnected should return false after all peers disconnect".
StatusFollowsConnections ==
    (/\ ~stopped
     /\ isP2PNetworkConnected
     /\ \A h \in Handlers : handler[h] = IdleHandler)
        => \E p \in Peers : Connected(p)

\* "Always decrease the active dial count and process the dial queue": no
\* peer that is neither connected nor dialled waits in the queue when no call
\* is left that would take it out.
NoStrandedPeer ==
    (\A c \in Calls : call[c] = IdleCall) =>
        \A p \in Range(pendingPeerDialQueue) :
            Connected(p) \/ dialAttemptsForPeer[p] # NotDialed

\* "Just in case a timer already exists for this peer": start() leaves one
\* interval of each kind per peer.
OneIntervalPerPeer ==
    \A p \in Peers : pingIntervals[p] <= 1 /\ relayIntervals[p] <= 1
=============================================================================
