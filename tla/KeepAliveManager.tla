-------------------------- MODULE KeepAliveManager --------------------------
(***************************************************************************)
(* The keep-alive timers of @waku/core (core/src/lib/keep_alive_manager.ts).*)
(* The manager has no loop of its own: the connection manager calls its    *)
(* three operations, so this module declares the state and the operations  *)
(* and ConnectionManager composes them with its own handlers.              *)
(*                                                                         *)
(* Two things are told apart that the code keeps apart: the entries of the *)
(* two maps, and the intervals that really run.  An interval ends only by  *)
(* clearInterval; forgetting its map entry leaves it running.              *)
(*                                                                         *)
(* pingKeepAliveTimers is keyed by peerId.toString(), relayKeepAliveTimers *)
(* by the PeerId object itself.  A peer is met as two objects, the one it  *)
(* was discovered (and dialled) under and the one its connection carries.  *)
(*                                                                         *)
(* Abstracted: the ping request itself, and the number of pubsub topics of *)
(* the relay (one; whether the peer is in its mesh is left open).  A relay *)
(* map entry that holds no interval is not distinguished from no entry.    *)
(***************************************************************************)
EXTENDS Integers

CONSTANTS
    Peers,         \* the remote peers
    PingEnabled,   \* pingKeepAlive # 0
    RelayEnabled   \* a relay is mounted and relayKeepAlive # 0

ASSUME KeepAliveAssumption ==
    /\ PingEnabled \in BOOLEAN
    /\ RelayEnabled \in BOOLEAN

\* The PeerId objects one peer is known under.
Handles == {"discovered", "connection"}

VARIABLES
    pingKeepAliveTimers,   \* peers with an entry in the map
    pingIntervals,         \* per peer, the ping intervals that run
    relayKeepAliveTimers,  \* <<peer, handle>> pairs with an interval in the map
    relayIntervals         \* per peer, the relay intervals that run

keepAliveVars == <<pingKeepAliveTimers, pingIntervals,
                   relayKeepAliveTimers, relayIntervals>>

KeepAliveTypeOK ==
    /\ pingKeepAliveTimers \subseteq Peers
    /\ pingIntervals \in [Peers -> Nat]
    /\ relayKeepAliveTimers \subseteq Peers \X Handles
    /\ relayIntervals \in [Peers -> Nat]

KeepAliveInit ==
    /\ pingKeepAliveTimers = {}
    /\ pingIntervals = [p \in Peers |-> 0]
    /\ relayKeepAliveTimers = {}
    /\ relayIntervals = [p \in Peers |-> 0]

-----------------------------------------------------------------------------
\* What stop(peerId) clears: the interval of each map that has the key.  The
\* mutant clears nothing, so that start() no longer replaces.
NoPingCleared(p) == 0
ClearedPings(p) == IF p \in pingKeepAliveTimers THEN 1 ELSE 0
ClearedRelays(p, h) == IF <<p, h>> \in relayKeepAliveTimers THEN 1 ELSE 0

stop(p, h) ==
    /\ pingKeepAliveTimers' = pingKeepAliveTimers \ {p}
    /\ pingIntervals' = [pingIntervals EXCEPT ![p] = @ - ClearedPings(p)]
    /\ relayKeepAliveTimers' = relayKeepAliveTimers \ {<<p, h>>}
    /\ relayIntervals' = [relayIntervals EXCEPT ![p] = @ - ClearedRelays(p, h)]

\* Whether scheduleRelayPings sets an interval: only for a mesh peer.
scheduleRelayPings == IF RelayEnabled THEN BOOLEAN ELSE {FALSE}

\* start(peerId) first stops what it finds under the same keys, then sets a
\* ping interval and, for a mesh peer, a relay interval.
start(p, h) ==
    /\ IF PingEnabled
       THEN /\ pingKeepAliveTimers' = pingKeepAliveTimers \cup {p}
            /\ pingIntervals' =
                 [pingIntervals EXCEPT ![p] = @ - ClearedPings(p) + 1]
       ELSE /\ pingKeepAliveTimers' = pingKeepAliveTimers \ {p}
            /\ pingIntervals' = [pingIntervals EXCEPT ![p] = @ - ClearedPings(p)]
    /\ \E inMesh \in scheduleRelayPings :
         IF inMesh
         THEN /\ relayKeepAliveTimers' = relayKeepAliveTimers \cup {<<p, h>>}
              /\ relayIntervals' =
                   [relayIntervals EXCEPT ![p] = @ - ClearedRelays(p, h) + 1]
         ELSE /\ relayKeepAliveTimers' = relayKeepAliveTimers \ {<<p, h>>}
              /\ relayIntervals' =
                   [relayIntervals EXCEPT ![p] = @ - ClearedRelays(p, h)]

\* stopAll() iterates Object.values() of the two Maps.  A Map has no own
\* enumerable property, so no interval is cleared; the maps are emptied.
stopAll ==
    /\ pingKeepAliveTimers' = {}
    /\ relayKeepAliveTimers' = {}
    /\ UNCHANGED <<pingIntervals, relayIntervals>>
=============================================================================
