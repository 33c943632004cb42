--------------------------- MODULE WaitForRemotePeer ---------------------------
(***************************************************************************)
(* waitForPeers of a light node (sdk/src/waku/wait_for_remote_peer.ts):    *)
(* for every protocol a listener of identify events waits for a peer that  *)
(* serves it and answers the metadata handshake, while a pass over the     *)
(* peers already connected makes handshakes with those; the first of the   *)
(* two to end, or the timeout, ends the wait.                              *)
(*                                                                         *)
(* The handshakes of the listener of a protocol are queries by it, those   *)
(* of the pass are by Pass.                                                *)
(***************************************************************************)
EXTENDS Metadata, Sequences, SequencesExt

CONSTANTS
    Protocols,   \* the protocols a light node mounts
    Serves,      \* the protocols each peer serves
    Requests     \* the lists of protocols that may be waited for

Pass == "waitForMetadata"

\* What is assumed of the constants, where this module is instantiated.
WaitAssumption ==
    /\ IsFiniteSet(Peers)
    /\ Protocols # {}
    /\ Callers = Protocols \cup {Pass}
    /\ Pass \notin Protocols
    /\ Serves \in [Peers -> SUBSET Protocols]
    /\ Requests \subseteq SUBSET Protocols

VARIABLES
    status,      \* of libp2p
    connected,   \* the peers connected
    identifying, \* those whose identify event is still to come
    wait,        \* "idle", "waiting", "resolved", "rejected" or "threw"
    timed,       \* a timeout was given
    wanted,      \* the protocols of the call
    listening,   \* the protocols whose listener is registered
    fulfilled,   \* those whose promise has resolved
    pass,        \* waitForMetadata: where it is, peers left, codecs confirmed
    served       \* the protocols of which a peer has answered a handshake

waitVars == <<status, connected, identifying, wait, timed, wanted, listening,
              fulfilled, pass, served>>

NoPass == [at |-> "off", left |-> <<>>, confirmed |-> {}]

WaitTypeOK ==
    /\ status \in {"stopped", "started"}
    /\ connected \subseteq Peers /\ identifying \subseteq connected
    /\ wait \in {"idle", "waiting", "resolved", "rejected", "threw"}
    /\ timed \in BOOLEAN
    /\ wanted \subseteq Protocols /\ listening \subseteq wanted
    /\ fulfilled \subseteq wanted /\ served \subseteq Protocols
    /\ pass.at \in {"off", "get", "handshake", "over"}
    /\ pass.left \in Seq(Peers) /\ pass.confirmed \subseteq wanted

WaitInit ==
    /\ status = "started"
    /\ connected = {} /\ identifying = {}
    /\ wait = "idle" /\ timed = FALSE
    /\ wanted = {} /\ listening = {} /\ fulfilled = {}
    /\ pass = NoPass
    /\ served = {}

-----------------------------------------------------------------------------
(* libp2p *)

Start ==
    /\ status = "stopped"
    /\ status' = "started"
    /\ UNCHANGED <<connected, identifying, wait, timed, wanted, listening,
                   fulfilled, pass, served, metadataVars>>

\* WakuNode.stop: libp2p closes the connections.
Stop ==
    /\ status = "started"
    /\ status' = "stopped"
    /\ connected' = {} /\ identifying' = {}
    /\ UNCHANGED <<wait, timed, wanted, listening, fulfilled, pass, served,
                   metadataVars>>

Connect(p) ==
    /\ status = "started" /\ p \notin connected
    /\ connected' = connected \cup {p}
    /\ identifying' = identifying \cup {p}
    /\ UNCHANGED <<status, wait, timed, wanted, listening, fulfilled, pass,
                   served, metadataVars>>

Disconnect(p) ==
    /\ p \in connected
    /\ connected' = connected \ {p}
    /\ identifying' = identifying \ {p}
    /\ UNCHANGED <<status, wait, timed, wanted, listening, fulfilled, pass,
                   served, metadataVars>>

-----------------------------------------------------------------------------
(* The end of the wait *)

\* Promise.any: when the promises of all protocols have resolved, or the pass
\* is over.  The mutant waits for both.
SettledByBoth(promises, metadata) == promises = wanted /\ metadata.at = "over"
Settled(promises, metadata) == promises = wanted \/ metadata.at = "over"

Ends(promises, metadata) ==
    wait' = IF wait = "waiting" /\ Settled(promises, metadata)
            THEN "resolved" ELSE wait

\* awaitTimeout.
Timeout ==
    /\ wait = "waiting" /\ timed
    /\ wait' = "rejected"
    /\ UNCHANGED <<status, connected, identifying, timed, wanted, listening,
                   fulfilled, pass, served, metadataVars>>

\* The pass goes on with the peers left; the mutant stops at a peer that fails.
Stuck(left, confirmed) == [at |-> "get", left |-> <<Head(pass.left)>>,
                           confirmed |-> confirmed]
Passes(left, confirmed) ==
    [at |-> IF left = <<>> \/ confirmed = wanted THEN "over" ELSE "get",
     left |-> left, confirmed |-> confirmed]

\* waitForRemotePeer up to its first await; no protocols mean all.  It throws
\* when the node is not started.  Each protocol gets its listener; the pass is
\* made only over connections that are there.
waitForRemotePeer(protocols, withTimeout) ==
    /\ wait = "idle"
    /\ IF status = "stopped"
       THEN /\ wait' = "threw"
            /\ UNCHANGED <<timed, wanted, listening, pass>>
       ELSE /\ wait' = "waiting"
            /\ timed' = withTimeout
            /\ wanted' = IF protocols = {} THEN Protocols ELSE protocols
            /\ listening' = wanted'
            /\ \E order \in SetToSeqs(connected) :
                 pass' = IF connected = {} THEN NoPass
                         ELSE [NoPass EXCEPT !.at = "get", !.left = order]
    /\ UNCHANGED <<status, connected, identifying, fulfilled, served,
                   metadataVars>>

-----------------------------------------------------------------------------
(* Listeners *)

Resolves(codecs) ==
    /\ fulfilled' = fulfilled \cup codecs
    /\ listening' = listening \ codecs

\* The listeners that an identify event concerns; the mutant asks for every
\* protocol the peer serves.
AllServed(p) == Serves[p]
Concerned(p) == listening \cap Serves[p]

\* The event "peer:identify": the listeners of the protocols the peer serves ask
\* for its handshake.  They stay registered after the wait has ended.
Identify(p) ==
    LET codecs == Concerned(p) IN
    /\ p \in identifying
    /\ identifying' = identifying \ {p}
    /\ IF IsConfirmed(p)
       THEN /\ Resolves(codecs)
            /\ served' = served \cup codecs
            /\ UNCHANGED queries
       ELSE /\ queries' = queries \cup {Asked(c, p) : c \in codecs}
            /\ UNCHANGED <<fulfilled, listening, served>>
    /\ Ends(fulfilled', pass)
    /\ UNCHANGED <<status, connected, timed, wanted, pass, handshakesConfirmed,
                   storedShards>>

\* A peer that is connected makes a query of its own.
PeerAsks(p, shards) ==
    /\ p \in connected
    /\ onRequest(p, shards)
    /\ UNCHANGED waitVars

-----------------------------------------------------------------------------
(* The pass of waitForMetadata *)

\* peerStore.get resolves: a peer that serves one of the protocols is asked; the
\* store does not know yet what a peer serves that is still to be identified.
\* It throws for a peer that the store has forgotten: the next one.
PassGets ==
    LET p == Head(pass.left)
        rest == Tail(pass.left)
    IN  /\ pass.at = "get"
        /\ \/ /\ Serves[p] \cap wanted # {}
              /\ ~IsConfirmed(p)
              /\ pass' = [pass EXCEPT !.at = "handshake"]
              /\ queries' = queries \cup {Asked(Pass, p)}
              /\ UNCHANGED served
           \/ /\ Serves[p] \cap wanted # {}
              /\ IsConfirmed(p)
              /\ pass' = Passes(rest, pass.confirmed \cup (Serves[p] \cap wanted))
              /\ served' = served \cup Serves[p]
              /\ UNCHANGED queries
           \/ /\ \/ Serves[p] \cap wanted = {}
                 \/ p \notin connected \/ p \in identifying
              /\ pass' = Passes(rest, pass.confirmed)
              /\ UNCHANGED <<queries, served>>
        /\ Ends(fulfilled, pass')
        /\ UNCHANGED <<status, connected, identifying, timed, wanted, listening,
                       fulfilled, handshakesConfirmed, storedShards>>

-----------------------------------------------------------------------------
(* The outcomes of the handshakes *)

\* The handshake of q ends well, or with an error that it returns or throws.
Told(q, ok) ==
    LET p == q.peer IN
    /\ served' = IF ok THEN served \cup Serves[p] ELSE served
    /\ pass' = IF q.by # Pass THEN pass
               ELSE Passes(Tail(pass.left), pass.confirmed \cup
                                            IF ok THEN Serves[p] \cap wanted ELSE {})
    /\ UNCHANGED <<status, connected, identifying, timed, wanted>>

HandshakeDone(q, shards) ==
    /\ q.peer \in connected
    /\ Answered(q, shards)
    /\ IF q.by \in Protocols THEN Resolves({q.by})
       ELSE UNCHANGED <<fulfilled, listening>>
    /\ Told(q, TRUE)
    /\ Ends(fulfilled', pass')

\* A listener takes an error that is returned for a handshake; one that is
\* thrown leaves it waiting.
HandshakeFails(q, returned) ==
    /\ Fail(q)
    /\ IF q.by \in Protocols /\ returned THEN Resolves({q.by})
       ELSE UNCHANGED <<fulfilled, listening>>
    /\ Told(q, FALSE)
    /\ Ends(fulfilled', pass')

-----------------------------------------------------------------------------
HandshakeEnds(q) ==
    \/ \E shards \in Shards : HandshakeDone(q, shards)
    \/ \E returned \in BOOLEAN : HandshakeFails(q, returned)
PassStep ==
    \/ PassGets
    \/ \E q \in queries : q.by = Pass /\ HandshakeEnds(q)

WaitNext ==
    \/ \E p \in Peers : Connect(p) \/ Disconnect(p) \/ Identify(p)
    \/ \E p \in Peers, shards \in Shards : PeerAsks(p, shards)
    \/ \E protocols \in Requests, withTimeout \in BOOLEAN :
         waitForRemotePeer(protocols, withTimeout)
    \/ \E q \in queries : q.by # Pass /\ HandshakeEnds(q)

-----------------------------------------------------------------------------
\* A wait that finds peers connected ends without a timeout, as long as no
\* handshake is left unanswered, whatever the peers serve.
WaitWithPeersEnds == (wait = "waiting" /\ pass.at # "off") ~> wait # "waiting"

\* When every wanted protocol has had an answer from some peer, or the pass has
\* come to its end, the wait is over, in whatever order they came.
AnsweredWaitEnds ==
    wait = "waiting" => ~(wanted \subseteq fulfilled) /\ pass.at # "over"

-----------------------------------------------------------------------------
\* The doc comment of waitForRemotePeer: it resolves if all desired protocols
\* are fulfilled by remote nodes.
ResolvedMeansFulfilled == wait = "resolved" => wanted \subseteq served
=============================================================================
