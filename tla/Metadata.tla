-------------------------------- MODULE Metadata --------------------------------
(***************************************************************************)
(* The metadata protocol of @waku/core (core/src/lib/metadata/index.ts):   *)
(* two nodes tell each other their shards.  The shards a peer told are     *)
(* written to the peer store and kept as its handshake, for ever.          *)
(* A query is a pair [by, peer]; its awaits (the peer store, the stream,   *)
(* the answer and the merge into the store) are one, since nothing reads   *)
(* what they change in between.  What asks ("by") is told the outcome.     *)
(***************************************************************************)
EXTENDS Naturals, FiniteSets

CONSTANTS
    Peers,
    Callers,   \* what calls confirmOrAttemptHandshake
    Shards     \* what a peer may say its shards are; 0 is nothing

\* What is assumed of the constants, where this module is instantiated.
MetadataAssumption == Shards \subseteq Nat \ {0}

NoShards == 0

VARIABLES
    handshakesConfirmed,  \* what is confirmed of each peer
    storedShards,         \* the shards in the peer store
    queries               \* those under way

metadataVars == <<handshakesConfirmed, storedShards, queries>>

Queries == [by : Callers, peer : Peers]

MetadataTypeOK ==
    /\ handshakesConfirmed \in [Peers -> Shards \cup {NoShards}]
    /\ storedShards \in [Peers -> Shards \cup {NoShards}]
    /\ queries \subseteq Queries

MetadataInit ==
    /\ handshakesConfirmed = [p \in Peers |-> NoShards]
    /\ storedShards = handshakesConfirmed
    /\ queries = {}

Asked(by, p) == [by |-> by, peer |-> p]

\* confirmOrAttemptHandshake answers at once for a peer that is confirmed, and
\* queries another.
IsConfirmed(p) == handshakesConfirmed[p] # NoShards

\* savePeerShardInfo: what the peer told is merged into the peer store, then
\* kept.
savePeerShardInfo(p, shards) ==
    /\ storedShards' = [storedShards EXCEPT ![p] = shards]
    /\ handshakesConfirmed' = [handshakesConfirmed EXCEPT ![p] = shards]

\* The peer has answered a query.
Answered(q, shards) ==
    /\ q \in queries
    /\ savePeerShardInfo(q.peer, shards)
    /\ queries' = queries \ {q}

\* The query ends without shards: the peer store does not know the peer, there
\* is no stream, the stream breaks or the answer cannot be decoded.  Only the
\* missing stream is an error that is returned; the others are thrown.
Fail(q) ==
    /\ q \in queries
    /\ queries' = queries \ {q}
    /\ UNCHANGED <<handshakesConfirmed, storedShards>>

\* A peer has asked for the node's shards and told its own.
onRequest(p, shards) ==
    /\ savePeerShardInfo(p, shards)
    /\ UNCHANGED queries

=============================================================================
