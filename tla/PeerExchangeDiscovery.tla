------------------------- MODULE PeerExchangeDiscovery -------------------------
(***************************************************************************)
(* Peer exchange discovery of @waku/discovery                              *)
(* (discovery/src/peer-exchange/): a peer that is identified and supports  *)
(* the protocol is asked for records of other peers, again and again until *)
(* its attempts are used up, and the records go to the peer store.         *)
(*                                                                         *)
(* A run of startRecurringQueries with the ones its timers start is a      *)
(* member of Chains.  Where it is:                                         *)
(*   query     peerExchange.query is running                               *)
(*   has, get, patch, merge, save: that operation of the peer store is     *)
(*             running, for the first of the chain's records               *)
(*   timer     setTimeout                                                  *)
(***************************************************************************)
EXTENDS PeerStore, Sequences, SequencesExt

CONSTANTS
    Servers,     \* the peers that support the protocol
    Chains,      \* ids of the chains (bound)
    Records,     \* the records they may return
    MaxRecords,  \* bound on the records of a reply
    maxRetries

\* What is assumed of the constants, where this module is instantiated.
PeerExchangeAssumption ==
    /\ Servers \subseteq Peers
    /\ Records \subseteq [peer : Peers, addresses : Versions,
                          shards : Versions \cup {None}]
    /\ MaxRecords \in Nat \ {0}
    /\ maxRetries \in Nat

VARIABLES
    listening,      \* handleDiscoveredPeer is registered
    queryingPeers,
    queryAttempts,  \* 0: the peer is not in the map
    chain           \* the chains

exchangeVars == <<listening, queryingPeers, queryAttempts, chain>>

NoDiff == [addresses |-> FALSE, shards |-> FALSE]
NoChain == [at |-> "idle", peer |-> None, records |-> <<>>, diff |-> NoDiff,
            attempt |-> 0]

TypeOK ==
    /\ listening \in BOOLEAN
    /\ queryingPeers \subseteq Servers
    /\ queryAttempts \in [Servers -> 0 .. maxRetries + 1]
    /\ \A c \in Chains :
         /\ DOMAIN chain[c] = DOMAIN NoChain
         /\ chain[c].at \in {"idle", "query", "has", "get", "patch", "merge",
                             "save", "timer"}
         /\ chain[c].at # "idle" => chain[c].peer \in Servers
         /\ chain[c].at \in {"has", "get", "patch", "merge", "save"} =>
              chain[c].records \in Seq(Records) \ {<<>>}
         /\ chain[c].diff \in [addresses : BOOLEAN, shards : BOOLEAN]
         /\ chain[c].attempt \in 0 .. maxRetries + 1

Init ==
    /\ listening = FALSE
    /\ queryingPeers = {}
    /\ queryAttempts = [p \in Servers |-> 0]
    /\ chain = [c \in Chains |-> NoChain]

-----------------------------------------------------------------------------
\* start registers the listener.  It never sets isStarted, so stop returns at
\* its first test and changes nothing: no action stands for it.
start ==
    /\ ~listening
    /\ listening' = TRUE
    /\ UNCHANGED <<queryingPeers, queryAttempts, chain, store, announced>>

\* The peer exchange protocol is not asked of a peer that is being queried;
\* the mutant asks again.
AskAnybody(p) == p \in Servers
MayAsk(p) == p \in Servers /\ p \notin queryingPeers

\* handleDiscoveredPeer, on the event "peer:identify".
handleDiscoveredPeer(p, c) ==
    /\ listening
    /\ MayAsk(p)
    /\ chain[c].at = "idle"
    /\ queryingPeers' = queryingPeers \cup {p}
    /\ chain' = [chain EXCEPT ![c] = [NoChain EXCEPT !.at = "query", !.peer = p]]
    /\ UNCHANGED <<listening, queryAttempts, store, announced>>

\* A rejection ends the chain and is only logged: the peer stays in
\* queryingPeers.
Rejects(c) ==
    /\ chain' = [chain EXCEPT ![c] = NoChain]
    /\ UNCHANGED <<queryingPeers, queryAttempts>>

\* What an attempt counts as: the map has no entry before the second.  The
\* mutant forgets the attempts.
Forgets(p) == 1
CurrentAttempt(p) == IF queryAttempts[p] = 0 THEN 1 ELSE queryAttempts[p]

\* startRecurringQueries after its query: the chain is aborted, or waits.
\* The mutant never gives up.
NeverGivesUp(p) == FALSE
AttemptsUsed(p) == CurrentAttempt(p) > maxRetries

QueryIsOver(c) ==
    LET p == chain[c].peer IN
    IF AttemptsUsed(p)
    THEN /\ chain' = [chain EXCEPT ![c] = NoChain]
         /\ queryingPeers' = queryingPeers \ {p}
         /\ queryAttempts' = [queryAttempts EXCEPT ![p] = 0]
    ELSE /\ chain' = [chain EXCEPT ![c] =
                         [chain[c] EXCEPT !.at = "timer", !.records = <<>>,
                                          !.diff = NoDiff,
                                          !.attempt = CurrentAttempt(p)]]
         /\ UNCHANGED <<queryingPeers, queryAttempts>>

\* The first record is dealt with: the next one, or the query is over.
RecordIsDone(c) ==
    IF Len(chain[c].records) > 1
    THEN /\ chain' = [chain EXCEPT ![c] =
                         [chain[c] EXCEPT !.at = "has", !.diff = NoDiff,
                                          !.records = Tail(chain[c].records)]]
         /\ UNCHANGED <<queryingPeers, queryAttempts>>
    ELSE QueryIsOver(c)

-----------------------------------------------------------------------------
(* query *)

\* peerExchange.query throws when the peer store has forgotten the peer or the
\* stream breaks; otherwise it returns an error, or records.
QueryRejects(c) ==
    /\ chain[c].at = "query"
    /\ Rejects(c)
    /\ UNCHANGED <<listening, store, announced>>

\* An operation of the peer store rejects, and its query with it.
StoreRejects(c) ==
    /\ chain[c].at \in {"has", "get", "patch", "merge", "save"}
    /\ Rejects(c)
    /\ UNCHANGED <<listening, store, announced>>

QueryFails(c) ==
    /\ chain[c].at = "query"
    /\ QueryIsOver(c)
    /\ UNCHANGED <<listening, store, announced>>

\* A reply without records is like an error.
Replies == UNION {[1 .. n -> Records] : n \in 1 .. MaxRecords}

QueryReturns(c, records) ==
    /\ chain[c].at = "query"
    /\ chain' = [chain EXCEPT ![c] =
                    [chain[c] EXCEPT !.at = "has", !.records = records]]
    /\ UNCHANGED <<listening, queryingPeers, queryAttempts, store,
                   announced>>

First(c) == Head(chain[c].records)
Goes(c, at) == /\ chain' = [chain EXCEPT ![c].at = at]
               /\ UNCHANGED <<queryingPeers, queryAttempts>>

Has(c) ==
    /\ chain[c].at = "has"
    /\ Goes(c, IF store[First(c).peer].known THEN "get" ELSE "save")
    /\ UNCHANGED <<listening, store, announced>>

\* checkPeerInfoDiff: something the store knows that the record does not say.
Diff(known, record) ==
    [addresses |-> known.addresses \notin {None, record.addresses},
     shards |-> known.shards \notin {None, record.shards}]

\* Without a difference the peer is saved like a new one; a difference in the
\* shards is dropped when the record has none.
Get(c) ==
    LET diff == Diff(store[First(c).peer], First(c)) IN
    /\ chain[c].at = "get"
    /\ IF diff = NoDiff THEN Goes(c, "save")
       ELSE IF ~diff.addresses /\ First(c).shards = None THEN RecordIsDone(c)
       ELSE /\ chain' = [chain EXCEPT ![c] =
                 [chain[c] EXCEPT !.diff = diff,
                    !.at = IF diff.addresses THEN "patch" ELSE "merge"]]
            /\ UNCHANGED <<queryingPeers, queryAttempts>>
    /\ UNCHANGED <<listening, store, announced>>

Patch(c) ==
    /\ chain[c].at = "patch"
    /\ store' = Patched(First(c).peer, First(c).addresses)
    /\ IF chain[c].diff.shards /\ First(c).shards # None
       THEN Goes(c, "merge") ELSE RecordIsDone(c)
    /\ UNCHANGED <<listening, announced>>

Merge(c) ==
    /\ chain[c].at = "merge"
    /\ store' = MergedShards(First(c).peer, First(c).shards)
    /\ announced' = announced \cup {First(c).peer}
    /\ RecordIsDone(c)
    /\ UNCHANGED listening

Save(c) ==
    /\ chain[c].at = "save"
    /\ store' = Saved(First(c).peer, "peer-exchange", First(c).addresses,
                      First(c).shards)
    /\ announced' = announced \cup {First(c).peer}
    /\ RecordIsDone(c)
    /\ UNCHANGED listening

\* The timer of the chain fires and starts the next query.
Timer(c) ==
    /\ chain[c].at = "timer"
    /\ queryAttempts' = [queryAttempts EXCEPT ![chain[c].peer] =
                           chain[c].attempt + 1]
    /\ chain' = [chain EXCEPT ![c].at = "query"]
    /\ UNCHANGED <<listening, queryingPeers, store, announced>>

-----------------------------------------------------------------------------
ChainStep(c) ==
    \/ QueryRejects(c) \/ QueryFails(c)
    \/ \E records \in Replies : QueryReturns(c, records)
    \/ Has(c) \/ Get(c) \/ Patch(c) \/ Merge(c) \/ Save(c) \/ StoreRejects(c)
    \/ Timer(c)

StartStep ==
    \/ start
    \/ \E p \in Peers, c \in Chains : handleDiscoveredPeer(p, c)

-----------------------------------------------------------------------------
Running(c) == chain[c].at # "idle"

\* One chain of queries per peer, however often the peer is identified again:
\* two would count their attempts in the same entry of queryAttempts.
OneChainPerPeer ==
    \A c \in Chains : Running(c) =>
        /\ chain[c].peer \in queryingPeers
        /\ \A d \in Chains \ {c} : Running(d) => chain[d].peer # chain[c].peer

\* Every chain comes to an end.
ChainsEnd == \A c \in Chains : Running(c) ~> ~Running(c)

-----------------------------------------------------------------------------
\* A peer is barred from new queries only while a chain asks it: not so after
\* a rejection.
OnlyWhileQuerying ==
    \A p \in queryingPeers : \E c \in Chains : Running(c) /\ chain[c].peer = p
=============================================================================
