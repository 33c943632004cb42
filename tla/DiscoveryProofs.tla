----------------------------- MODULE DiscoveryProofs -----------------------------
(***************************************************************************)
(* Proofs about the discovery services, for any trees, caches, records and *)
(* numbers of peers, chains and restarts.  Each service has an invariant   *)
(* of its own; what they share is the peer store, where a peer that is     *)
(* known stays known until the node restarts.                              *)
(***************************************************************************)
EXTENDS Discovery, FiniteSetTheorems, TLAPS

StoreEntry ==
    [known : BOOLEAN, tags : SUBSET TagNames,
     addresses : Versions \cup {None}, shards : Versions \cup {None}]

\* Of a step: the peer store forgets nothing.
KnownStay == \A p \in Peers : store[p].known => store'[p].known

(* Peer exchange. *)

ChainType ==
    [at : {"idle", "query", "has", "get", "patch", "merge", "save", "timer"},
     peer : Peers \cup {None}, records : Seq(Records),
     diff : [addresses : BOOLEAN, shards : BOOLEAN],
     attempt : 0 .. maxRetries + 1]

\* A chain asks a server, has a record when it deals with one, and waits for a
\* timer only before it gives up.
GoodChain(k) ==
    /\ k \in ChainType
    /\ k.at # "idle" => k.peer \in Servers
    /\ k.at \in {"has", "get", "patch", "merge", "save"} => k.records # <<>>
    /\ k.at = "timer" => k.attempt <= maxRetries

ExchangeInv ==
    /\ listening \in BOOLEAN
    /\ queryingPeers \subseteq Servers
    /\ queryAttempts \in [Servers -> 0 .. maxRetries + 1]
    /\ chain \in [Chains -> ChainType]
    /\ \A c \in Chains : GoodChain(chain[c])
    /\ Exchange!OneChainPerPeer

(* DNS. *)

FindType ==
    [at : {"idle", "search", "has", "get", "merge", "save"},
     next : Subdomains, visits : SUBSET Subdomains, searches : Nat,
     actual : [Dns!Protocols -> Nat], nodes : SUBSET Peers,
     taken : SUBSET Peers, peer : Peers \cup {None}]

UpTo(n, bound) == IF n <= bound THEN n ELSE bound

\* What the peers taken count for: of each capability no more than is wanted.
Useful(actual) ==
    UpTo(actual["relay"], Wanted["relay"]) + UpTo(actual["store"], Wanted["store"])
    + UpTo(actual["filter"], Wanted["filter"])
    + UpTo(actual["lightPush"], Wanted["lightPush"])

\* Each peer taken counts for something.
TakenFor(f) ==
    /\ f \in FindType
    /\ f.taken \subseteq f.nodes /\ None \notin f.taken
    /\ IsFiniteSet(f.taken)
    /\ Cardinality(f.taken) <= Useful(f.actual)

GoodFind(f) ==
    /\ TakenFor(f)
    /\ f.at \in {"has", "get", "merge", "save"} => f.peer \in Peers
    /\ f.at = "search" /\ EntryType[f.next] = "record"
         /\ f.next \notin Dns!UnderNoBranch => f.next \notin f.visits

DnsInv ==
    /\ _started \in BOOLEAN /\ cached \subseteq Subdomains
    /\ GoodFind(find)

(* The local peer cache. *)

Addresses == Versions \cup {None}
Stored(cache) == {p \in Peers : cache[p] # None}

LoopType ==
    [at : {"off", "has", "save", "over"}, left : Seq(Peers),
     cache : [Peers -> Addresses]]

CacheTypes ==
    /\ localStorage \in [Peers -> Addresses] /\ peers \in [Peers -> Addresses]
    /\ registered \in BOOLEAN /\ started \in BOOLEAN
    /\ loop \in LoopType
    /\ loop.at \in {"has", "save"} <=> loop.left # <<>>
    /\ restarts \in 0 .. MaxRestarts
    /\ latest \in [Peers -> Addresses]

\* While start goes over the cached peers, those that are not in the peer store
\* are still to come; once it has returned, all are there.
LoopCovers ==
    /\ started => loop.at = "off"
    /\ loop.at # "off" =>
         \A p \in Stored(peers) : store[p].known
                                  \/ \E i \in DOMAIN loop.left : loop.left[i] = p

CacheInv ==
    /\ CacheTypes
    /\ Cache!MemoryCoversStorage
    /\ LoopCovers
    /\ Cache!CachedPeersKnown
    /\ IsFiniteSet(Stored(peers))

DiscoveryInv ==
    /\ services \in Deployments
    /\ PeerStoreTypeOK
    /\ ExchangeInv /\ DnsInv /\ CacheInv

-----------------------------------------------------------------------------
(* The peer store. *)

LEMMA StoreNumbers ==
    /\ Versions \subseteq Nat \ {0} /\ None = 0
    /\ Exchange!None = None /\ Dns!None = None /\ Cache!None = None
BY PeerStoreAssumption DEF None, Exchange!None, Dns!None, Cache!None

\* A peer that is written is known, and no other is forgotten.
LEMMA StoreWrites ==
    ASSUME PeerStoreTypeOK, NEW p \in Peers, NEW new \in StoreEntry, new.known,
           store' = [store EXCEPT ![p] = new], announced' \subseteq Peers
    PROVE  PeerStoreTypeOK' /\ KnownStay /\ store'[p].known
<1>1. store \in [Peers -> StoreEntry]
  BY DEF PeerStoreTypeOK, StoreEntry
<1>2. store' \in [Peers -> StoreEntry] /\ store'[p] = new
      /\ \A q \in Peers \ {p} : store'[q] = store[q]
  BY <1>1
<1>3. KnownStay
  BY <1>2 DEF KnownStay
<1>4. PeerStoreTypeOK'
  BY <1>2 DEF PeerStoreTypeOK, StoreEntry
<1> QED
  BY <1>2, <1>3, <1>4

LEMMA StoreStays ==
    ASSUME PeerStoreTypeOK, UNCHANGED <<store, announced>>
    PROVE  PeerStoreTypeOK' /\ KnownStay
BY DEF PeerStoreTypeOK, KnownStay

\* The entries that the services write, made of what the entry was.
LEMMA EntriesWritten ==
    ASSUME PeerStoreTypeOK, NEW p \in Peers, NEW v \in Versions \cup {None},
           NEW w \in Versions \cup {None}, NEW tag \in TagNames
    PROVE  /\ [known |-> TRUE, tags |-> {tag}, addresses |-> v, shards |-> w]
                \in StoreEntry
           /\ [store[p] EXCEPT !.known = TRUE, !.tags = store[p].tags \cup {tag}]
                \in StoreEntry
           /\ [store[p] EXCEPT !.known = TRUE, !.addresses = v] \in StoreEntry
           /\ [store[p] EXCEPT !.known = TRUE, !.shards = v] \in StoreEntry
           /\ [store[p] EXCEPT !.known = TRUE, !.tags = store[p].tags \cup {tag}].known
           /\ [store[p] EXCEPT !.known = TRUE, !.addresses = v].known
           /\ [store[p] EXCEPT !.known = TRUE, !.shards = v].known
<1>1. store[p] \in StoreEntry
  BY DEF PeerStoreTypeOK, StoreEntry
<1> QED
  BY <1>1 DEF StoreEntry

-----------------------------------------------------------------------------
(* Peer exchange. *)

LEMMA ExchangeNumbers ==
    /\ maxRetries \in Nat /\ MaxRecords \in Nat
    /\ Servers \subseteq Peers
    /\ \A r \in Records : /\ r.peer \in Peers /\ r.addresses \in Versions
                          /\ r.shards \in Versions \cup {None}
BY ServicesAssumption, StoreNumbers DEF Exchange!PeerExchangeAssumption

LEMMA NoChainIsGood ==
    GoodChain(Exchange!NoChain) /\ Exchange!NoChain.at = "idle"
<1>1. /\ Exchange!NoChain =
           [at |-> "idle", peer |-> None, records |-> <<>>,
            diff |-> [addresses |-> FALSE, shards |-> FALSE], attempt |-> 0]
      /\ <<>> \in Seq(Records)
  BY StoreNumbers DEF Exchange!NoChain, Exchange!NoDiff
<1> QED
  BY <1>1, ExchangeNumbers DEF GoodChain, ChainType

\* A chain that runs goes on with its peer, or ends.
LEMMA ChainMoves ==
    ASSUME ExchangeInv, NEW c \in Chains, Exchange!Running(c), NEW new,
           GoodChain(new), chain' = [chain EXCEPT ![c] = new], listening' = listening,
           queryAttempts' \in [Servers -> 0 .. maxRetries + 1],
           \/ /\ new.at # "idle" /\ new.peer = chain[c].peer
              /\ queryingPeers' = queryingPeers
           \/ /\ new.at = "idle"
              /\ queryingPeers' \in {queryingPeers, queryingPeers \ {chain[c].peer}}
    PROVE  ExchangeInv'
<1>1. chain \in [Chains -> ChainType] /\ new \in ChainType
  BY DEF ExchangeInv, GoodChain
<1>2. /\ chain' \in [Chains -> ChainType] /\ chain'[c] = new
      /\ \A d \in Chains \ {c} : chain'[d] = chain[d]
  BY <1>1
<1>3. \A d \in Chains : GoodChain(chain'[d])
  BY <1>2 DEF ExchangeInv
<1>4. Exchange!OneChainPerPeer'
  <2>1. ASSUME NEW d \in Chains, chain'[d].at # "idle"
        PROVE  /\ chain[d].at # "idle" /\ chain'[d].peer = chain[d].peer
               /\ chain[d].peer \in queryingPeers'
    <3>1. CASE d = c
      BY <1>2, <2>1, <3>1 DEF ExchangeInv, Exchange!OneChainPerPeer, Exchange!Running
    <3>2. CASE d # c
      BY <1>2, <2>1, <3>2 DEF ExchangeInv, Exchange!OneChainPerPeer, Exchange!Running
    <3> QED
      BY <3>1, <3>2
  <2> QED
    BY <2>1 DEF ExchangeInv, Exchange!OneChainPerPeer, Exchange!Running
<1> QED
  BY <1>2, <1>3, <1>4, ExchangeNumbers DEF ExchangeInv

\* A query that is over ends its chain, or waits for the timer of the next one.
LEMMA QueryOverKeeps ==
    ASSUME ExchangeInv, NEW c \in Chains, Exchange!Running(c),
           Exchange!QueryIsOver(c), listening' = listening
    PROVE  ExchangeInv'
<1> DEFINE p == chain[c].peer
           n == Exchange!CurrentAttempt(p)
<1>1. p \in Servers /\ chain[c] \in ChainType /\ queryAttempts[p] \in 0 .. maxRetries + 1
  BY DEF ExchangeInv, GoodChain, Exchange!Running
<1>2. n \in Nat
  BY <1>1, ExchangeNumbers DEF Exchange!CurrentAttempt
<1>3. CASE Exchange!AttemptsUsed(p)
  <2>1. /\ chain' = [chain EXCEPT ![c] = Exchange!NoChain]
        /\ queryingPeers' = queryingPeers \ {p}
        /\ queryAttempts' = [queryAttempts EXCEPT ![p] = 0]
    BY <1>3 DEF Exchange!QueryIsOver
  <2>2. queryAttempts' \in [Servers -> 0 .. maxRetries + 1]
    BY <1>1, <2>1, ExchangeNumbers DEF ExchangeInv
  <2> QED
    BY <2>1, <2>2, NoChainIsGood, ChainMoves
<1>4. CASE ~Exchange!AttemptsUsed(p)
  <2> DEFINE new == [chain[c] EXCEPT !.at = "timer", !.records = <<>>,
                                     !.diff = Exchange!NoDiff, !.attempt = n]
  <2>1. /\ chain' = [chain EXCEPT ![c] = new]
        /\ UNCHANGED <<queryingPeers, queryAttempts>>
    BY <1>4 DEF Exchange!QueryIsOver
  <2>2. n <= maxRetries /\ n \in 0 .. maxRetries + 1
    BY <1>2, <1>4, ExchangeNumbers DEF Exchange!AttemptsUsed
  <2> HIDE DEF n
  <2>3. /\ <<>> \in Seq(Records)
        /\ Exchange!NoDiff \in [addresses : BOOLEAN, shards : BOOLEAN]
    BY DEF Exchange!NoDiff
  <2>4. /\ new \in ChainType /\ new.at = "timer" /\ new.peer = p /\ new.attempt = n
    BY <1>1, <2>2, <2>3 DEF ChainType
  <2>5. GoodChain(new)
    BY <1>1, <2>2, <2>4 DEF GoodChain
  <2> HIDE DEF new
  <2> QED
    BY <2>1, <2>4, <2>5, ChainMoves DEF ExchangeInv
<1> QED
  BY <1>3, <1>4

LEMMA TailOfList ==
    ASSUME NEW S, NEW s \in Seq(S), Len(s) > 1
    PROVE  Tail(s) \in Seq(S) /\ Tail(s) # <<>>
<1> DEFINE t == Tail(s)
<1>1. t \in Seq(S) /\ Len(t) = Len(s) - 1 /\ Len(s) \in Nat
  OBVIOUS
<1> HIDE DEF t
<1>2. ASSUME t = <<>> PROVE FALSE
  <2>1. Len(t) = 0
    BY <1>2
  <2> QED
    BY <1>1, <2>1
<1> QED
  BY <1>1, <1>2 DEF t

LEMMA RecordDoneKeeps ==
    ASSUME ExchangeInv, NEW c \in Chains, Exchange!Running(c),
           Exchange!RecordIsDone(c), listening' = listening
    PROVE  ExchangeInv'
<1>1. CASE Len(chain[c].records) > 1
  <2> DEFINE new == [chain[c] EXCEPT !.at = "has", !.diff = Exchange!NoDiff,
                                     !.records = Tail(chain[c].records)]
  <2>1. /\ chain' = [chain EXCEPT ![c] = new]
        /\ UNCHANGED <<queryingPeers, queryAttempts>>
    BY <1>1 DEF Exchange!RecordIsDone
  <2>2. chain[c] \in ChainType /\ chain[c].peer \in Servers
    BY DEF ExchangeInv, GoodChain, Exchange!Running
  <2>3. /\ Tail(chain[c].records) \in Seq(Records) /\ Tail(chain[c].records) # <<>>
        /\ Exchange!NoDiff \in [addresses : BOOLEAN, shards : BOOLEAN]
    <3>1. chain[c].records \in Seq(Records)
      BY <2>2 DEF ChainType
    <3>2. Tail(chain[c].records) \in Seq(Records) /\ Tail(chain[c].records) # <<>>
      BY <1>1, <3>1, TailOfList
    <3> QED
      BY <3>2 DEF Exchange!NoDiff
  <2>4. /\ new \in ChainType /\ new.at = "has" /\ new.peer = chain[c].peer
        /\ new.records # <<>>
    BY <2>2, <2>3 DEF ChainType
  <2>5. GoodChain(new)
    BY <2>2, <2>4 DEF GoodChain
  <2> HIDE DEF new
  <2> QED
    BY <2>1, <2>4, <2>5, ChainMoves DEF ExchangeInv
<1>2. CASE ~(Len(chain[c].records) > 1)
  BY <1>2, QueryOverKeeps DEF Exchange!RecordIsDone
<1> QED
  BY <1>1, <1>2

\* A chain goes on to the next operation of the peer store for the same record.
LEMMA ChainGoesOn ==
    ASSUME ExchangeInv, NEW c \in Chains, Exchange!Running(c),
           NEW at \in {"get", "patch", "merge", "save"},
           NEW diff \in [addresses : BOOLEAN, shards : BOOLEAN],
           chain[c].at \in {"has", "get", "patch", "merge", "save"},
           chain' = [chain EXCEPT ![c] = [chain[c] EXCEPT !.at = at, !.diff = diff]],
           UNCHANGED <<listening, queryingPeers, queryAttempts>>
    PROVE  ExchangeInv'
<1> DEFINE new == [chain[c] EXCEPT !.at = at, !.diff = diff]
<1>1. GoodChain(chain[c]) /\ chain[c] \in ChainType /\ chain[c].peer \in Servers
  BY DEF ExchangeInv, GoodChain, Exchange!Running
<1>2. /\ new \in ChainType /\ new.at = at /\ new.peer = chain[c].peer
      /\ new.records = chain[c].records
  BY <1>1 DEF ChainType
<1>3. GoodChain(new)
  BY <1>1, <1>2 DEF GoodChain
<1> HIDE DEF new
<1>4. chain' = [chain EXCEPT ![c] = new]
  BY DEF new
<1> QED
  BY <1>2, <1>3, <1>4, ChainMoves DEF ExchangeInv

\* The first record of a chain that deals with records.
LEMMA FirstRecord ==
    ASSUME ExchangeInv, NEW c \in Chains,
           chain[c].at \in {"has", "get", "patch", "merge", "save"}
    PROVE  /\ Exchange!First(c).peer \in Peers
           /\ Exchange!First(c).addresses \in Versions
           /\ Exchange!First(c).shards \in Versions \cup {None}
           /\ Exchange!Running(c)
<1>1. chain[c].records \in Seq(Records) /\ chain[c].records # <<>>
  BY DEF ExchangeInv, GoodChain, ChainType
<1>2. Exchange!First(c) \in Records
  BY <1>1 DEF Exchange!First
<1> QED
  BY <1>2, ExchangeNumbers DEF Exchange!Running

LEMMA GoesKeeps ==
    ASSUME ExchangeInv, NEW c \in Chains, NEW at \in {"get", "patch", "merge", "save"},
           chain[c].at \in {"has", "get", "patch", "merge", "save"},
           Exchange!Goes(c, at), listening' = listening
    PROVE  ExchangeInv'
<1>1. Exchange!Running(c) /\ chain[c] \in ChainType
  BY DEF Exchange!Running, ExchangeInv
<1>2. chain[c].diff \in [addresses : BOOLEAN, shards : BOOLEAN]
  BY <1>1 DEF ChainType
<1>3. /\ chain' = [chain EXCEPT ![c].at = at]
      /\ UNCHANGED <<queryingPeers, queryAttempts>>
  BY DEF Exchange!Goes
<1>4. [chain[c] EXCEPT !.at = at] = [chain[c] EXCEPT !.at = at, !.diff = chain[c].diff]
  BY <1>1 DEF ChainType
<1> QED
  BY <1>1, <1>2, <1>3, <1>4, ChainGoesOn

\* A step of a chain keeps the invariant of peer exchange, and what it writes to
\* the peer store is a record.
LEMMA ChainStepKeeps ==
    ASSUME ExchangeInv, PeerStoreTypeOK, NEW c \in Chains, Exchange!ChainStep(c)
    PROVE  ExchangeInv' /\ PeerStoreTypeOK' /\ KnownStay
<1>0. GoodChain(chain[c]) /\ chain[c] \in ChainType
  BY DEF ExchangeInv, GoodChain
<1>1. CASE Exchange!QueryRejects(c)
  <2>1. /\ Exchange!Running(c) /\ listening' = listening
        /\ chain' = [chain EXCEPT ![c] = Exchange!NoChain]
        /\ UNCHANGED <<queryingPeers, queryAttempts, store, announced>>
    BY <1>1 DEF Exchange!QueryRejects, Exchange!Rejects, Exchange!Running
  <2>2. ExchangeInv'
    BY <2>1, NoChainIsGood, ChainMoves DEF ExchangeInv
  <2> QED
    BY <2>1, <2>2, StoreStays
<1>2. CASE Exchange!QueryFails(c)
  <2>1. /\ Exchange!Running(c) /\ Exchange!QueryIsOver(c)
        /\ UNCHANGED <<listening, store, announced>>
    BY <1>2 DEF Exchange!QueryFails, Exchange!Running
  <2> QED
    BY <2>1, QueryOverKeeps, StoreStays
<1>3. ASSUME NEW records \in Exchange!Replies, Exchange!QueryReturns(c, records)
      PROVE  ExchangeInv' /\ PeerStoreTypeOK' /\ KnownStay
  <2> DEFINE new == [chain[c] EXCEPT !.at = "has", !.records = records]
  <2>1. /\ Exchange!Running(c) /\ chain' = [chain EXCEPT ![c] = new]
        /\ UNCHANGED <<listening, queryingPeers, queryAttempts, store, announced>>
    BY <1>3 DEF Exchange!QueryReturns, Exchange!Running
  <2>2. records \in Seq(Records) /\ records # <<>>
    <3>1. PICK n \in 1 .. MaxRecords : records \in [1 .. n -> Records]
      BY DEF Exchange!Replies
    <3>2. n \in Nat /\ n >= 1
      BY ExchangeNumbers
    <3> QED
      BY <3>1, <3>2
  <2>3. /\ new \in ChainType /\ new.at = "has" /\ new.peer = chain[c].peer
        /\ new.records # <<>>
    BY <1>0, <2>2 DEF ChainType
  <2>4. GoodChain(new)
    BY <1>0, <2>1, <2>3 DEF GoodChain, Exchange!Running
  <2> HIDE DEF new
  <2>5. ExchangeInv'
    BY <2>1, <2>3, <2>4, ChainMoves DEF ExchangeInv
  <2> QED
    BY <2>1, <2>5, StoreStays
<1>4. CASE Exchange!Has(c)
  <2>1. /\ chain[c].at = "has" /\ UNCHANGED <<listening, store, announced>>
        /\ Exchange!Goes(c, "get") \/ Exchange!Goes(c, "save")
    BY <1>4 DEF Exchange!Has
  <2> QED
    BY <2>1, GoesKeeps, StoreStays
<1>5. CASE Exchange!Get(c)
  <2> DEFINE diff == Exchange!Diff(store[Exchange!First(c).peer], Exchange!First(c))
             at == IF diff.addresses THEN "patch" ELSE "merge"
  <2>1. /\ chain[c].at = "get" /\ UNCHANGED <<listening, store, announced>>
        /\ \/ Exchange!Goes(c, "save")
           \/ Exchange!RecordIsDone(c)
           \/ /\ chain' = [chain EXCEPT ![c] =
                             [chain[c] EXCEPT !.diff = diff, !.at = at]]
              /\ UNCHANGED <<queryingPeers, queryAttempts>>
    BY <1>5 DEF Exchange!Get
  <2>2. diff \in [addresses : BOOLEAN, shards : BOOLEAN]
        /\ at \in {"get", "patch", "merge", "save"}
    BY DEF Exchange!Diff
  <2>3. Exchange!Running(c)
    BY <2>1 DEF Exchange!Running
  <2> HIDE DEF diff, at
  <2>4. [chain[c] EXCEPT !.diff = diff, !.at = at]
          = [chain[c] EXCEPT !.at = at, !.diff = diff]
    BY <1>0 DEF ChainType
  <2>5. ExchangeInv'
    <3>1. CASE Exchange!Goes(c, "save")
      BY <2>1, <3>1, GoesKeeps
    <3>2. CASE Exchange!RecordIsDone(c)
      BY <2>1, <2>3, <3>2, RecordDoneKeeps
    <3>3. CASE /\ chain' = [chain EXCEPT ![c] =
                               [chain[c] EXCEPT !.diff = diff, !.at = at]]
               /\ UNCHANGED <<queryingPeers, queryAttempts>>
      <4>1. chain' = [chain EXCEPT ![c] = [chain[c] EXCEPT !.at = at, !.diff = diff]]
        BY <2>4, <3>3
      <4> QED
        BY <2>1, <2>2, <2>3, <3>3, <4>1, ChainGoesOn
    <3> QED
      BY <2>1, <3>1, <3>2, <3>3
  <2> QED
    BY <2>1, <2>5, StoreStays
<1>6. CASE Exchange!Patch(c)
  <2> DEFINE p == Exchange!First(c).peer
             v == Exchange!First(c).addresses
             entry == [store[p] EXCEPT !.known = TRUE, !.addresses = v]
  <2>1. /\ chain[c].at = "patch" /\ UNCHANGED <<listening, announced>>
        /\ store' = [store EXCEPT ![p] = entry]
        /\ Exchange!Goes(c, "merge") \/ Exchange!RecordIsDone(c)
    BY <1>6 DEF Exchange!Patch, Exchange!Patched
  <2>2. p \in Peers /\ v \in Versions /\ Exchange!Running(c)
    BY <2>1, FirstRecord
  <2>3. entry \in StoreEntry /\ entry.known
    <3> HIDE DEF p, v
    <3>1. "peer-exchange" \in TagNames
      BY DEF TagNames
    <3> QED
      BY <2>2, <3>1, EntriesWritten
  <2> HIDE DEF entry, p, v
  <2>4. PeerStoreTypeOK' /\ KnownStay
    BY <2>1, <2>2, <2>3, StoreWrites DEF PeerStoreTypeOK
  <2> QED
    BY <2>1, <2>2, <2>4, GoesKeeps, RecordDoneKeeps
<1>7. CASE Exchange!Merge(c)
  <2> DEFINE p == Exchange!First(c).peer
             w == Exchange!First(c).shards
             entry == [store[p] EXCEPT !.known = TRUE, !.shards = w]
  <2>1. /\ chain[c].at = "merge" /\ listening' = listening
        /\ announced' = announced \cup {p}
        /\ store' = [store EXCEPT ![p] = entry]
        /\ Exchange!RecordIsDone(c)
    BY <1>7 DEF Exchange!Merge, Exchange!MergedShards
  <2>2. p \in Peers /\ w \in Versions \cup {None} /\ Exchange!Running(c)
    BY <2>1, FirstRecord
  <2>3. entry \in StoreEntry /\ entry.known
    <3> HIDE DEF p, w
    <3>1. "peer-exchange" \in TagNames
      BY DEF TagNames
    <3> QED
      BY <2>2, <3>1, EntriesWritten
  <2> HIDE DEF entry, p, w
  <2>4. PeerStoreTypeOK' /\ KnownStay
    BY <2>1, <2>2, <2>3, StoreWrites DEF PeerStoreTypeOK
  <2> QED
    BY <2>1, <2>2, <2>4, RecordDoneKeeps
<1>8. CASE Exchange!Save(c)
  <2> DEFINE p == Exchange!First(c).peer
             v == Exchange!First(c).addresses
             w == Exchange!First(c).shards
             entry == [known |-> TRUE, tags |-> {"peer-exchange"},
                       addresses |-> v, shards |-> w]
  <2>1. /\ chain[c].at = "save" /\ listening' = listening
        /\ announced' = announced \cup {p}
        /\ store' = [store EXCEPT ![p] = entry]
        /\ Exchange!RecordIsDone(c)
    BY <1>8 DEF Exchange!Save, Exchange!Saved
  <2>2. /\ p \in Peers /\ v \in Versions /\ w \in Versions \cup {None}
        /\ Exchange!Running(c)
    BY <2>1, FirstRecord
  <2>3. entry \in StoreEntry /\ entry.known
    <3> HIDE DEF p, v, w
    <3>1. "peer-exchange" \in TagNames
      BY DEF TagNames
    <3> QED
      BY <2>2, <3>1, EntriesWritten
  <2> HIDE DEF entry, p, v, w
  <2>4. PeerStoreTypeOK' /\ KnownStay
    BY <2>1, <2>2, <2>3, StoreWrites DEF PeerStoreTypeOK
  <2> QED
    BY <2>1, <2>2, <2>4, RecordDoneKeeps
<1>9. CASE Exchange!Timer(c)
  <2> DEFINE p == chain[c].peer
             new == [chain[c] EXCEPT !.at = "query"]
  <2>1. /\ Exchange!Running(c) /\ chain[c].at = "timer"
        /\ queryAttempts' = [queryAttempts EXCEPT ![p] = chain[c].attempt + 1]
        /\ chain' = [chain EXCEPT ![c].at = "query"]
        /\ UNCHANGED <<listening, queryingPeers, store, announced>>
    BY <1>9 DEF Exchange!Timer, Exchange!Running
  <2>2. chain[c].attempt \in 0 .. maxRetries /\ p \in Servers
    BY <1>0, <2>1, ExchangeNumbers DEF GoodChain, ChainType
  <2>3. chain[c].attempt + 1 \in 0 .. maxRetries + 1
    BY <2>2, ExchangeNumbers
  <2>4. queryAttempts' \in [Servers -> 0 .. maxRetries + 1]
    BY <2>1, <2>2, <2>3 DEF ExchangeInv
  <2>5. new \in ChainType /\ new.at = "query" /\ new.peer = p
    BY <1>0 DEF ChainType
  <2>6. GoodChain(new) /\ chain' = [chain EXCEPT ![c] = new]
    BY <2>1, <2>2, <2>5 DEF GoodChain
  <2> HIDE DEF new
  <2>7. ExchangeInv'
    BY <2>1, <2>4, <2>5, <2>6, ChainMoves
  <2> QED
    BY <2>1, <2>7, StoreStays
<1>10. CASE Exchange!StoreRejects(c)
  <2>1. /\ Exchange!Running(c) /\ listening' = listening
        /\ chain' = [chain EXCEPT ![c] = Exchange!NoChain]
        /\ UNCHANGED <<queryingPeers, queryAttempts, store, announced>>
    BY <1>10 DEF Exchange!StoreRejects, Exchange!Rejects, Exchange!Running
  <2>2. ExchangeInv'
    BY <2>1, NoChainIsGood, ChainMoves DEF ExchangeInv
  <2> QED
    BY <2>1, <2>2, StoreStays
<1> QED
  BY <1>1, <1>2, <1>3, <1>4, <1>5, <1>6, <1>7, <1>8, <1>9, <1>10
     DEF Exchange!ChainStep

LEMMA ExchangeStartKeeps ==
    ASSUME ExchangeInv, PeerStoreTypeOK, Exchange!StartStep
    PROVE  ExchangeInv' /\ PeerStoreTypeOK' /\ KnownStay
<1>1. CASE Exchange!start
  <2>1. /\ listening' = TRUE
        /\ UNCHANGED <<queryingPeers, queryAttempts, chain, store, announced>>
    BY <1>1 DEF Exchange!start
  <2>2. ExchangeInv'
    BY <2>1 DEF ExchangeInv, GoodChain, Exchange!OneChainPerPeer, Exchange!Running
  <2> QED
    BY <2>1, <2>2, StoreStays
<1>2. ASSUME NEW p \in Peers, NEW c \in Chains, Exchange!handleDiscoveredPeer(p, c)
      PROVE  ExchangeInv' /\ PeerStoreTypeOK' /\ KnownStay
  <2> DEFINE new == [Exchange!NoChain EXCEPT !.at = "query", !.peer = p]
  <2>1. /\ p \in Servers /\ p \notin queryingPeers /\ chain[c].at = "idle"
        /\ queryingPeers' = queryingPeers \cup {p}
        /\ chain' = [chain EXCEPT ![c] = new]
        /\ UNCHANGED <<listening, queryAttempts, store, announced>>
    BY <1>2 DEF Exchange!handleDiscoveredPeer, Exchange!MayAsk
  <2>2. /\ new \in ChainType /\ new.at = "query" /\ new.peer = p
    BY NoChainIsGood DEF GoodChain, ChainType
  <2>3. GoodChain(new)
    BY <2>1, <2>2 DEF GoodChain
  <2> HIDE DEF new
  <2>4. /\ chain' \in [Chains -> ChainType] /\ chain'[c] = new
        /\ \A d \in Chains \ {c} : chain'[d] = chain[d]
    BY <2>1, <2>2 DEF ExchangeInv
  <2>5. \A d \in Chains : GoodChain(chain'[d])
    BY <2>3, <2>4 DEF ExchangeInv
  <2>6. Exchange!OneChainPerPeer'
    <3>1. \A d \in Chains \ {c} : chain[d].at # "idle" =>
            chain[d].peer \in queryingPeers /\ chain[d].peer # p
      BY <2>1 DEF ExchangeInv, Exchange!OneChainPerPeer, Exchange!Running
    <3> QED
      BY <2>1, <2>2, <2>4, <3>1 DEF ExchangeInv, Exchange!OneChainPerPeer, Exchange!Running
  <2>7. ExchangeInv'
    BY <2>1, <2>4, <2>5, <2>6 DEF ExchangeInv
  <2> QED
    BY <2>1, <2>7, StoreStays
<1> QED
  BY <1>1, <1>2 DEF Exchange!StartStep

-----------------------------------------------------------------------------
(* DNS. *)

LEMMA TreeIsTyped ==
    /\ Domain \in Subdomains
    /\ EntryType \in [Subdomains -> {"root", "branch", "record", "other"}]
    /\ Children \in [Subdomains -> SUBSET Subdomains]
    /\ NodeOf \in [Subdomains -> Peers]
    /\ Capabilities \in [Peers -> SUBSET Dns!Protocols]
    /\ Wanted \in [Dns!Protocols -> Nat]
BY ServicesAssumption DEF Dns!DnsDiscoveryAssumption

LEMMA WantedAreNumbers ==
    /\ Wanted["relay"] \in Nat /\ Wanted["store"] \in Nat
    /\ Wanted["filter"] \in Nat /\ Wanted["lightPush"] \in Nat
BY TreeIsTyped DEF Dns!Protocols

LEMMA UpToBounded ==
    ASSUME NEW n \in Nat, NEW bound \in Nat
    PROVE  UpTo(n, bound) \in Nat /\ UpTo(n, bound) <= bound
BY DEF UpTo

LEMMA UpToGrows ==
    ASSUME NEW n \in Nat, NEW m \in Nat, NEW bound \in Nat, n <= m
    PROVE  /\ UpTo(n, bound) <= UpTo(m, bound)
           /\ n < m /\ n < bound => UpTo(n, bound) + 1 <= UpTo(m, bound)
BY DEF UpTo

LEMMA UsefulBounded ==
    ASSUME NEW actual \in [Dns!Protocols -> Nat]
    PROVE  Useful(actual) \in Nat /\ Useful(actual) <= Dns!maxSearches
<1>1. /\ actual["relay"] \in Nat /\ actual["store"] \in Nat
      /\ actual["filter"] \in Nat /\ actual["lightPush"] \in Nat
  BY DEF Dns!Protocols
<1>3. \A n, bound \in Nat : UpTo(n, bound) \in 0 .. bound
  BY UpToBounded
<1>2. /\ UpTo(actual["relay"], Wanted["relay"]) \in 0 .. Wanted["relay"]
      /\ UpTo(actual["store"], Wanted["store"]) \in 0 .. Wanted["store"]
      /\ UpTo(actual["filter"], Wanted["filter"]) \in 0 .. Wanted["filter"]
      /\ UpTo(actual["lightPush"], Wanted["lightPush"]) \in 0 .. Wanted["lightPush"]
  BY <1>1, <1>3, WantedAreNumbers
<1> QED
  BY <1>2, WantedAreNumbers DEF Useful, Dns!maxSearches

\* A peer that helps to satisfy a capability counts for at least one.
LEMMA UsefulGrows ==
    ASSUME NEW a \in [Dns!Protocols -> Nat], NEW b \in [Dns!Protocols -> Nat],
           \A c \in Dns!Protocols : a[c] <= b[c],
           NEW h \in Dns!Protocols, a[h] < b[h], a[h] < Wanted[h]
    PROVE  Useful(a) + 1 <= Useful(b)
<1>1. ASSUME NEW c \in Dns!Protocols
      PROVE  /\ UpTo(a[c], Wanted[c]) \in Nat /\ UpTo(b[c], Wanted[c]) \in Nat
             /\ UpTo(a[c], Wanted[c]) <= UpTo(b[c], Wanted[c])
             /\ c = h => UpTo(a[c], Wanted[c]) + 1 <= UpTo(b[c], Wanted[c])
  <2>1. Wanted[c] \in Nat /\ a[c] \in Nat /\ b[c] \in Nat /\ a[c] <= b[c]
    BY TreeIsTyped
  <2> QED
    BY <2>1, UpToBounded, UpToGrows
<1>2. "relay" \in Dns!Protocols /\ "store" \in Dns!Protocols
      /\ "filter" \in Dns!Protocols /\ "lightPush" \in Dns!Protocols
  BY DEF Dns!Protocols
<1>3. h \in {"relay", "store", "filter", "lightPush"}
  BY DEF Dns!Protocols
<1> QED
  BY <1>1, <1>2, <1>3 DEF Useful

LEMMA NotFindingIsGood == GoodFind(Dns!NotFinding) /\ TakenFor(Dns!NotFinding)
<1>1. Dns!NotFinding =
        [at |-> "idle", next |-> Domain, visits |-> {}, searches |-> 0,
         actual |-> Dns!NothingFound, nodes |-> {}, taken |-> {}, peer |-> None]
  BY StoreNumbers DEF Dns!NotFinding
<1>2. Dns!NothingFound \in [Dns!Protocols -> Nat]
  BY DEF Dns!NothingFound
<1>3. IsFiniteSet({}) /\ Cardinality({}) = 0
  BY FS_EmptySet
<1>4. Dns!NotFinding \in FindType
  BY <1>1, <1>2, TreeIsTyped DEF FindType
<1>5. TakenFor(Dns!NotFinding)
  <2>1. 0 <= Useful(Dns!NothingFound)
    BY <1>2, UsefulBounded
  <2> QED
    BY <1>1, <1>3, <1>4, <2>1 DEF TakenFor
<1> QED
  BY <1>1, <1>5 DEF GoodFind

LEMMA LoopIsGood ==
    ASSUME NEW f, TakenFor(f)
    PROVE  GoodFind(Dns!Loop(f))
<1> DEFINE g == [f EXCEPT !.at = "search", !.next = Domain, !.peer = None]
<1>1. f \in FindType
  BY DEF TakenFor
<1>2. /\ g \in FindType /\ g.at = "search" /\ g.next = Domain
      /\ g.taken = f.taken /\ g.nodes = f.nodes /\ g.actual = f.actual
  BY <1>1, TreeIsTyped DEF FindType
<1>3. Domain \in Dns!UnderNoBranch
  BY DEF Dns!UnderNoBranch
<1>4. Dns!Loop(f) \in {g, Dns!NotFinding}
  BY StoreNumbers DEF Dns!Loop
<1> HIDE DEF g
<1>5. GoodFind(g)
  BY <1>2, <1>3 DEF GoodFind, TakenFor
<1> QED
  BY <1>4, <1>5, NotFindingIsGood

LEMMA SearchedIsGood ==
    ASSUME NEW f, TakenFor(f), NEW peer \in Peers \cup {None}, NEW described
    PROVE  GoodFind(Dns!Searched(f, peer, described))
<1> DEFINE nodes == (f.nodes \cup {peer}) \ {None}
           g == [f EXCEPT !.searches = f.searches + 1, !.nodes = nodes]
           b == Dns!addCapabilities(peer, f.actual)
           h == [g EXCEPT !.actual = b, !.at = "has",
                          !.taken = f.taken \cup {peer}, !.peer = peer]
           k == [g EXCEPT !.actual = b]
<1>1. f \in FindType
  BY DEF TakenFor
<1>2. /\ nodes \subseteq Peers /\ f.taken \subseteq nodes
      /\ peer # None => peer \in nodes
  BY <1>1 DEF TakenFor, FindType
<1>3. /\ g \in FindType /\ g.taken = f.taken /\ g.nodes = nodes
      /\ g.actual = f.actual
  <2> HIDE DEF nodes
  <2>1. f.searches + 1 \in Nat
    BY <1>1 DEF FindType
  <2> QED
    BY <1>1, <1>2, <2>1 DEF FindType
<1>4. TakenFor(g)
  <2> HIDE DEF g, nodes
  <2> QED
    BY <1>2, <1>3 DEF TakenFor
<1>5. \/ Dns!Searched(f, peer, described) = Dns!Loop(g)
      \/ Dns!Searched(f, peer, described) = Dns!NotFinding
      \/ /\ Dns!Searched(f, peer, described) \in {h, Dns!Loop(k)}
         /\ peer \notin f.nodes /\ peer # None
         /\ Dns!helpsSatisfyCapabilities(peer, f.actual)
  <2>1. g.actual = f.actual /\ g.taken = f.taken
    BY <1>3
  <2> QED
    BY <2>1, StoreNumbers DEF Dns!Searched
<1>6. ASSUME peer \notin f.nodes, peer # None,
             Dns!helpsSatisfyCapabilities(peer, f.actual)
      PROVE  GoodFind(h) /\ TakenFor(k)
  <2>1. peer \in Peers /\ f.actual \in [Dns!Protocols -> Nat]
    BY <1>1, <1>6 DEF FindType
  <2>2. b = [c \in Dns!Protocols |->
               f.actual[c] + IF c \in Capabilities[peer] THEN 1 ELSE 0]
    BY DEF Dns!addCapabilities
  <2>3. /\ b \in [Dns!Protocols -> Nat]
        /\ \A c \in Dns!Protocols : f.actual[c] <= b[c]
        /\ \A c \in Dns!Protocols : c \in Capabilities[peer] => f.actual[c] < b[c]
    BY <2>1, <2>2
  <2>4. PICK c \in Capabilities[peer] : f.actual[c] < Wanted[c]
    BY <1>6 DEF Dns!helpsSatisfyCapabilities
  <2>5. c \in Dns!Protocols
    BY <2>1, TreeIsTyped
  <2> HIDE DEF b
  <2>6. Useful(f.actual) + 1 <= Useful(b)
    BY <2>1, <2>3, <2>4, <2>5, UsefulGrows
  <2>7. /\ IsFiniteSet(f.taken \cup {peer})
        /\ Cardinality(f.taken \cup {peer}) <= Cardinality(f.taken) + 1
        /\ Cardinality(f.taken) \in Nat
        /\ Cardinality(f.taken \cup {peer}) \in Nat
    <3>1. IsFiniteSet(f.taken)
      BY DEF TakenFor
    <3>2. /\ IsFiniteSet(f.taken \cup {peer})
          /\ \/ Cardinality(f.taken \cup {peer}) = Cardinality(f.taken)
             \/ Cardinality(f.taken \cup {peer}) = Cardinality(f.taken) + 1
      BY <3>1, FS_AddElement, Zenon
    <3>3. Cardinality(f.taken) \in Nat
      BY <3>1, FS_CardinalityType
    <3>4. Cardinality(f.taken \cup {peer}) \in Nat
      BY <3>2, FS_CardinalityType
    <3> QED
      BY <3>2, <3>3, <3>4
  <2>8. Cardinality(f.taken \cup {peer}) <= Useful(b)
    BY <2>1, <2>3, <2>6, <2>7, UsefulBounded DEF TakenFor
  <2>9. f.taken \cup {peer} \subseteq nodes
    BY <1>2, <1>6
  <2>10. /\ h \in FindType /\ h.taken = f.taken \cup {peer} /\ h.nodes = nodes
         /\ h.actual = b /\ h.peer = peer /\ h.at = "has"
    <3> HIDE DEF g, nodes
    <3> QED
      BY <1>2, <1>3, <2>1, <2>3, <2>9 DEF FindType
  <2>11. None \notin f.taken \cup {peer}
    BY <1>6 DEF TakenFor
  <2>12. /\ k \in FindType /\ k.taken = f.taken /\ k.nodes = nodes /\ k.actual = b
    <3> HIDE DEF g, nodes
    <3> QED
      BY <1>3, <2>3 DEF FindType
  <2>13. Cardinality(f.taken) <= Useful(b)
    BY <2>1, <2>3, <2>6, <2>7, UsefulBounded DEF TakenFor
  <2> HIDE DEF h, k, g, nodes
  <2>14. GoodFind(h)
    BY <2>1, <2>7, <2>8, <2>9, <2>10, <2>11 DEF GoodFind, TakenFor
  <2>15. TakenFor(k)
    BY <1>2, <2>12, <2>13 DEF TakenFor
  <2> QED
    BY <2>14, <2>15
<1> HIDE DEF g, h, k, nodes, b
<1> QED
  BY <1>4, <1>5, <1>6, LoopIsGood, NotFindingIsGood

LEMMA FindStepKeeps ==
    ASSUME DnsInv, PeerStoreTypeOK, Dns!FindStep
    PROVE  DnsInv' /\ PeerStoreTypeOK' /\ KnownStay
<1>1. GoodFind(find) /\ TakenFor(find) /\ find \in FindType
  BY DEF DnsInv, GoodFind, TakenFor
<1>2. ASSUME GoodFind(find'), _started' = _started, cached' \subseteq Subdomains
      PROVE  DnsInv'
  BY <1>2 DEF DnsInv, GoodFind, TakenFor, FindType, Useful, UpTo, Dns!UnderNoBranch
<1>3. CASE Dns!SearchFails
  <2>1. /\ find' = Dns!Searched(find, None, FALSE)
        /\ UNCHANGED <<_started, cached, store, announced>>
    BY <1>3, StoreNumbers DEF Dns!SearchFails
  <2>2. GoodFind(find')
    BY <1>1, <2>1, SearchedIsGood
  <2> QED
    BY <1>2, <2>1, <2>2, StoreStays DEF DnsInv
<1>4. CASE Dns!Resolved
  <2> DEFINE s == find.next
             f == [find EXCEPT !.visits = find.visits \cup {s}]
             branches == Dns!Viable(Children[s], f.visits)
  <2>1. s \in Subdomains /\ Children[s] \subseteq Subdomains /\ NodeOf[s] \in Peers
    BY <1>1, TreeIsTyped DEF FindType
  <2>2. /\ f \in FindType /\ f.visits = find.visits \cup {s}
        /\ f.taken = find.taken /\ f.nodes = find.nodes /\ f.actual = find.actual
        /\ f.at = find.at
    BY <1>1, <2>1 DEF FindType
  <2>3. TakenFor(f)
    <3> HIDE DEF f
    <3> QED
      BY <1>1, <2>2 DEF TakenFor
  <2>4. /\ find.at = "search" /\ cached' = cached \cup {s}
        /\ UNCHANGED <<_started, store, announced>>
        /\ \/ EntryType[s] = "root" /\ \E next \in Children[s] :
                                          find' = [f EXCEPT !.next = next]
           \/ \E next \in branches : find' = [f EXCEPT !.next = next]
           \/ find' = Dns!Searched(f, None, FALSE)
           \/ \E described \in BOOLEAN :
                find' = Dns!Searched(f, NodeOf[s], described)
    BY <1>4, StoreNumbers DEF Dns!Resolved
  <2>5. ASSUME NEW next \in Subdomains,
               next \in Dns!UnderNoBranch \/ next \notin f.visits
        PROVE  GoodFind([f EXCEPT !.next = next])
    <3> DEFINE g == [f EXCEPT !.next = next]
    <3> HIDE DEF f
    <3>1. /\ g \in FindType /\ g.next = next /\ g.visits = f.visits
          /\ g.taken = f.taken /\ g.nodes = f.nodes /\ g.actual = f.actual
          /\ g.at = "search"
      BY <2>2, <2>4 DEF FindType
    <3> HIDE DEF g
    <3>2. GoodFind(g)
      BY <2>3, <2>5, <3>1 DEF GoodFind, TakenFor
    <3> QED
      BY <3>2 DEF g
  <2>6. ASSUME EntryType[s] = "root",
               \E next \in Children[s] : find' = [f EXCEPT !.next = next]
        PROVE  GoodFind(find')
    <3>1. PICK next \in Children[s] : find' = [f EXCEPT !.next = next]
      BY <2>6
    <3>2. next \in Subdomains /\ next \in Dns!UnderNoBranch
      BY <2>1, <2>6 DEF Dns!UnderNoBranch
    <3> HIDE DEF f
    <3> QED
      BY <2>5, <3>1, <3>2
  <2>7. ASSUME \E next \in branches : find' = [f EXCEPT !.next = next]
        PROVE  GoodFind(find')
    <3>1. PICK next \in branches : find' = [f EXCEPT !.next = next]
      BY <2>7
    <3>2. next \in Subdomains /\ next \notin f.visits
      BY <2>1 DEF Dns!Viable
    <3> HIDE DEF f
    <3> QED
      BY <2>5, <3>1, <3>2
  <2> HIDE DEF f, s, branches
  <2>8. GoodFind(find')
    <3>1. ASSUME NEW peer \in Peers \cup {None}, NEW described \in BOOLEAN,
                 find' = Dns!Searched(f, peer, described)
          PROVE  GoodFind(find')
      BY <2>3, <3>1, SearchedIsGood
    <3> QED
      BY <2>1, <2>4, <2>6, <2>7, <3>1
  <2> QED
    BY <1>2, <2>1, <2>4, <2>8, StoreStays DEF DnsInv
<1>5. ASSUME NEW at \in {"get", "save", "merge"},
             find.at \in {"has", "get", "merge", "save"},
             find' = [find EXCEPT !.at = at]
      PROVE  GoodFind(find')
  <2>1. /\ find' \in FindType /\ find'.at = at /\ find'.peer = find.peer
        /\ find'.taken = find.taken /\ find'.nodes = find.nodes
        /\ find'.actual = find.actual
    BY <1>1, <1>5 DEF FindType
  <2> QED
    BY <1>1, <1>5, <2>1 DEF GoodFind, TakenFor
<1>6. CASE Dns!Has
  <2>1. /\ find.at = "has" /\ UNCHANGED <<_started, cached, store, announced>>
        /\ \/ find' = [find EXCEPT !.at = "get"]
           \/ find' = [find EXCEPT !.at = "save"]
    BY <1>6 DEF Dns!Has
  <2>2. GoodFind(find')
    BY <1>5, <2>1
  <2> QED
    BY <1>2, <2>1, <2>2, StoreStays DEF DnsInv
<1>7. CASE Dns!Get
  <2>1. /\ find.at = "get" /\ UNCHANGED <<_started, cached, store, announced>>
        /\ \/ find' = Dns!Loop(find)
           \/ find' = [find EXCEPT !.at = "merge"]
    BY <1>7 DEF Dns!Get
  <2>2. GoodFind(find')
    BY <1>1, <1>5, <2>1, LoopIsGood
  <2> QED
    BY <1>2, <2>1, <2>2, StoreStays DEF DnsInv
<1>8. ASSUME find.at \in {"has", "get", "merge", "save"}
      PROVE  find.peer \in Peers /\ "bootstrap" \in TagNames
  BY <1>1, <1>8 DEF GoodFind, TagNames
<1>9. CASE Dns!Merge
  <2> DEFINE p == find.peer
             entry == [store[p] EXCEPT !.known = TRUE,
                                       !.tags = store[p].tags \cup {"bootstrap"}]
  <2>1. /\ find.at = "merge" /\ UNCHANGED <<_started, cached>>
        /\ store' = [store EXCEPT ![p] = entry]
        /\ announced' = announced \cup {p}
        /\ find' = Dns!Loop(find)
    BY <1>9 DEF Dns!Merge, Dns!MergedTag
  <2>2. p \in Peers /\ "bootstrap" \in TagNames
    BY <1>8, <2>1
  <2>3. entry \in StoreEntry /\ entry.known
    <3> HIDE DEF p
    <3> QED
      BY <2>2, EntriesWritten
  <2> HIDE DEF entry, p
  <2>4. PeerStoreTypeOK' /\ KnownStay
    BY <2>1, <2>2, <2>3, StoreWrites DEF PeerStoreTypeOK
  <2> QED
    BY <1>1, <1>2, <2>1, <2>4, LoopIsGood DEF DnsInv
<1>10. CASE Dns!Save
  <2> DEFINE p == find.peer
  <2>1. PICK shards \in Versions \cup {None} :
          store' = [store EXCEPT ![p] = [known |-> TRUE, tags |-> {"bootstrap"},
                                         addresses |-> None, shards |-> shards]]
    BY <1>10, StoreNumbers DEF Dns!Save, Dns!Saved
  <2> DEFINE entry == [known |-> TRUE, tags |-> {"bootstrap"},
                       addresses |-> None, shards |-> shards]
  <2>2. /\ find.at = "save" /\ UNCHANGED <<_started, cached>>
        /\ store' = [store EXCEPT ![p] = entry]
        /\ announced' = announced \cup {p}
        /\ find' = Dns!Loop(find)
    BY <1>10, <2>1 DEF Dns!Save
  <2>3. p \in Peers /\ "bootstrap" \in TagNames
    BY <1>8, <2>2
  <2>4. entry \in StoreEntry /\ entry.known
    <3> HIDE DEF p
    <3> QED
      BY <2>3, EntriesWritten
  <2> HIDE DEF entry, p
  <2>5. PeerStoreTypeOK' /\ KnownStay
    BY <2>2, <2>3, <2>4, StoreWrites DEF PeerStoreTypeOK
  <2> QED
    BY <1>1, <1>2, <2>2, <2>5, LoopIsGood DEF DnsInv
<1>11. CASE Dns!StoreFails
  <2>1. find' = Dns!NotFinding /\ UNCHANGED <<_started, cached, store, announced>>
    BY <1>11 DEF Dns!StoreFails
  <2> QED
    BY <1>2, <2>1, NotFindingIsGood, StoreStays DEF DnsInv
<1> QED
  BY <1>3, <1>4, <1>6, <1>7, <1>9, <1>10, <1>11 DEF Dns!FindStep

LEMMA DnsStartKeeps ==
    ASSUME DnsInv, PeerStoreTypeOK, Dns!StartStep
    PROVE  DnsInv' /\ PeerStoreTypeOK' /\ KnownStay
<1>1. GoodFind(find')
  <2>1. find' = find \/ find' = Dns!Loop(Dns!NotFinding)
    BY DEF Dns!StartStep, Dns!start, Dns!stop
  <2> QED
    BY <2>1, NotFindingIsGood, LoopIsGood DEF DnsInv
<1>2. _started' \in BOOLEAN /\ UNCHANGED <<cached, store, announced>>
  BY DEF Dns!StartStep, Dns!start, Dns!stop
<1> QED
  BY <1>1, <1>2, StoreStays
     DEF DnsInv, GoodFind, TakenFor, FindType, Useful, UpTo, Dns!UnderNoBranch

-----------------------------------------------------------------------------
(* The local peer cache. *)

LEMMA CacheNames ==
    /\ Cache!Addresses = Addresses /\ Cache!Stored(peers) = Stored(peers)
    /\ Cache!Stored(localStorage) = Stored(localStorage)
    /\ Cache!Stored(peers)' = Stored(peers)'
    /\ Cache!Stored(localStorage)' = Stored(localStorage)'
BY StoreNumbers DEF Cache!Addresses, Addresses, Cache!Stored, Stored

LEMMA CardinalityIsShared ==
    /\ \A S : Cache!Cardinality(S) = Cardinality(S)
    /\ \A S : Dns!Cardinality(S) = Cardinality(S)
BY Zenon DEF Cardinality, Cache!Cardinality, Dns!Cardinality

\* An order of a finite set is a sequence of its members and leaves none out.
LEMMA OrdersAreComplete ==
    ASSUME NEW S, IsFiniteSet(S), NEW order \in Cache!SetToSeqs(S)
    PROVE  /\ order \in Seq(S)
           /\ \A p \in S : \E i \in DOMAIN order : order[i] = p
<1> DEFINE n == Cardinality(S)
<1>1. n \in Nat
  BY FS_CardinalityType
<1>2. order \in [1 .. n -> S] /\ \A i, j \in 1 .. n : i # j => order[i] # order[j]
  BY CardinalityIsShared DEF Cache!SetToSeqs
<1>3. IsFiniteSet(1 .. n) /\ Cardinality(1 .. n) = n
  BY <1>1, FS_Interval
<1> HIDE DEF n
<1>4. order \in Injection(1 .. n, S)
  BY <1>2 DEF Injection, IsInjective
<1>5. order \in Surjection(1 .. n, S)
  BY <1>3, <1>4, FS_Injection DEF n
<1> QED
  BY <1>1, <1>2, <1>5 DEF Surjection

LEMMA NotLoopingIsTyped ==
    /\ Cache!NotLooping = [at |-> "off", left |-> <<>>, cache |-> [p \in Peers |-> None]]
    /\ Cache!NotLooping \in LoopType
<1>1. Cache!NotLooping = [at |-> "off", left |-> <<>>, cache |-> [p \in Peers |-> None]]
  BY StoreNumbers DEF Cache!NotLooping
<1>2. <<>> \in Seq(Peers) /\ [p \in Peers |-> None] \in [Peers -> Addresses]
  BY DEF Addresses
<1> QED
  BY <1>1, <1>2 DEF LoopType

\* A step that leaves memory and storage alone and forgets no peer keeps the
\* invariant of the cache when its loop does.
LEMMA CacheGoesOn ==
    ASSUME CacheInv, KnownStay,
           UNCHANGED <<localStorage, peers, restarts, latest>>,
           registered' \in BOOLEAN, started' \in BOOLEAN, loop' \in LoopType,
           loop'.at \in {"has", "save"} <=> loop'.left # <<>>,
           LoopCovers', Cache!CachedPeersKnown'
    PROVE  CacheInv'
<1>1. CacheTypes'
  BY DEF CacheInv, CacheTypes
<1>2. Cache!MemoryCoversStorage'
  BY DEF CacheInv, Cache!MemoryCoversStorage, Cache!Stored
<1>3. IsFiniteSet(Stored(peers))'
  BY DEF CacheInv
<1> QED
  BY <1>1, <1>2, <1>3 DEF CacheInv

LEMMA CacheStays ==
    ASSUME CacheInv, KnownStay, UNCHANGED Cache!cacheVars
    PROVE  CacheInv'
<1>1. UNCHANGED <<localStorage, peers, registered, started, loop, restarts, latest>>
  BY DEF Cache!cacheVars
<1>2. LoopCovers'
  BY <1>1 DEF CacheInv, LoopCovers, Stored, KnownStay
<1>3. Cache!CachedPeersKnown'
  BY <1>1 DEF CacheInv, Cache!CachedPeersKnown, Cache!Stored, KnownStay
<1> QED
  BY <1>1, <1>2, <1>3, CacheGoesOn DEF CacheInv, CacheTypes

\* The loop leaves the first of its peers behind it, and no other.
LEMMA NextPeerLeaves ==
    ASSUME CacheInv, loop.at \in {"has", "save"},
           loop' = Cache!NextPeer(Tail(loop.left))
    PROVE  /\ loop' \in LoopType /\ loop'.at \in {"has", "over"}
           /\ loop'.at \in {"has", "save"} <=> loop'.left # <<>>
           /\ Head(loop.left) \in Peers
           /\ \A i \in DOMAIN loop.left : \/ loop.left[i] = Head(loop.left)
                                          \/ \E j \in DOMAIN loop'.left :
                                               loop'.left[j] = loop.left[i]
<1> DEFINE left == loop.left
<1>1. loop \in LoopType /\ left \in Seq(Peers) /\ left # <<>>
  BY DEF CacheInv, CacheTypes, LoopType
<1>2. Tail(left) \in Seq(Peers) /\ Head(left) \in Peers
  BY <1>1
<1>3. \A i \in DOMAIN left : \/ left[i] = Head(left)
                             \/ \E j \in DOMAIN Tail(left) : Tail(left)[j] = left[i]
  <2> SUFFICES ASSUME NEW i \in DOMAIN left, i # 1
               PROVE  \E j \in DOMAIN Tail(left) : Tail(left)[j] = left[i]
    BY <1>1
  <2> HIDE DEF left
  <2>1. i \in 2 .. Len(left)
    BY <1>1
  <2>2. i - 1 \in DOMAIN Tail(left) /\ Tail(left)[i - 1] = left[i]
    BY <1>1, <2>1
  <2> QED
    BY <2>2
<1>4. CASE Tail(left) = <<>>
  <2>1. loop' = [Cache!NotLooping EXCEPT !.at = "over"]
    BY <1>4 DEF Cache!NextPeer
  <2>2. loop' \in LoopType /\ loop'.at = "over" /\ loop'.left = <<>>
    BY <2>1, NotLoopingIsTyped DEF LoopType
  <2> QED
    BY <1>2, <1>3, <1>4, <2>2
<1>5. CASE Tail(left) # <<>>
  <2>1. loop' = [loop EXCEPT !.at = "has", !.left = Tail(left)]
    BY <1>5 DEF Cache!NextPeer
  <2>2. loop' \in LoopType /\ loop'.at = "has" /\ loop'.left = Tail(left)
    BY <1>1, <1>2, <2>1 DEF LoopType
  <2> QED
    BY <1>2, <1>3, <1>5, <2>2
<1> QED
  BY <1>4, <1>5

\* When the first of the loop's peers is in the peer store, the loop may go on.
LEMMA LoopGoesOn ==
    ASSUME CacheInv, KnownStay, loop.at \in {"has", "save"},
           loop' = Cache!NextPeer(Tail(loop.left)),
           store'[Head(loop.left)].known,
           UNCHANGED <<localStorage, peers, registered, started, restarts, latest>>
    PROVE  CacheInv'
<1>1. started = FALSE /\ loop.at # "off"
  BY DEF CacheInv, CacheTypes, LoopCovers
<1>2. ASSUME NEW p \in Stored(peers)
      PROVE  store'[p].known \/ \E j \in DOMAIN loop'.left : loop'.left[j] = p
  <2>1. p \in Peers
    BY DEF Stored
  <2>2. CASE store[p].known
    BY <2>1, <2>2 DEF KnownStay
  <2>3. CASE \E i \in DOMAIN loop.left : loop.left[i] = p
    BY <2>3, NextPeerLeaves
  <2> QED
    BY <1>1, <2>2, <2>3 DEF CacheInv, LoopCovers
<1>3. LoopCovers'
  <2>1. Stored(peers)' = Stored(peers)
    BY DEF Stored
  <2> QED
    BY <1>1, <1>2, <2>1 DEF LoopCovers
<1>4. Cache!CachedPeersKnown'
  BY <1>1 DEF Cache!CachedPeersKnown
<1>5. /\ loop' \in LoopType
      /\ loop'.at \in {"has", "save"} <=> loop'.left # <<>>
  BY NextPeerLeaves
<1>6. registered' \in BOOLEAN /\ started' \in BOOLEAN
  BY DEF CacheInv, CacheTypes
<1> QED
  BY <1>3, <1>4, <1>5, <1>6, CacheGoesOn

LEMMA CacheLoopKeeps ==
    ASSUME CacheInv, PeerStoreTypeOK, Cache!LoopStep
    PROVE  CacheInv' /\ PeerStoreTypeOK' /\ KnownStay
<1>1. loop \in LoopType /\ registered \in BOOLEAN /\ started \in BOOLEAN
  BY DEF CacheInv, CacheTypes
<1>2. CASE Cache!Has
  <2>1. /\ loop.at = "has"
        /\ UNCHANGED <<localStorage, peers, registered, started, restarts, latest,
                       store, announced>>
        /\ \/ store[Head(loop.left)].known /\ loop' = Cache!NextPeer(Tail(loop.left))
           \/ loop' = [loop EXCEPT !.at = "save"]
    BY <1>2 DEF Cache!Has
  <2>2. PeerStoreTypeOK' /\ KnownStay
    BY <2>1, StoreStays
  <2>3. CASE store[Head(loop.left)].known /\ loop' = Cache!NextPeer(Tail(loop.left))
    <3>1. store'[Head(loop.left)].known
      BY <2>1, <2>3
    <3> QED
      BY <2>1, <2>2, <2>3, <3>1, LoopGoesOn
  <2>4. CASE loop' = [loop EXCEPT !.at = "save"]
    <3>1. loop' \in LoopType /\ loop'.at = "save" /\ loop'.left = loop.left
      BY <1>1, <2>4 DEF LoopType
    <3>2. loop'.at \in {"has", "save"} <=> loop'.left # <<>>
      BY <2>1, <3>1 DEF CacheInv, CacheTypes
    <3>3. started = FALSE /\ started' = FALSE
      BY <2>1 DEF CacheInv, CacheTypes, LoopCovers
    <3>4. LoopCovers'
      BY <2>1, <3>1, <3>3 DEF CacheInv, LoopCovers, Stored
    <3>5. Cache!CachedPeersKnown'
      BY <3>3 DEF Cache!CachedPeersKnown
    <3> QED
      BY <1>1, <2>1, <2>2, <3>1, <3>2, <3>4, <3>5, CacheGoesOn
  <2> QED
    BY <2>1, <2>3, <2>4
<1>3. CASE Cache!Save
  <2> DEFINE p == Head(loop.left)
             entry == [known |-> TRUE, tags |-> {"local-peer-cache"},
                       addresses |-> loop.cache[p], shards |-> None]
  <2>1. /\ loop.at = "save" /\ announced' = announced \cup {p}
        /\ store' = [store EXCEPT ![p] = entry]
        /\ loop' = Cache!NextPeer(Tail(loop.left))
        /\ UNCHANGED <<localStorage, peers, registered, started, restarts, latest>>
    BY <1>3, StoreNumbers DEF Cache!Save, Cache!Saved
  <2>2. p \in Peers
    BY <2>1, NextPeerLeaves
  <2>3. loop.cache[p] \in Versions \cup {None} /\ "local-peer-cache" \in TagNames
    BY <1>1, <2>2 DEF LoopType, Addresses, TagNames
  <2>4. entry \in StoreEntry /\ entry.known
    <3> HIDE DEF p
    <3> QED
      BY <2>2, <2>3, EntriesWritten
  <2> HIDE DEF entry
  <2>5. PeerStoreTypeOK' /\ KnownStay /\ store'[p].known
    <3> HIDE DEF p
    <3>1. announced' \subseteq Peers
      BY <2>1, <2>2 DEF PeerStoreTypeOK
    <3> QED
      BY <2>1, <2>2, <2>4, <3>1, StoreWrites
  <2> QED
    BY <2>1, <2>5, LoopGoesOn
<1>4. CASE Cache!StartReturns
  <2>1. /\ loop.at = "over" /\ loop' = Cache!NotLooping /\ started' = TRUE
        /\ UNCHANGED <<localStorage, peers, registered, restarts, latest, store,
                       announced>>
    BY <1>4 DEF Cache!StartReturns
  <2>2. PeerStoreTypeOK' /\ KnownStay
    BY <2>1, StoreStays
  <2>3. /\ loop' \in LoopType /\ loop'.at = "off"
        /\ loop'.at \in {"has", "save"} <=> loop'.left # <<>>
    BY <2>1, NotLoopingIsTyped
  <2>4. loop.left = <<>>
    BY <2>1 DEF CacheInv, CacheTypes
  <2>5. \A p \in Stored(peers) : store'[p].known
    BY <2>1, <2>4 DEF CacheInv, LoopCovers
  <2>6. Cache!CachedPeersKnown'
    BY <2>1, <2>5, CacheNames DEF Cache!CachedPeersKnown, Cache!Stored, Stored
  <2>7. LoopCovers'
    BY <2>3 DEF LoopCovers
  <2> QED
    BY <1>1, <2>1, <2>2, <2>3, <2>6, <2>7, CacheGoesOn
<1>5. CASE Cache!LoopThrows
  <2>1. /\ loop.at \in {"has", "save"} /\ loop' = Cache!NotLooping
        /\ UNCHANGED <<localStorage, peers, registered, started, restarts, latest,
                       store, announced>>
    BY <1>5 DEF Cache!LoopThrows
  <2>2. PeerStoreTypeOK' /\ KnownStay
    BY <2>1, StoreStays
  <2>3. loop' \in LoopType /\ loop'.at = "off" /\ loop'.left = <<>>
    BY <2>1, NotLoopingIsTyped
  <2>4. started = FALSE /\ started' = FALSE
    BY <2>1 DEF CacheInv, CacheTypes, LoopCovers
  <2>5. LoopCovers' /\ Cache!CachedPeersKnown'
    BY <2>3, <2>4 DEF LoopCovers, Cache!CachedPeersKnown
  <2> QED
    BY <1>1, <2>1, <2>2, <2>3, <2>5, CacheGoesOn
<1> QED
  BY <1>2, <1>3, <1>4, <1>5 DEF Cache!LoopStep

LEMMA CacheStartKeeps ==
    ASSUME CacheInv, PeerStoreTypeOK, Cache!start
    PROVE  CacheInv' /\ PeerStoreTypeOK' /\ KnownStay
<1>1. PICK order \in Cache!SetToSeqs(Cache!Stored(peers)) :
        loop' = IF order = <<>> THEN [Cache!NotLooping EXCEPT !.at = "over"]
                ELSE [at |-> "has", left |-> order, cache |-> peers]
  BY DEF Cache!start
<1>2. /\ started = FALSE /\ loop.at = "off" /\ registered' = TRUE
      /\ UNCHANGED <<localStorage, peers, started, restarts, latest, store, announced>>
  BY DEF Cache!start, CacheInv, CacheTypes
<1>3. PeerStoreTypeOK' /\ KnownStay
  BY <1>2, StoreStays
<1>4. /\ order \in Seq(Stored(peers))
      /\ \A p \in Stored(peers) : \E i \in DOMAIN order : order[i] = p
  BY CacheNames, OrdersAreComplete DEF CacheInv
<1>5. order \in Seq(Peers) /\ peers \in [Peers -> Addresses]
  <2>1. Stored(peers) \subseteq Peers
    BY DEF Stored
  <2> QED
    BY <1>4, <2>1 DEF CacheInv, CacheTypes
<1>6. /\ loop' \in LoopType /\ loop'.at # "off" /\ loop'.left = order
      /\ loop'.at \in {"has", "save"} <=> loop'.left # <<>>
  <2>1. CASE order = <<>>
    <3>1. loop' = [Cache!NotLooping EXCEPT !.at = "over"]
      BY <1>1, <2>1
    <3>2. loop' \in LoopType /\ loop'.at = "over" /\ loop'.left = <<>>
      BY <3>1, NotLoopingIsTyped DEF LoopType
    <3> QED
      BY <2>1, <3>2
  <2>2. CASE order # <<>>
    <3>1. loop' = [at |-> "has", left |-> order, cache |-> peers]
      BY <1>1, <2>2
    <3>2. loop' \in LoopType /\ loop'.at = "has" /\ loop'.left = order
      BY <1>5, <3>1 DEF LoopType
    <3> QED
      BY <2>2, <3>2
  <2> QED
    BY <2>1, <2>2
<1>7. LoopCovers'
  BY <1>2, <1>4, <1>6 DEF LoopCovers, Stored
<1>8. Cache!CachedPeersKnown'
  BY <1>2 DEF Cache!CachedPeersKnown
<1>9. registered' \in BOOLEAN /\ started' \in BOOLEAN
  BY <1>2
<1> QED
  BY <1>2, <1>3, <1>6, <1>7, <1>8, <1>9, CacheGoesOn

LEMMA CacheStopKeeps ==
    ASSUME CacheInv, PeerStoreTypeOK, Cache!stop
    PROVE  CacheInv' /\ PeerStoreTypeOK' /\ KnownStay
<1>1. /\ registered' = FALSE /\ started' = FALSE
      /\ localStorage' \in {peers, localStorage}
      /\ UNCHANGED <<peers, loop, restarts, latest, store, announced>>
  BY DEF Cache!stop, Cache!savePeersToLocalStorage
<1>2. PeerStoreTypeOK' /\ KnownStay
  BY <1>1, StoreStays
<1>3. localStorage' \in [Peers -> Addresses] /\ registered' \in BOOLEAN
      /\ started' \in BOOLEAN
  BY <1>1 DEF CacheInv, CacheTypes
<1>4. CacheTypes'
  BY <1>1, <1>3 DEF CacheInv, CacheTypes
<1>5. Cache!MemoryCoversStorage'
  BY <1>1 DEF CacheInv, Cache!MemoryCoversStorage, Cache!Stored
<1>6. LoopCovers'
  BY <1>1 DEF CacheInv, LoopCovers, Stored
<1>7. Cache!CachedPeersKnown' /\ IsFiniteSet(Stored(peers))'
  BY <1>1 DEF CacheInv, Cache!CachedPeersKnown, Stored
<1> QED
  BY <1>2, <1>4, <1>5, <1>6, <1>7 DEF CacheInv

\* A peer that is identified is in the peer store before it is in the cache, and
\* what was in the cache only of the memory may be left out.
LEMMA NewPeersKeep ==
    ASSUME CacheInv, PeerStoreTypeOK, NEW p \in Peers, NEW address \in Versions,
           Cache!handleNewPeers(p, address)
    PROVE  CacheInv' /\ PeerStoreTypeOK' /\ KnownStay
<1> DEFINE entry == [store[p] EXCEPT !.known = TRUE, !.addresses = address]
           new == [localStorage EXCEPT ![p] = address]
<1>1. /\ store' = [store EXCEPT ![p] = entry]
      /\ peers' = new /\ latest' = [latest EXCEPT ![p] = address]
      /\ localStorage' \in {new, localStorage}
      /\ UNCHANGED <<registered, started, loop, restarts, announced>>
  BY DEF Cache!handleNewPeers, Cache!getPeersFromLocalStorage, Cache!Patched,
         Cache!savePeersToLocalStorage
<1>2. entry \in StoreEntry /\ entry.known
  <2>1. "local-peer-cache" \in TagNames /\ address \in Versions \cup {None}
        /\ None \in Versions \cup {None}
    BY DEF TagNames
  <2> QED
    BY <2>1, EntriesWritten
<1> HIDE DEF entry
<1>3. PeerStoreTypeOK' /\ KnownStay /\ store'[p].known
  <2>1. announced' \subseteq Peers
    BY <1>1 DEF PeerStoreTypeOK
  <2> QED
    BY <1>1, <1>2, <2>1, StoreWrites
<1>4. /\ localStorage \in [Peers -> Addresses] /\ latest \in [Peers -> Addresses]
      /\ address \in Addresses /\ address # None
  BY StoreNumbers DEF CacheInv, CacheTypes, Addresses
<1>5. /\ new \in [Peers -> Addresses] /\ new[p] = address
      /\ \A q \in Peers : q # p => new[q] = localStorage[q]
  BY <1>4
<1>6. /\ latest' \in [Peers -> Addresses] /\ latest'[p] = address
  BY <1>1, <1>4
<1> HIDE DEF new
<1>7. localStorage' \in [Peers -> Addresses] /\ peers' \in [Peers -> Addresses]
  BY <1>1, <1>4, <1>5
<1>8. CacheTypes'
  BY <1>1, <1>6, <1>7 DEF CacheInv, CacheTypes
<1>9. Stored(peers') \subseteq Stored(peers) \cup {p}
  <2>1. Stored(localStorage) \subseteq Stored(peers)
    BY CacheNames DEF CacheInv, Cache!MemoryCoversStorage
  <2> QED
    BY <1>1, <1>5, <2>1 DEF Stored
<1>10. Stored(peers)' = Stored(peers')
  BY DEF Stored
<1>11. IsFiniteSet(Stored(peers))'
  <2>1. IsFiniteSet(Stored(peers) \cup {p})
    BY FS_AddElement DEF CacheInv
  <2> QED
    BY <1>9, <1>10, <2>1, FS_Subset
<1>12. Cache!MemoryCoversStorage'
  <2>1. \A q \in Peers : localStorage'[q] # None =>
          /\ peers'[q] # None
          /\ peers'[q] = latest'[q] \/ peers'[q] = localStorage'[q]
    BY <1>1, <1>4, <1>5, <1>6
  <2> QED
    BY <2>1, StoreNumbers DEF Cache!MemoryCoversStorage, Cache!Stored
<1>13. \A q \in Stored(peers') : q \in Stored(peers) \/ store'[q].known
  BY <1>3, <1>9
<1>14. LoopCovers'
  <2>1. \A q \in Peers : store[q].known => store'[q].known
    BY <1>3 DEF KnownStay
  <2>2. Stored(peers) \subseteq Peers
    BY DEF Stored
  <2> QED
    BY <1>1, <1>10, <1>13, <2>1, <2>2 DEF CacheInv, LoopCovers
<1>15. Cache!CachedPeersKnown'
  <2>1. started' => \A q \in Stored(peers') : store'[q].known
    <3>1. started' => started
      BY <1>1
    <3>2. started => \A q \in Stored(peers) : store[q].known
      BY CacheNames DEF CacheInv, Cache!CachedPeersKnown
    <3>3. Stored(peers) \subseteq Peers
      BY DEF Stored
    <3> QED
      BY <1>3, <1>13, <3>1, <3>2, <3>3 DEF KnownStay
  <2> QED
    BY <1>10, <2>1, CacheNames DEF Cache!CachedPeersKnown
<1> QED
  BY <1>3, <1>8, <1>11, <1>12, <1>14, <1>15 DEF CacheInv

LEMMA CacheOtherKeeps ==
    ASSUME CacheInv, PeerStoreTypeOK, Cache!OtherStep
    PROVE  CacheInv' /\ PeerStoreTypeOK' /\ KnownStay
BY CacheStartKeeps, CacheStopKeeps, NewPeersKeep DEF Cache!OtherStep

\* A new node starts from the storage alone; it has looked at nothing yet.
LEMMA CacheRestarts ==
    ASSUME CacheInv, Cache!Restart
    PROVE  CacheInv' /\ PeerStoreTypeOK'
<1>1. /\ restarts < MaxRestarts /\ restarts' = restarts + 1
      /\ peers' = localStorage /\ registered' = FALSE /\ started' = FALSE
      /\ loop' = Cache!NotLooping /\ store' = [p \in Peers |-> Cache!Unknown]
      /\ announced' = {} /\ UNCHANGED <<localStorage, latest>>
  BY DEF Cache!Restart, Cache!getPeersFromLocalStorage
<1>2. restarts' \in 0 .. MaxRestarts
  <2>1. MaxRestarts \in Nat /\ restarts \in 0 .. MaxRestarts
    BY ServicesAssumption DEF Cache!LocalPeerCacheAssumption, CacheInv, CacheTypes
  <2>2. restarts < MaxRestarts /\ restarts' = restarts + 1
    BY <1>1
  <2> QED
    BY <2>1, <2>2
<1>3. /\ loop' \in LoopType /\ loop'.at = "off"
      /\ loop'.at \in {"has", "save"} <=> loop'.left # <<>>
  BY <1>1, NotLoopingIsTyped
<1>4. CacheTypes'
  BY <1>1, <1>2, <1>3 DEF CacheInv, CacheTypes
<1>5. Cache!MemoryCoversStorage'
  BY <1>1 DEF Cache!MemoryCoversStorage, Cache!Stored
<1>6. LoopCovers' /\ Cache!CachedPeersKnown'
  BY <1>1, <1>3 DEF LoopCovers, Cache!CachedPeersKnown
<1>7. IsFiniteSet(Stored(peers))'
  <2>1. Stored(localStorage) \subseteq Stored(peers)
    BY CacheNames DEF CacheInv, Cache!MemoryCoversStorage
  <2>2. Stored(peers)' = Stored(localStorage)
    BY <1>1 DEF Stored
  <2> QED
    BY <2>1, <2>2, FS_Subset DEF CacheInv
<1>8. PeerStoreTypeOK'
  <2>1. Cache!Unknown \in StoreEntry
    BY StoreNumbers DEF Cache!Unknown, StoreEntry
  <2> QED
    BY <1>1, <2>1 DEF PeerStoreTypeOK, StoreEntry
<1> QED
  BY <1>4, <1>5, <1>6, <1>7, <1>8 DEF CacheInv

-----------------------------------------------------------------------------
(* The three services over one peer store. *)

LEMMA ExchangeStays ==
    ASSUME ExchangeInv, UNCHANGED exchangeVars
    PROVE  ExchangeInv'
BY DEF ExchangeInv, exchangeVars, GoodChain, Exchange!OneChainPerPeer, Exchange!Running

LEMMA DnsStays ==
    ASSUME DnsInv, UNCHANGED dnsVars
    PROVE  DnsInv'
BY DEF DnsInv, dnsVars, GoodFind, TakenFor, FindType, Useful, UpTo, Dns!UnderNoBranch

LEMMA ExchangeStarts ==
    ASSUME listening = FALSE, queryingPeers = {},
           queryAttempts = [p \in Servers |-> 0],
           chain = [c \in Chains |-> Exchange!NoChain]
    PROVE  ExchangeInv
<1>1. \A c \in Chains : GoodChain(chain[c]) /\ chain[c].at = "idle"
  BY NoChainIsGood
<1>2. chain \in [Chains -> ChainType]
  BY NoChainIsGood DEF GoodChain
<1>3. queryAttempts \in [Servers -> 0 .. maxRetries + 1]
  BY ExchangeNumbers
<1>4. Exchange!OneChainPerPeer
  BY <1>1 DEF Exchange!OneChainPerPeer, Exchange!Running
<1> QED
  BY <1>1, <1>2, <1>3, <1>4 DEF ExchangeInv

LEMMA DnsStarts ==
    ASSUME _started = FALSE, find = Dns!NotFinding, cached = {}
    PROVE  DnsInv
BY NotFindingIsGood DEF DnsInv

LEMMA ExchangeRestarts ==
    ASSUME listening' = FALSE, queryingPeers' = {},
           queryAttempts' = [p \in Servers |-> 0],
           chain' = [c \in Chains |-> Exchange!NoChain]
    PROVE  ExchangeInv'
<1>1. \A c \in Chains : GoodChain(chain'[c]) /\ chain'[c].at = "idle"
  BY NoChainIsGood
<1>2. chain' \in [Chains -> ChainType]
  BY NoChainIsGood DEF GoodChain
<1>3. queryAttempts' \in [Servers -> 0 .. maxRetries + 1]
  BY ExchangeNumbers
<1>4. Exchange!OneChainPerPeer'
  BY <1>1 DEF Exchange!OneChainPerPeer, Exchange!Running
<1> QED
  BY <1>1, <1>2, <1>3, <1>4 DEF ExchangeInv

LEMMA DnsRestarts ==
    ASSUME _started' = FALSE, find' = Dns!NotFinding, cached' = {}
    PROVE  DnsInv'
BY NotFindingIsGood
   DEF DnsInv, GoodFind, TakenFor, FindType, Useful, UpTo, Dns!UnderNoBranch

LEMMA CacheStarts ==
    ASSUME Cache!Init
    PROVE  CacheInv
<1>1. /\ localStorage = [p \in Peers |-> None] /\ peers = localStorage
      /\ registered = FALSE /\ started = FALSE /\ loop = Cache!NotLooping
      /\ restarts = 0 /\ latest = localStorage
  BY StoreNumbers DEF Cache!Init
<1>2. localStorage \in [Peers -> Addresses] /\ Stored(peers) = {}
      /\ Stored(localStorage) = {}
  BY <1>1 DEF Addresses, Stored
<1>3. /\ loop \in LoopType /\ loop.at = "off"
      /\ loop.at \in {"has", "save"} <=> loop.left # <<>>
  BY <1>1, NotLoopingIsTyped
<1>4. restarts \in 0 .. MaxRestarts
  BY <1>1, ServicesAssumption DEF Cache!LocalPeerCacheAssumption
<1>5. CacheTypes
  BY <1>1, <1>2, <1>3, <1>4 DEF CacheTypes
<1>6. Cache!MemoryCoversStorage /\ Cache!CachedPeersKnown
  BY <1>1, <1>2, CacheNames DEF Cache!MemoryCoversStorage, Cache!CachedPeersKnown
<1>7. LoopCovers
  BY <1>1, <1>3 DEF LoopCovers
<1> QED
  BY <1>2, <1>5, <1>6, <1>7, FS_EmptySet DEF CacheInv

LEMMA DiscoveryStarts ==
    ASSUME Init
    PROVE  DiscoveryInv
<1>1. PeerStoreTypeOK /\ services \in Deployments
  BY DEF Init, PeerStoreTypeOK, Unknown
<1>2. ExchangeInv
  BY ExchangeStarts DEF Init, Exchange!Init
<1>3. DnsInv
  BY DnsStarts DEF Init, Dns!Init
<1>4. CacheInv
  BY CacheStarts DEF Init
<1> QED
  BY <1>1, <1>2, <1>3, <1>4 DEF DiscoveryInv

\* A step of one service leaves the others' variables alone, but may add to the
\* peer store that they look into.
LEMMA DiscoveryStep ==
    ASSUME DiscoveryInv, [Next]_vars
    PROVE  DiscoveryInv'
<1> USE DEF DiscoveryInv
<1>1. ASSUME UNCHANGED <<services, dnsVars, cacheVars>>,
             ExchangeInv' /\ PeerStoreTypeOK' /\ KnownStay
      PROVE  DiscoveryInv'
  BY <1>1, DnsStays, CacheStays DEF cacheVars, Cache!cacheVars
<1>2. ASSUME UNCHANGED <<services, exchangeVars, cacheVars>>,
             DnsInv' /\ PeerStoreTypeOK' /\ KnownStay
      PROVE  DiscoveryInv'
  BY <1>2, ExchangeStays, CacheStays DEF cacheVars, Cache!cacheVars
<1>3. ASSUME UNCHANGED <<services, exchangeVars, dnsVars>>,
             CacheInv' /\ PeerStoreTypeOK' /\ KnownStay
      PROVE  DiscoveryInv'
  BY <1>3, ExchangeStays, DnsStays
<1>4. CASE Exchange!StartStep /\ OfExchange
  BY <1>1, <1>4, ExchangeStartKeeps DEF OfExchange
<1>5. ASSUME NEW c \in Chains, ChainStep(c)
      PROVE  DiscoveryInv'
  BY <1>1, <1>5, ChainStepKeeps DEF ChainStep, OfExchange
<1>6. CASE Dns!StartStep /\ OfDns
  BY <1>2, <1>6, DnsStartKeeps DEF OfDns
<1>7. CASE FindStep
  BY <1>2, <1>7, FindStepKeeps DEF FindStep, OfDns
<1>8. CASE Cache!OtherStep /\ OfCache
  BY <1>3, <1>8, CacheOtherKeeps DEF OfCache
<1>9. CASE LoopStep
  BY <1>3, <1>9, CacheLoopKeeps DEF LoopStep, OfCache
<1>10. CASE NodeRestarts
  <2>1. ExchangeInv'
    BY <1>10, ExchangeRestarts DEF NodeRestarts
  <2>2. DnsInv'
    BY <1>10, DnsRestarts DEF NodeRestarts
  <2>3. CacheInv' /\ PeerStoreTypeOK'
    BY <1>10, CacheRestarts DEF NodeRestarts
  <2> QED
    BY <1>10, <2>1, <2>2, <2>3 DEF NodeRestarts
<1>11. CASE UNCHANGED vars
  <2>1. /\ UNCHANGED <<services, dnsVars, cacheVars>> /\ UNCHANGED exchangeVars
        /\ UNCHANGED <<store, announced>>
    BY <1>11 DEF vars
  <2> QED
    BY <1>1, <2>1, ExchangeStays, StoreStays
<1> QED
  BY <1>4, <1>5, <1>6, <1>7, <1>8, <1>9, <1>10, <1>11 DEF Next

-----------------------------------------------------------------------------
\* What the invariant of the services says of what they ask and forget.
LEMMA InvariantIsSafe ==
    ASSUME DiscoveryInv
    PROVE  DiscoverySafe
<1>1. Exchange!TypeOK
  BY DEF DiscoveryInv, ExchangeInv, GoodChain, ChainType, Exchange!TypeOK, Exchange!NoChain
<1>2. Dns!TypeOK
  BY DEF DiscoveryInv, DnsInv, GoodFind, TakenFor, FindType, Dns!TypeOK, Dns!NotFinding
<1>3. Cache!TypeOK
  BY CacheNames DEF DiscoveryInv, CacheInv, CacheTypes, LoopType, Cache!TypeOK
<1>4. RecordsDiffer
  BY DEF DiscoveryInv, DnsInv, GoodFind, RecordsDiffer, Dns!RecordsDiffer
<1>5. NoPeerTooMany
  <2>1. /\ find.actual \in [Dns!Protocols -> Nat]
        /\ IsFiniteSet(find.taken) /\ Cardinality(find.taken) <= Useful(find.actual)
    BY DEF DiscoveryInv, DnsInv, GoodFind, TakenFor, FindType
  <2>2. /\ Useful(find.actual) \in Nat /\ Useful(find.actual) <= Dns!maxSearches
        /\ Dns!maxSearches \in Nat /\ Cardinality(find.taken) \in Nat
    <3>1. Useful(find.actual) \in Nat /\ Useful(find.actual) <= Dns!maxSearches
      BY <2>1, UsefulBounded
    <3>2. Dns!maxSearches \in Nat
      BY WantedAreNumbers DEF Dns!maxSearches
    <3>3. Cardinality(find.taken) \in Nat
      BY <2>1, FS_CardinalityType
    <3> QED
      BY <3>1, <3>2, <3>3
  <2> QED
    BY <2>1, <2>2, CardinalityIsShared DEF NoPeerTooMany, Dns!NoPeerTooMany
<1>6. OneChainPerPeer /\ MemoryCoversStorage /\ CachedPeersKnown
  BY DEF DiscoveryInv, ExchangeInv, CacheInv, OneChainPerPeer, MemoryCoversStorage,
         CachedPeersKnown
<1> QED
  BY <1>1, <1>2, <1>3, <1>4, <1>5, <1>6 DEF DiscoverySafe, TypeOK, DiscoveryInv

LEMMA InvariantHolds == Spec => []DiscoveryInv
<1>1. Init => DiscoveryInv
  BY DiscoveryStarts
<1>2. DiscoveryInv /\ [Next]_vars => DiscoveryInv'
  BY DiscoveryStep
<1> QED
  BY <1>1, <1>2, PTL DEF Spec

\* The discovery services keep to what they may ask and forget, with any trees,
\* caches, records and numbers of peers, chains and restarts: peer exchange never
\* runs two chains of queries for one peer, DNS discovery comes to no record under
\* a branch a second time and takes no more bootstrap peers than capabilities are
\* wanted, the memory of the cache covers its storage, and a node that has started
\* knows every peer of its cache.
THEOREM ServicesAreSafe == Spec => []DiscoverySafe
<1>1. DiscoveryInv => DiscoverySafe
  BY InvariantIsSafe
<1> QED
  BY <1>1, InvariantHolds, PTL

\* A step that writes to the storage writes what the memory has.
LEMMA StorageGrows ==
    ASSUME DiscoveryInv, [Next]_vars
    PROVE  [Cache!Stored(localStorage) \subseteq Cache!Stored(localStorage')]_vars
<1>1. Stored(localStorage) \subseteq Stored(peers)
  BY CacheNames DEF DiscoveryInv, CacheInv, Cache!MemoryCoversStorage
<1>2. \/ localStorage' = localStorage
      \/ localStorage' = peers
      \/ \E p \in Peers, address \in Versions :
           localStorage' = [localStorage EXCEPT ![p] = address]
  <2>1. CASE OfExchange \/ OfDns \/ UNCHANGED vars
    BY <2>1 DEF OfExchange, OfDns, vars, cacheVars
  <2>2. CASE Cache!stop
    BY <2>2 DEF Cache!stop, Cache!savePeersToLocalStorage
  <2>3. ASSUME NEW p \in Peers, NEW address \in Versions,
               Cache!handleNewPeers(p, address)
        PROVE  localStorage' = [localStorage EXCEPT ![p] = address]
               \/ localStorage' = localStorage
    BY <2>3 DEF Cache!handleNewPeers, Cache!getPeersFromLocalStorage,
                Cache!savePeersToLocalStorage
  <2>4. CASE Cache!start \/ LoopStep \/ NodeRestarts
    BY <2>4 DEF Cache!start, LoopStep, Cache!LoopStep, Cache!Has, Cache!Save,
                Cache!LoopThrows, Cache!StartReturns, NodeRestarts, Cache!Restart
  <2> QED
    BY <2>1, <2>2, <2>3, <2>4 DEF Next, ChainStep, FindStep, Cache!OtherStep
<1>3. localStorage \in [Peers -> Addresses] /\ \A v \in Versions : v # None
  BY StoreNumbers DEF DiscoveryInv, CacheInv, CacheTypes
<1>4. Stored(localStorage) \subseteq Stored(localStorage')
  BY <1>1, <1>2, <1>3 DEF Stored
<1> QED
  BY <1>4, StoreNumbers DEF Stored, Cache!Stored

\* No step forgets a peer of the local storage: neither a write that fails, nor a
\* listener that runs while start goes over its peers, nor the death of the node.
THEOREM StorageForgetsNothing == Spec => NothingForgotten
<1>1. DiscoveryInv /\ [Next]_vars =>
        [Cache!Stored(localStorage) \subseteq Cache!Stored(localStorage')]_vars
  BY StorageGrows
<1> QED
  BY <1>1, InvariantHolds, PTL DEF Spec, NothingForgotten
=================================================================================
