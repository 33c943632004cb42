# Verification of js-waku

TLA+ models of js-waku, the TypeScript implementation of the Waku protocols, with
TLC runs on small instances and TLAPS proofs for every instance. Sources are
quoted relative to `src/packages/`.

## How the models read the code

JavaScript runs one callback at a time, so a *step* of a model is the code between
two `await`s (or one synchronous callback), and concurrency is what happens between
them. An asynchronous call in flight is a record whose field `at` names the await it
is suspended in. Ids of such calls (`Calls`, `Handlers`, `Gets`, `Promises`, `Tasks`,
...) are constants: they bound how many are in flight at once, never what one call does.
A promise that settles and the resumption of who awaits it are two steps where the
settling is visible to others before the resumption (a new stream is listed on its
connection before `getStream` runs again).

libp2p, the peer store and the remote peers are the environment. They are modelled
from how the code under `src/` uses them and marked external in the map.

A component's module states its parts of a property one by one; where a run checks
several of them it checks their conjunction, which the module also defines
(`MessageExact`, `RelayDelivers`, ...), with the types as one of the conjuncts where it
has no run of its own. A conjunct that is not about types has a mutant of its own.

## Inventory

| Component | State | Operations | What is hard |
|---|---|---|---|
| Connection manager (`core/src/lib/connection_manager.ts`) | slot counter, dial queue, dial attempts per peer, network status | dial attempts from three callers, connect/disconnect handlers, drop, stop | every test is followed by an await before the state it tested changes |
| Keep-alive manager (`core/src/lib/keep_alive_manager.ts`) | two maps of intervals | `start`, `stop`, `stopAll` | started and stopped by handlers in any order; intervals outlive forgotten map entries |
| Stream manager (`core/src/lib/stream_manager/`) | stream pool, creation lock, locks on streams | `getStream`, `peer:update` | a stream exists before its creator resumes; a pooled promise may be abandoned or skipped |
| Base protocol and peer filter (`core/src/lib/base_protocol.ts`, `filterPeers.ts`, `utils/src/libp2p/`) | none | `getPeers` | which peers come out, for every number asked for; peers that leave between the reads |
| Health manager (`core/src/lib/health_manager.ts`) | status per protocol, overall status | `updateProtocolHealth` | several writers (peer managers, light push) |
| Peer manager, SDK base protocol (`sdk/src/protocols/peer_manager.ts`, `base_protocol.ts`) | peers in use, two mutexes | `maintainPeers`, `hasPeers`, `renewPeer` | counts and lists read under one mutex are used under another |
| Reliability monitor (`sdk/src/reliability_monitor/`) | failures, locks, verifications, received messages; a static registry | ping results, message notifications, renewals | a lock that several exits release; timers against answers; nodes that share a monitor |
| Filter (`sdk/src/protocols/filter/`, `core/src/lib/filter/`) | subscription per pubsub topic, callbacks, keep-alive interval, listeners | subscribe, unsubscribe, ping, incoming messages | messages, connection events and other calls during subscribe/unsubscribe |
| Light push (`sdk/src/protocols/light_push/`, `core/src/lib/light_push/`) | retries in flight | `send`, `attemptRetries` | partial failures, bounded retries |
| Store (`sdk/src/protocols/store/`, `core/src/lib/store/`) | page cursor | paged query, callbacks | a history that changes between pages; abort against callbacks in flight |
| Metadata (`core/src/lib/metadata/`) | cache of confirmed handshakes | `query`, `confirmOrAttemptHandshake` | handshakes of both sides, failing ones |
| waitForRemotePeer, node (`sdk/src/waku/`) | none | start, stop, wait | events of new peers against the pass over those connected |
| Node creation (`sdk/src/create/`) | the topics of the node | create | which setting decides |
| Peer exchange (`discovery/src/peer-exchange/`) | peers being queried, attempts | recurring queries, stop | timers, queries, peer store writes |
| Local peer cache (`discovery/src/local-peer-cache/`) | list in local storage | start, stop, identify | restarts, failing writes |
| DNS discovery (`discovery/src/dns/`) | visited subdomains, cache | random walk of the tree | circles and dead ends; visits shared by searches |
| Relay (`relay/src/`) | observers per topic | start, subscribe, send, `waitForPeers` | observers that come and go while messages are decoded |
| Sharding (`utils/src/common/sharding/`, `relay_shard_codec.ts`) | none | encode, decode, select | boundaries (0, 64 shards, 1023) |
| Messages, hash, encryption (`core/src/lib/message/`, `message-hash/`, `message-encryption/`) | none | encode, decode, hash, encrypt | sizes at powers of 256; decoders of several kinds on one topic |
| Protobuf (`proto/src/generated/`) | none | encode, decode | implicit against optional fields, order of fields |
| Async iterator (`utils/src/common/to_async_iterator.ts`) | message buffer | iterate, stop | stop against buffered messages |

## Modules

### Connection manager

`KeepAliveManager` holds the two timer maps and, apart from them, the intervals that
really run. `ConnectionManager` EXTENDS it and adds the dial attempts (`call`), the
`peer:connect` handlers (`handler`), the counter, queue and attempt map of the class,
and of libp2p one connection per peer and the peer store. The await points of an
attempt are listed at the head of the module; `StartDial`, `DialSucceeds`, `DialFails`,
`FinishDial` are `dialPeer`, `CheckShard`, `CheckBootstrap` and `CheckAttempts` are
`shouldDialPeer`, `processDialQueue` runs inside the step that ends a dial, as in the
code. `DialSlots` is the abstract promise of `maxParallelDials`.

| Run | Instance | Shows |
|---|---|---|
| `cm_safety` | 2 bootstrap peers, 2 calls, 1 handler, 1 slot, 2 attempts | types, no lost connect event, no leaked ping interval, every connection pinged, exact slot counter, implements `DialSlots` |
| `cm_liveness` | 1 peer, 2 calls | dials give slots back, lasting connections are reported |

Bounds: two peers suffice for every property, which relates one peer or two, and reach the
bootstrap limit; two calls with one slot reach the queue and its handover. `RoomFor`
reserves an id for each queued peer so that the bound never blocks `processDialQueue`.
The proofs hold for any number of peers, calls, handlers and slots. Deadlock is not
checked: a manager that has dialled all it knows rests.

`cm_liveness` checks `DialsConclude`, the conjunction of the two. Fairness: the event loop
resumes suspended calls, and libp2p settles a dial and a `hangUp` one way or the other.
Nothing is assumed of discovery, other connections, disconnects or `stop()`.

Observations. Five formulas at the end of the module state what comments and tests say
and the code does not keep; TLC refutes each on an instance like those above (for
`NoStrandedPeer` three calls, for `OneDialPerPeer` two slots, for `OneIntervalPerPeer`
relay enabled):

- `OneDialPerPeer`: two concurrent attempts at one peer both pass the test of
  `dialAttemptsForPeer`, which is set only when a dial ends.
- `BootstrapLimit`: the limit counts tags that `dialPeer` sets only after the dial, so two
  bootstrap peers may stay where one is allowed.
- `StatusFollowsConnections`: a connect handler that resumes after the peer has left sets
  `isP2PNetworkConnected` with no connection open.
- `NoStrandedPeer`: a finished dial takes one peer out of the queue; when that one needs no
  dial any more, the peers behind it stay.
- `OneIntervalPerPeer`: relay timers are keyed by `PeerId` objects, so the connect handler
  and `dialPeer` start one each.

And without a document to contradict them: when `hangUp` rejects (`HangUpFails`),
`dropConnection` only logs that, and the connection goes on without a ping timer
(`connection` marks it as kept; `ConnectedPeersKeptAlive` leaves it out); a dial that
rejects while the peer connects itself (`DialFails`) counts as a failed attempt and may
delete the connected peer from the peer store; `stopAll` iterates `Object.values(map)` of a
`Map`, which is empty, so intervals keep running after `stop()`; `dialPeer` may start a
keep-alive timer for a peer that has just left; the entry in `dialAttemptsForPeer` of a
peer that was connected once is never removed, so it is not dialled again on rediscovery.
The properties about timers therefore speak of the time before `stop()`.

### Stream manager

`StreamManager` is the manager of one codec seen from one remote peer (no operation
touches two). `get` holds the `getStream` calls, `promise` the `createStreamWithLock`
calls, one of which `streamPool` may hold. libp2p contributes connections and streams
in the order of their opening; `getOpenStreamForCodec` looks at the first stream of
the newest open connection, as the code does.

| Run | Instance | Shows |
|---|---|---|
| `sm` | 2 calls, 2 creations, 2 connections, 2 streams, inbound streams | types, exact creation lock, a waiting stream is handed out once, every `getStream` ends |

Two calls suffice for properties of pairs of calls, two creations for the lock, two
connections for replacement, two streams for one that is used and one that waits. Fairness:
`newStream` settles and the event loop resumes its caller.

Observations: `DifferentStreams` does not hold: a stream that `getStream` has just created
is locked only after the await of its creation (`stream_manager.ts:45`), and a call that
runs in between takes it too (the test of `stream_manager.spec.ts:89` makes its two calls
without such a gap). While the first stream of the codec is in use, streams scheduled
behind it are never found, and each call opens one more; a call that finds the lock taken
in the pool resumes at once and opens a stream of its own; a stream opened by the remote
peer for a codec the node serves is handed out like its own.

### Peers of a protocol and health

`HealthManager` is the singleton with one status per protocol. `BaseProtocolSDK`
EXTENDS it with the peer list of one protocol: `peers` in the order of the `Map`, the
write mutex as a queue of holder and waiters, and the calls in flight (`task`). `Tick`,
`HasPeers` and `RenewPeer` start calls; `ReadCount`, `Maintain`, `GetPeers`, `FindPeers`,
`Write`, `RemovePeer`, `AddPeer`, `AddPeerFails`, `CheckPeers` are the code between two
awaits of `maintainPeers`, `findPeers`, `addPeer`, `removePeer` and `hasPeers`. The read
mutex guards synchronous code and is always granted. Light push shares the health
manager (`LightPushHealth`) and reports nothing before its first send.

| Run | Instance | Shows |
|---|---|---|
| `bp` | 2 peers, `numPeersToUse` 1, 2 calls (one of which may be `hasPeers`), 2 attempts, 1 renewal, light push with 2 peers or nothing | types (attempts stay below the limit), the health reported is that of the list, the overall status is the worst, every call returns, the interval brings the list to `numPeersToUse` |

Bounds: two calls give every race of a count, a choice or a mutex; the peers to choose
from are one more than `numPeersToUse`; the number of renewals is bounded because
the interval can only converge once they cease. Fairness: suspended calls are resumed and
libp2p answers; the interval ticks, strongly, because the id its tick needs may be taken
again and again by calls of the user. `Converges` speaks of behaviours in which from some
point on all peers stay connected and at most one call is under way at a time
(`OneCallAtMost`): a tick and a `hasPeers` that overlap again and again may add and remove
for ever.

Observations: ticks do not wait for one another, so two of them can overshoot
`numPeersToUse` until a later tick; a peer that disconnects stays in the list. Two
formulas state what the repository says and TLC refutes: `RenewalReplaces` (with two
renewals: the new peer is chosen before two waits for the mutex, another call may have
added it meanwhile, and the renewal then removes a peer and adds none) and
`NoLightPushUnhealthy` (a light push that never sent has reported nothing, and the node
counts as healthy by its filter peers).

### Peer selection, messages, requests and topics on the wire

These modules share no state, so one run explores them as the four parts of `MCWire`.

`PeerFilter` is `BaseProtocol.getPeers`: the peer store, the connections, the loop of
`filterPeersByDiscovery` (one `Pick` per random choice) and the sort by latency. Lists
are filtered, sorted and freed of duplicates by the operators of `Lists`, which say which
places of a list are kept and in which order.

`ProtoMessages` has an encoder and a decoder for each generated type, made of one helper
per kind of field: an implicit field is written unless it is at its default (`Implicit`),
an optional one when it is defined (`Optional`), a repeated one value by value
(`Repeated`). A decoder takes the fields in any order; of a field that is not repeated the
last value counts. `RpcExchange` sends every kind of request
(filter, store, peer exchange) to a service node, which reads it with the codec, and
brings its answer back.

`PayloadCipher` is the envelope of an encrypted payload (flags, size field, payload,
padding, signature) with ideal ciphers: a ciphertext opens with its key only. `Messages`
are the encoders and decoders (plain, ECIES, symmetric) and the message hash.
`MessagePath` takes one message by relay or light push, through service nodes that write
it anew in another order, to relay, filter and store subscribers.

`Sharding` has the functions of `utils/src/common/sharding` and the two encodings of
relay shards; `NodeTopics` creates a node from a network configuration, tells its shards
to a peer that stores them, and creates encoders and decoders apart.

| Run | Instance | Shows |
|---|---|---|
| `wire` | payloads around the sizes where the envelope changes, all kinds of encoders and decoders, 2 filter nodes; all requests with fields missing, default and set; clusters 0, 1, 44, 300, shards 0, 1, 1023, shard lists around 64; 4 peers in 2 orders, latencies unknown, 0 and 1, up to 4 asked for | `MessageExact`, `RequestExact`, `TopicsAgree`, `PeersChosen` |

Bounds: the codecs treat the fields of a message one by one, so what matters is each
field missing, at its default and set. The sizes are those where the width of the size
field or the padding changes. A node creates one codec (`MaxCodecs`), as codecs share
nothing. A symbolic field other than the payload counts as 100 bytes (`FieldBytes`), more
than the real ones. Four peers are one more than the lists they are told apart by
(bootstrap or not, connected or not).

Observations: peers returned by `getPeers` may have left during the reads of latencies.
A content topic with a generation below 0 counts as valid (`sharding/index.ts:202`). With
numPeers 0, `AllWhenZero` does not hold: bootstrap peers beyond `maxBootstrapPeers`
are left out of "all peers" (`filterPeers.ts:11`). A timestamp `Date(0)` is received as
undefined; a `paginationLimit` of 0 is not sent. In `version_0.ts:166`
`proto.version ?? 0 !== Version` parses as `version ?? (0 !== Version)`, which agrees with
what was meant because `Version` is 0. A payload of 2^24 bytes or
more would set the flag of a signature; the cap of 1 MB is below that. With 64 shards or
more an index of 1024 makes `encodeRelayShard` throw, and clusters above 65535 alias in 16
bits. `derivePubsubTopicsFromNetworkConfig` prefers content topics where
`ensureShardingConfigured` prefers shards (which only applications call), so
`ReadingsAgree` is about configurations with one of the two. Topics of auto-sharding are
not deduplicated, and a codec made without a cluster uses cluster 1 on a node of any.

### Reliability monitor

`ReceiverReliabilityMonitor` is the monitor of one pubsub topic with the probe
(`sendLightPushCheckMessage`) of the subscription manager and `renewPeer`, whose awaits
are those of `BaseProtocolSDK` reduced to one step each. `Renew` is
`renewAndSubscribePeer` up to its first await, with the `finally` clause of its early
return; `RenewalStops` and `Finish` are its ends. `timers` counts the timeouts that run,
which the code does not know of; `verifiedPeers` also stands for
`receivedMessagesFormPeer`.

| Run | Instance | Shows |
|---|---|---|
| `rm_monitor` | 1 peer, 2 calls, limits 1 and 2, 1 probe | no lock, failure count or pending verification is left behind; probes conclude, locks are given back |

Bounds: lock, failures and verification belong to one peer, which may come back as its
own replacement, and a race for them takes two calls. The proofs cover peers that replace
one another, in any number. `MaxProbes` stops calls that nobody has to make while a probe
is on its way. Fairness: suspended calls resume, requests are answered or fail, timers
fire (strongly: a timer does not wait for a free id).

Observation: `OneRenewalPerPeer` does not hold: a call that finds the lock taken deletes it
in its `finally` clause (`receiver.ts:190`), and the third call starts a second renewal. A
failed verification may be about a peer replaced meanwhile; it then adds a further one,
which `maintainPeers` removes later.

### Filter subscriptions

`SubscriptionManager` is the Filter subscription of one pubsub topic. A call of
`subscribe`, `unsubscribe`, `unsubscribeAll` or of the connection listener keeps the
requests under way and the answers not yet processed; `Request` takes effect at the
service node before the caller knows, whether or not the answer reaches it, and a node
pushes from then on (`Push`). A renewal's own request (`protocolSubscribe`,
`receiver.ts:175`) is a call too (`Renew`), at any time and to any peer in use. The
environment are service nodes that push each message once per node, and the peers in
use, which change at any time (`PeersChange`).

| Run | Instance | Shows |
|---|---|---|
| `sb_subscription` | 2 service nodes, 1 topic, 1 message, 2 calls | types, a message reaches the callback at most once, a subscribed online node pings, and ends up pinging for good |
| `sb_lost_message` | the same | a message pushed before `subscribe` returns is lost for good |

Bounds: two service nodes give duplicates and partial answers, two calls every overlap of
two; the proofs hold for any number of nodes, topics, messages and calls. Fairness:
requests are answered or fail and the event loop resumes the calls; nothing is assumed of
users, nodes or connections.

Observations: TLC refutes `UnsubscribeRemoves` (callbacks are deleted inside the loop over
peers, so without peers `unsubscribe` deletes none) and `MaintenanceStops`
(`removeEventListener` is given a new function, so listeners survive `unsubscribeAll` and
the next connection event starts the pings again).

`FilterSDK` is the level above: the `Filter` objects of the nodes of one process, the
subscription that each makes for a pubsub topic on the first `subscribe`, the callbacks
of several calls in it, and the static registry from which a subscription takes its
monitor. It is part of the run `node_services`. Observations: `NodesApart` does not hold:
the monitor of a pubsub topic is shared by the nodes of a process until one of them stops,
so a message that one has received the other passes over; a later `subscribe` for a
content topic takes the place of an earlier one (which the code says is on purpose), and
the function that `subscribeWithUnsubscribe` returned to the earlier caller then removes
the callback of the later.

### Light push

`LightPush` is `LightPush.send` and `attemptRetries` over `LightPushCore.send`. `Send`
starts a push to each peer in use; `Push` and `PushAnswered` are what follows the awaits of
one push, with each way it can fail; `StartRetry` and the actions after it are the retries,
which run on after `send` has returned.

| Run | Instance | Shows |
|---|---|---|
| `lp_send` | 2 sends (a good message and an empty one, one of them retrying), 2 service nodes that come and go, 2 attempts | `ReportsAreTrue` (types; a success is a node that has the message; healthy only if enough nodes took one), retries do not multiply, every send ends |

Bounds: two service nodes give a failure beside a success, two sends an order of their
health reports, two attempts a retry of a retry. Fairness: the event loop resumes what is
suspended; a request is answered or its stream breaks (the code has no timeout, so a
silent service node holds a send for ever).

Observations: `NO_PEER_AVAILABLE` reports no health; `maxAttempts` 0 means 3; a retry may
push again to peers that have accepted.

### Discovery services

`PeerStore` is the store that all share. `PeerExchangeDiscovery` has the chains of queries
and timers, `DnsDiscovery` the walk of the DNS tree and the writes of what it found,
`LocalPeerCache` the local storage that outlives the node. `Discovery` composes them,
with restarts of the node.

| Run | Instance | Shows |
|---|---|---|
| `disc_services` | peer exchange with DNS, or the cache; 2 peers with 2 addresses, 2 chains, 1 retry, a tree with a circle of branches, one that a root closes, a root that leads to itself, a dead end and 2 records, 2 restarts | `DiscoverySafe` (types, one chain per peer, no record under a branch twice, not too many bootstrap peers, memory covers storage, cached peers are known), `DiscoveryEnds`, nothing stored is forgotten |

Bounds: chains and searches race for one peer record, which takes two peers and two
chains; the tree has each kind of entry and each kind of circle, so that a walk may miss
what is left. Fairness: awaited requests and store operations settle, timers fire. An
operation of the peer store may reject: it ends the query (`StoreRejects`), the search
(`StoreFails`) or the pass of `start` (`LoopThrows`) it belongs to, and `start` then leaves
the cache not started with its listener in place.

A search ends unless it comes to a root from which roots lead only to roots
(`SearchEnds`, with `EndlessRoots`): the code tests visits at a branch (`dns.ts:119-122`)
and follows a root as it is (`dns.ts:116-118`), so `_search` then recurses for ever. The
tree of the run has such a root. `EverySearchEnds` is the promise of `dns.ts:189-191`
without the exception, and TLC refutes it on the same tree.

Observations: `stop` of peer exchange does nothing (`isStarted` is never set); a rejected
query leaves its peer in `queryingPeers` for ever (`OnlyWhileQuerying`); a peer is asked
`maxRetries` + 1 times; a search follows the root of a tree without testing visits
(`dns.ts:113-125`), so a record that is the domain or hangs at a root directly is read
again (`RecordsDiffer` leaves it out); an update by peer exchange may overwrite the
bootstrap tag (`TagsSurvive`); what lies under a visited branch is out of reach of later
searches; a cached peer identified between `has` and `save` gets its old address
(`AddressesAreLatest`); `createLibp2pAndUpdateOptions` writes into the options of its
caller.

### Node: relay, waiting, history queries

`Relay` has GossipSub's subscription, observers, messages in the middle of decoding, the
iterator (`toAsyncIterator`) and `waitForPeers`. `Metadata` are the handshakes that
`WaitForRemotePeer` waits for. `StoreQuery` is a query over a history that changes between
pages. `WakuNode` is a node of one of these kinds, with its start and stop (and the
filter nodes above); the kinds share nothing else, so a behaviour is one of one kind.

| Run | Instance | Shows |
|---|---|---|
| `node_services` | 2 topics, 3 messages, 2 observers and an iterator, 2 runs of `subscribeToAllTopics`; 2 peers with 2 protocols; up to 5 messages in pages of 2, one unreadable, a query from either end or from any cursor; 4 filter calls of 2 nodes | `RelayDelivers`, `FilterDelivers`, `QueryExact`, `WaitsAnswered`, `NodeProgresses` |
| `node_wait` | the same | a wait resolves though no peer serves what was waited for |

Bounds: a message that one observer can decode and another cannot, one that nobody wants
and one that is invalid; two protocols, one of which only one peer serves; a history of
three pages with a short last one, below and at `MAX_PAGE_SIZE` (3 stands for 100); two
filter calls that share a subscription, one of another node, one that is refused.
`MaxMessages` bounds what the service node stores; the code has no such bound, so no
property may rest on it, and `QueryEnds` says what holds without it: a backward query ends
while messages keep coming, a forward one once none comes any more. A forward query at a
node that stores a message between any two pages follows it for ever
(`core/src/lib/store/index.ts:53-134`); `EndsWithHistory`, which TLC refutes, is the step
by which it goes beyond the history it found. The pass over the connected peers reads the
protocols of a peer from the peer store, where one whose identify is still to come has
none yet: `PassGets` may find such a peer with or without its protocols.
Fairness: awaited promises come, a consumer of the iterator keeps asking, handshakes and
requests are answered or fail; nothing is assumed of peers, users or GossipSub.

Observations on relay: `send` publishes a message with an empty payload, which the
validator of every receiver rejects; the comment of `relay.ts:57-58` (observers under key
"" are always called) has no code; `getActiveSubscriptions` maps each pubsub topic to the
observers' own; starting it again after a stop delivers a message once per start
(`DeliveredOnce`), and a node that only libp2p has started is not subscribed
(`StartedIsSubscribed`); `waitForPeers` is content with a peer of one topic
(`MeshOnAllTopics`, `relay.ts:98-101`); the iterator drops its last message when it is
stopped (`IteratorYieldsAll`). On waiting: a returned handshake error counts as an answer,
listeners stay after the wait, a confirmed handshake never expires. On store: a query by
message hashes always throws in the SDK; the doc says paginationForward is false by
default and the SDK sets true; times lose precision in `Number * 1e6`; a message without
hash would repeat its page for ever; a query goes on until an empty page; the callbacks of
a page have all been called when one asks to stop (`AbortStops`), and what they had
delivered when the query fails is not complete (`EndIsComplete`).

## Proofs

TLAPS proves for every value of the constants:

- `ConnectionManagerProofs`: `TypeCorrectness`, `SlotsBounded` (slot accounting),
  `SlotsImplemented` (the refinement of `DialSlots`), `ConnectNotLost`, `NoPingLeak`,
  `ConnectionsPinged`. The invariant `TypeInv` adds to the types that a call that is
  not idle is about a peer and that every timer entry stands for a running interval
  (without it an interval count could drop below zero). The accounting is proved over
  the set `Dialing` with the cardinality lemmas of the library: a step changes the set
  by one call and the counter by one. Assumption: `Calls` is finite.
- `CoreProtocolProofs`, about what core gives the protocols of a node, in five parts that
  share no state. Streams (`StreamManager`): `StreamTypes`, `CreationLockExact`,
  `WaitingStreamGivenOnce`; the invariant says that a stream that was found is locked and
  already opened, that streams still to be opened are blank (so that opening one unlocks
  nothing), and that the lock is held by exactly one creation. Peers (`PeerFilter`):
  `PeersAlwaysChosen`, for any numbers asked for, random choices and latencies. The
  invariant counts the bootstrap peers taken and says that each other peer is either
  taken or left. Filtering and sorting are both `Arranged`, whose lemma (`Arrangement`)
  finds the bijection between the places of the old list and those of the new one.
  The other three parts are about what is written and read again. Each codec of
  `ProtoMessages` has a lemma on what its wire holds for each field number (`X_fields`)
  and one that the decoder returns the object encoded (`X_read`), for objects of the
  generated type with any values; nested messages take the lemma of the inner type.
  Requests (`RpcExchange`): `ExchangesAreExact`; the invariant `RpcInv` says for each
  stage of an exchange what is on the wire and what has been served. Topics
  (`NodeTopics`): `TopicsAlwaysAgree`, for all configurations and any digest of content
  topics; `TopicInv` ties the topics of the node, what it told and the topic of its codec
  to the configuration. It needs that the two encodings of relay shards are read back (the
  list and the bit vector, `Sharding`), that `Set` keeps each topic once and in order
  (`Deduplicated`), and that the topic of a content topic depends on its application and
  version only.
  Messages (`MessagePath`): `MessagesArriveExact`, for all encoders, messages and
  decoders; `MessageInv` says what is on the wire while the message is pushed and after
  (`OnTheWire`, whoever wrote it anew), that nothing has arrived before (`NothingYet`) and
  that what has arrived is faithful, at most once by filter (`AtReceiver`). Below it lie
  the lemmas on the envelope of a payload: its size field holds the size, its padding ends
  on the block, its flags say whether it is signed.
  Assumptions: the number of connections and streams is bounded; `Peers` is finite and the
  peer store lists every peer once; calls, answers, configurations and messages have the
  types of the code (optional fields have one value or none), clusters and shards fit in
  16 bits; the receiver has a decoder for each encoder the sending node may use.
- `BaseProtocolProofs`: `HealthAlwaysReported`, `OverallAlwaysWorst`,
  `CallsAreWellFormed`. For the first two, every step reports the new list, is a report of
  light push, or changes neither list nor statuses (`StepReports`); the invariant adds
  that the overall status is the one computed from what was reported last, which ties it
  to the initial "Unhealthy". The third is `TypeOK`, which is more than types: no list
  holds a peer twice, the calls at the write mutex are those that wait for it, attempts
  stay below the limit. Its invariant `CallsInv` adds that a call at the mutex has a peer
  to remove or to add, without which `addPeer` would add the head of an empty list.
  Assumption: `Peers` is finite.
- `ReliabilityMonitorProofs`: `TypeCorrectness`, `LockNotLeaked`, `FailuresHandled`,
  `PendingExact`. The properties are inductive together with the types, which say that a
  call between the start and the end of a renewal has a peer. `RenewStarts` and
  `RenewalEnds` state once what entering and leaving a renewal does to call and lock.
  Assumption: there is a limit, and limits are positive.
- `SubscriptionProofs`: `TypeCorrectness`, `DeliveredAtMostOnce` (with: what was
  delivered was received), `SubscriptionKept` (with: a callback implies a listener, and
  where pings of an online node do not run, a listener's call is about to start them).
- `LightPushProofs`: `ReportsTrue`, `RetriesBounded`. That what is reported is true needs
  that each push that counts as accepted is one the service node has taken
  (`PushesAreTrue`). The bound needs a budget: the pushes the retries of a send may still
  start, as the set of pairs of a peer and a later attempt. `BudgetKept` adds its size to
  the pushes already started, and each step of a retry moves one from the one to the
  other. Assumption: `Peers` is finite.
- `DiscoveryProofs`: `ServicesAreSafe` (`DiscoverySafe`) and the action property
  `StorageForgetsNothing`. There is one invariant per service. `ExchangeInv`: a chain with
  a timer has attempts left. `DnsInv`: a peer that was taken served a capability still
  wanted (`TakenFor`), so the number of bootstrap peers is bounded by the sum of the wanted
  numbers; a record still to be read was not visited. `CacheInv`: while the
  pass of `start` runs, each stored peer is known or still ahead of it (`LoopCovers`). The
  services share the peer store; what each needs of a step of another is that a peer once
  known stays known (`KnownStay`).
- `WakuNodeProofs`: `RelayDeliversAlways`, `FilterDeliversAlways`, `WaitsAlwaysAnswered`,
  `QueryAlwaysExact`, each with an invariant of its own kind of node. Relay: of every
  message and observer the listeners that read, decode and have delivered add up to no
  more than the rounds of `subscribeToAllTopics`. Filter: what a callback was given is
  noted in the monitor that its subscription asks. Waiting: the pass over the
  connected peers has at most one handshake, with the peer before it, all others are of
  protocols waited for, and a node that waits for nothing has none. Store: what was
  delivered is what is readable from where the first page began to the end of the last
  one (`DeliveredCovers`), and the pages follow one another from there (`CursorFollows`,
  `PageInHistory`), whether the query began at an end of the history or at a cursor of its
  caller. Assumptions: peers and the decoders of a call are finitely many, a wait is for some
  protocol, a relay has a sequence of topics and runs `subscribeToAllTopics` a bounded
  number of times.

Only model-checked: everything temporal beyond invariants, action properties and
refinement, as liveness under fairness is out of the prover's reach (`DialsConclude`,
`GetStreamEnds`, `CallsReturn`, `Converges`, `MonitorConcludes`, `PingsResume`,
`EverySendEnds`, `DiscoveryEnds`, `NodeProgresses`), and the two runs that show a
violation. Every invariant and every action property of the passing runs is proved.

## Formulas without a run

Some formulas at the ends of the modules state what a comment, a document or a test says,
or one might expect, and the code does not keep. The two that the runs `sb_lost_message`
and `node_wait` refute are in the list of findings; the others are described above under
Observations: `OneDialPerPeer`, `BootstrapLimit`, `StatusFollowsConnections`,
`NoStrandedPeer`, `OneIntervalPerPeer`, `DifferentStreams`, `RenewalReplaces`,
`NoLightPushUnhealthy`, `OneRenewalPerPeer`, `UnsubscribeRemoves`, `MaintenanceStops`,
`NodesApart`, `AllWhenZero`, `AbortStops`, `EndIsComplete`, `EndsWithHistory`,
`EverySearchEnds`, `OnlyWhileQuerying`, `TagsSurvive`, `AddressesAreLatest`,
`MeshOnAllTopics`, `IteratorYieldsAll`, `DeliveredOnce` (of `Relay`),
`StartedIsSubscribed`.

## Not modelled

- Node records (`enr/`): RLP encoding and signatures, no protocol state.
- The ciphers, hash and signature functions: taken to be ideal.
- DNS-over-HTTPS requests and the parsing of tree entries: I/O; a search fails or resolves.
- `proto/src/generated/filter.ts`: filter version 1, which no protocol uses; and the
  copies of `WakuMessage` and `RateLimitProof` in other generated files, whose schema is
  modelled once.
- The libp2p options of node creation, interfaces, logging, examples and test tools.
- libp2p itself, GossipSub and the service nodes: environment, modelled from their use.

## Possible extensions

Compositions: `SubscriptionManager` with the renewals of
`ReceiverReliabilityMonitor`, and that one with `BaseProtocolSDK`.
