------------------------------- MODULE Sharding -------------------------------
(***************************************************************************)
(* Shards and topics: utils/src/common/sharding/ and the codec of the      *)
(* peer store, utils/src/common/relay_shard_codec.ts.                      *)
(*                                                                         *)
(* A pubsub topic /waku/2/rs/<cluster>/<shard> is the pair <<cluster,      *)
(* shard>>.  A content topic is a record of its parts, sequences of        *)
(* letters but for the generation, a number, which is 0 when it is left    *)
(* out.  What may be undefined is a sequence of at most one value; an      *)
(* operator that may throw gives <<>> then, and <<value>> otherwise.       *)
(***************************************************************************)
EXTENDS Lists, SequencesExt

CONSTANT Digest     \* the hash of a sequence of letters, as a number

DEFAULT_CLUSTER_ID == 1
NetworkShards == 8

OrDefault(clusterId) ==
    IF clusterId = <<>> THEN DEFAULT_CLUSTER_ID ELSE clusterId[1]

-----------------------------------------------------------------------------
\* ensureValidContentTopic: no generation above 0 (one below passes), and
\* nothing empty.  A generation that is no number, which it also refuses, is
\* not represented.
IsValid(ct) ==
    /\ ct.generation <= 0
    /\ ct.application # <<>> /\ ct.version # <<>>
    /\ ct.topicName # <<>> /\ ct.encoding # <<>>

\* contentTopicToShardIndex: the hash of the application and the version put
\* together.  The mutant hashes the whole topic.
ShardOfWholeTopic(ct) ==
    Digest[ct.application \o ct.version \o ct.topicName] % NetworkShards
contentTopicToShardIndex(ct) ==
    Digest[ct.application \o ct.version] % NetworkShards

\* contentTopicToPubsubTopic, for content topics that are valid.
contentTopicToPubsubTopic(ct, clusterId) ==
    <<OrDefault(clusterId), contentTopicToShardIndex(ct)>>

AllValid(contentTopics) == \A i \in DOMAIN contentTopics : IsValid(contentTopics[i])
TopicsOf(contentTopics, clusterId) ==
    [i \in DOMAIN contentTopics |->
        contentTopicToPubsubTopic(contentTopics[i], clusterId)]

\* contentTopicsByPubsubTopic: the content topics of each pubsub topic.
contentTopicsByPubsubTopic(contentTopics, clusterId) ==
    [t \in ToSet(TopicsOf(contentTopics, clusterId)) |->
        ElementsAt(contentTopics,
                   {i \in DOMAIN contentTopics :
                        contentTopicToPubsubTopic(contentTopics[i], clusterId) = t})]

-----------------------------------------------------------------------------
\* A network configuration has a cluster and shards or content topics, each of
\* which may be left out.
isAutoSharding(config) == config.contentTopics # <<>>
isStaticSharding(config) ==
    config.clusterId # <<>> /\ config.shards # <<>> /\ ~isAutoSharding(config)

TopicsOfShards(shards, clusterId) ==
    Deduplicated([i \in DOMAIN shards |-> <<OrDefault(clusterId), shards[i]>>])

\* shardInfoToPubsubTopics, for shards.
shardInfoToPubsubTopics(shardInfo) ==
    TopicsOfShards(shardInfo.shards, <<shardInfo.clusterId>>)

\* derivePubsubTopicsFromNetworkConfig.
derivePubsubTopicsFromNetworkConfig(config) ==
    CASE isStaticSharding(config) /\ config.shards[1] # <<>> ->
            <<TopicsOfShards(config.shards[1], config.clusterId)>>
      [] isAutoSharding(config) /\ config.contentTopics[1] # <<>>
         /\ AllValid(config.contentTopics[1]) ->
            <<TopicsOf(config.contentTopics[1], config.clusterId)>>
      [] OTHER -> <<>>

\* The cluster that is configured, or the default.  The mutant takes cluster 0
\* for none.
ClusterZeroUnset(config) ==
    IF config.clusterId = <<0>> THEN DEFAULT_CLUSTER_ID ELSE OrDefault(config.clusterId)
ConfiguredCluster(config) == OrDefault(config.clusterId)

\* ensureShardingConfigured, which prefers shards to content topics.
ensureShardingConfigured(config) ==
    LET shards == IF config.shards = <<>> THEN <<>> ELSE config.shards[1]
        cts == IF config.contentTopics = <<>> THEN <<>> ELSE config.contentTopics[1]
        clusterId == ConfiguredCluster(config)
    IN  CASE shards # <<>> ->
                << [shardInfo |-> [clusterId |-> clusterId, shards |-> shards],
                    pubsubTopics |-> TopicsOfShards(shards, <<clusterId>>)] >>
          [] shards = <<>> /\ cts # <<>> /\ AllValid(cts) ->
                << [shardInfo |->
                      [clusterId |-> clusterId,
                       shards |-> Deduplicated([i \in DOMAIN cts |->
                                     contentTopicToShardIndex(cts[i])])],
                    pubsubTopics |->
                      Deduplicated(TopicsOf(cts, <<clusterId>>))] >>
          [] OTHER -> <<>>

\* determinePubsubTopic: the pubsub topic of an encoder or a decoder, from a
\* content topic and a shard, a cluster, both or none (a pubsub topic given as
\* such is taken as it is).  The mutant takes shard 0 for no shard.
determineShardZeroUnset(ct, info) ==
    IF info.shard # <<>> /\ info.shard # <<0>>
    THEN <<OrDefault(info.clusterId), info.shard[1]>>
    ELSE contentTopicToPubsubTopic(ct, info.clusterId)
determinePubsubTopic(ct, info) ==
    IF info.shard # <<>> THEN <<OrDefault(info.clusterId), info.shard[1]>>
    ELSE contentTopicToPubsubTopic(ct, info.clusterId)

\* pubsubTopicsToShardInfo: one cluster, every shard once.
pubsubTopicsToShardInfo(pubsubTopics) ==
    LET clusters == {pubsubTopics[i][1] : i \in DOMAIN pubsubTopics}
        unique == Deduplicated(pubsubTopics)
    IN  IF \E c \in clusters : clusters = {c}
        THEN << [clusterId |-> unique[1][1],
                 shards |-> [i \in DOMAIN unique |-> unique[i][2]]] >>
        ELSE <<>>

-----------------------------------------------------------------------------
\* relay_shard_codec.ts, byte for byte.  Numbers of 16 bits, high byte first.
Word(n) == <<(n \div 256) % 256, n % 256>>
ReadWord(bytes, at) == 256 * bytes[at] + bytes[at + 1]

VectorFrom == 64        \* as many shards are written as a bit vector
VectorLength == 130     \* whose length tells it from a list
VectorShards == 1024    \* and which has a bit for each of these

\* 1 << (7 - index % 8), and byte & it.
BitOf(index) == <<128, 64, 32, 16, 8, 4, 2, 1>>[(index % 8) + 1]
HasBit(byte, index) == (byte \div BitOf(index)) % 2 = 1

\* The bytes of a bit vector, the or of its bits.  The mutant counts bits the
\* other way.
MirroredVector(shards) ==
    [i \in 1 .. VectorLength - 2 |->
        LET Bit(k) == IF 8 * (i - 1) + k \in shards THEN BitOf(7 - k) ELSE 0
        IN  Bit(0) + Bit(1) + Bit(2) + Bit(3) + Bit(4) + Bit(5) + Bit(6) + Bit(7)]
Vector(shards) ==
    [i \in 1 .. VectorLength - 2 |->
        LET Bit(k) == IF 8 * (i - 1) + k \in shards THEN BitOf(k) ELSE 0
        IN  Bit(0) + Bit(1) + Bit(2) + Bit(3) + Bit(4) + Bit(5) + Bit(6) + Bit(7)]

\* The bytes of a list, its length and two for each shard.
ShardList(shards) ==
    [at \in 1 .. 1 + 2 * Len(shards) |->
        IF at = 1 THEN Len(shards) ELSE Word(shards[at \div 2])[(at % 2) + 1]]

\* encodeRelayShard: the count and the shards, or a bit for each.  A shard
\* beyond the vector makes it throw.
encodeRelayShard(shardInfo) ==
    LET shards == shardInfo.shards
    IN  CASE Len(shards) < VectorFrom ->
                <<Word(shardInfo.clusterId) \o ShardList(shards)>>
          [] Len(shards) >= VectorFrom /\ (\A i \in DOMAIN shards : shards[i] < VectorShards) ->
                <<Word(shardInfo.clusterId) \o Vector(ToSet(shards))>>
          [] OTHER -> <<>>

\* decodeRelayShard: too few bytes make it throw.
decodeRelayShard(bytes) ==
    LET clusterId == ReadWord(bytes, 1)
        Listed == [i \in 1 .. bytes[3] |-> ReadWord(bytes, 2 + 2 * i)]
        Set == {i \in 1 .. VectorShards : HasBit(bytes[(i - 1) \div 8 + 3], i - 1)}
        InVector == ElementsAt([i \in 1 .. VectorShards |-> i - 1], Set)
    IN  CASE Len(bytes) = VectorLength ->
                << [clusterId |-> clusterId, shards |-> InVector] >>
          [] Len(bytes) >= 3 /\ Len(bytes) # VectorLength
             /\ Len(bytes) >= 3 + 2 * bytes[3] ->
                << [clusterId |-> clusterId, shards |-> Listed] >>
          [] OTHER -> <<>>
=============================================================================
