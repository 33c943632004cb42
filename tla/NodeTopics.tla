------------------------------- MODULE NodeTopics -------------------------------
(***************************************************************************)
(* Where the pubsub topics of a node come from, and what its peers learn   *)
(* of them.  A node is created from a network configuration                *)
(* (sdk/src/create/libp2p.ts); it tells a peer its shards in the metadata  *)
(* protocol, the peer writes them to its peer store                        *)
(* (core/src/lib/metadata/index.ts) and reads them there when it decides   *)
(* whether the node is on one of its topics                                *)
(* (ConnectionManager.isPeerTopicConfigured).  Encoders and decoders are   *)
(* created apart, from a content topic and what is known of its shard.     *)
(***************************************************************************)
EXTENDS Sharding, ProtoMessages

CONSTANTS
    Configs,        \* network configurations
    ContentTopics,  \* content topics of encoders and decoders
    Infos           \* clusters and shards they may be given

\* Clusters and shards are numbers of 16 bits; the hash is a number.
MaxIndex == 65535
Indices == 0 .. MaxIndex
ASSUME TopicAssumption ==
    \A c \in Configs :
        /\ IsOptional(c.clusterId) /\ \A i \in DOMAIN c.clusterId : c.clusterId[i] \in Indices
        /\ IsOptional(c.shards) /\ AllAre(c.shards, IsList)
        /\ \A i \in DOMAIN c.shards :
              \A j \in DOMAIN c.shards[i] : c.shards[i][j] \in Indices
        /\ IsOptional(c.contentTopics) /\ AllAre(c.contentTopics, IsList)
        /\ \A i \in DOMAIN c.contentTopics : \A j \in DOMAIN c.contentTopics[i] :
              LET ct == c.contentTopics[i][j]
              IN  Digest[ct.application \o ct.version] \in Nat

VARIABLES
    config,         \* the configuration of the node
    node,           \* "new", "refused" or "created"
    pubsubTopics,   \* its topics
    told,           \* what it has told a peer, on the wire; <<>> before
    shardInfoBytes, \* what the peer has stored of it; <<>> before
    codecs          \* the [contentTopic, info, pubsubTopic] of encoders

topicVars == <<config, node, pubsubTopics, told, shardInfoBytes, codecs>>

MaxCodecs == 1

TopicInit ==
    /\ config \in Configs
    /\ node = "new"
    /\ pubsubTopics = <<>> /\ told = <<>> /\ shardInfoBytes = <<>>
    /\ codecs = {}

\* createLibp2pAndUpdateOptions, or it throws.
CreateNode ==
    /\ node = "new"
    /\ LET topics == derivePubsubTopicsFromNetworkConfig(config)
       IN  IF topics = <<>> THEN node' = "refused" /\ UNCHANGED pubsubTopics
           ELSE node' = "created" /\ pubsubTopics' = topics[1]
    /\ UNCHANGED <<config, told, shardInfoBytes, codecs>>

\* Metadata.query or onRequest: the node's shards.
TellShards ==
    /\ node = "created" /\ told = <<>>
    /\ LET info == pubsubTopicsToShardInfo(pubsubTopics)[1]
       IN  told' = <<WakuMetadataRequest_encode(
                       [clusterId |-> <<info.clusterId>>, shards |-> info.shards])>>
    /\ UNCHANGED <<config, node, pubsubTopics, shardInfoBytes, codecs>>

\* decodeMetadataResponse and savePeerShardInfo at the peer; a request is read
\* as a response.
SaveShards ==
    /\ told # <<>> /\ shardInfoBytes = <<>>
    /\ LET read == WakuMetadataResponse_decode(told[1])
       IN  shardInfoBytes' = encodeRelayShard([clusterId |-> read.clusterId[1],
                                               shards |-> read.shards])
    /\ UNCHANGED <<config, node, pubsubTopics, told, codecs>>

\* createEncoder or createDecoder of a valid content topic.
CreateCodec(ct, info) ==
    /\ IsValid(ct)
    /\ Cardinality(codecs) < MaxCodecs
    /\ codecs' = codecs \cup {[contentTopic |-> ct, info |-> info,
                               pubsubTopic |-> determinePubsubTopic(ct, info)]}
    /\ UNCHANGED <<config, node, pubsubTopics, told, shardInfoBytes>>

TopicNext ==
    \/ CreateNode \/ TellShards \/ SaveShards
    \/ \E ct \in ContentTopics, info \in Infos : CreateCodec(ct, info)

TopicSpec == TopicInit /\ [][TopicNext]_topicVars

-----------------------------------------------------------------------------
\* ConnectionManager.isPeerTopicConfigured at the peer: the topics of the node
\* as the peer has them.
peerTopics == shardInfoToPubsubTopics(decodeRelayShard(shardInfoBytes[1])[1])

\* A peer takes the node to be on the topics it is on, and on no other: the
\* shards survive the metadata message and both forms of the bytes in the peer
\* store, however many there are and in whatever order they were configured.
ShardsKnown ==
    shardInfoBytes # <<>> => ToSet(peerTopics) = ToSet(pubsubTopics)

\* An encoder or a decoder is on a topic of the node when it was given the
\* node's cluster and a shard of the node, or when the node was configured
\* with content topics, this one among them.
CodecOnNode ==
    node = "created" =>
        \A c \in codecs :
            OrDefault(c.info.clusterId) = OrDefault(config.clusterId)
            /\ (IF isAutoSharding(config)
                THEN /\ c.info.shard = <<>>
                     /\ Contains(config.contentTopics[1], c.contentTopic)
                ELSE /\ c.info.shard # <<>>
                     /\ Contains(config.shards[1], c.info.shard[1]))
            => Contains(pubsubTopics, c.pubsubTopic)

\* The content topics of one application in one version are on one pubsub
\* topic, so a subscription to all of them needs one service.
ApplicationOnOneTopic ==
    node = "created" /\ isAutoSharding(config) =>
        LET groups == contentTopicsByPubsubTopic(config.contentTopics[1],
                                                 config.clusterId)
        IN  /\ DOMAIN groups = ToSet(pubsubTopics)
            /\ \A t, u \in DOMAIN groups :
                 (\E a \in ToSet(groups[t]), b \in ToSet(groups[u]) :
                     a.application = b.application /\ a.version = b.version)
                 => t = u

\* The two functions that read a network configuration find the same topics,
\* and the shard info the one returns is that of the topics of the other.
\* (Configurations with shards and content topics are read differently.)
ReadingsAgree ==
    node = "created" /\ (config.shards = <<>> \/ ~isAutoSharding(config)) =>
        \A read \in ToSet(ensureShardingConfigured(config)) :
            LET info == pubsubTopicsToShardInfo(pubsubTopics)[1]
            IN  /\ ToSet(read.pubsubTopics) = ToSet(pubsubTopics)
                /\ read.shardInfo.clusterId = info.clusterId
                /\ ToSet(read.shardInfo.shards) = ToSet(info.shards)

\* The node, its encoders and its peers agree on its topics, whichever function
\* computes them (utils/src/common/sharding, create/libp2p.ts, metadata).
TopicsAgree == ShardsKnown /\ CodecOnNode /\ ApplicationOnOneTopic /\ ReadingsAgree
=============================================================================
